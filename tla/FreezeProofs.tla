---------------------------- MODULE FreezeProofs ----------------------------
(***************************************************************************)
(* Proofs about the agent's freezes and thaws, for every number of         *)
(* channels, requests, crashes and failing helper calls: an active         *)
(* snapshot always has a watchdog that will find it, whatever else the     *)
(* hosts ask for; and where one channel asks for snapshots and freezes     *)
(* only, the freeze of an active snapshot has lasted since its prepare.    *)
(***************************************************************************)
EXTENDS AgentFreeze, FiniteSetTheorems, TLAPS

-----------------------------------------------------------------------------
(* The invariant behind NeverUnwatched.  A watchdog is a thread of its own, *)
(* named after its request.                                                *)

\* Where a thread is from the call that freezes to the last step before its
\* watchdog starts.
StartPCs == {"freeze", "flag_on", "hint_on", "store", "spawn", "arm"}

\* A request that may still start a watchdog: prepare or enter_cutover.
Pending(r) ==
  \/ r.pc \in {"freeze", "flag_on", "hint_on"} /\ r.op \in {"prepare", "enter"}
  \/ r.pc \in {"store", "spawn", "arm"}

\* Channels whose request is about to freeze, each of which may add one epoch.
Freezing == {c \in Channels : th[c].pc = "freeze"}

\* Neither the freezes nor the seconds outrun the requests.
CountsFit == epoch + Cardinality(Freezing) <= made /\ second <= made

\* A watchdog thread that has yet to be started is at rest, one pending
\* request has it to itself, and only requests are pending.
SlotsFit ==
  /\ \A t \in Threads : th[t].pc \in StartPCs => t \in Channels
  /\ \A n \in Requests : n > made => th[n] = Rest
  /\ \A c \in Channels :
       Pending(th[c]) => th[c].n \in 1 .. made /\ th[th[c].n] = Rest
  /\ \A c, d \in Channels :
       Pending(th[c]) /\ Pending(th[d]) /\ c # d => th[c].n # th[d].n

WatchInv == TypeOK /\ CountsFit /\ SlotsFit /\ NeverUnwatched

-----------------------------------------------------------------------------
(* The invariant behind ActiveFreezeHolds, for one channel c.               *)

\* What the one host asks for: snapshots and plain freezes.
SnapshotOps == {"prepare", "complete", "freeze", "qga_freeze"}

\* c has frozen the root for a snapshot and not yet stored it in ACTIVE.
Holding(c) ==
  th[c].op = "prepare" /\ th[c].pc \in {"flag_on", "hint_on", "store"} /\ th[c].froze

\* Where a thread is from the call that freezes to the last step before it
\* stores the snapshot or starts the cutover's watchdog.
FreezePCs == {"freeze", "flag_on", "hint_on", "store", "arm"}

\* No thread is in a cutover.
NoCutover ==
  /\ marker = NoMarker
  /\ \A t \in Threads :
       /\ th[t].op \in SnapshotOps \cup {"none", "snap_dog"}
       /\ th[t].pc \notin {"arm", "truncate", "write"}
       /\ th[t].pc = "store" => th[t].op = "prepare"

\* One thread at most is about to thaw, and then nobody counts on the freeze.
ThawsFit(c) ==
  \A t \in Threads : th[t].pc = "thaw" =>
    /\ frozen /\ ~Holding(c)
    /\ active # NoSnapshot => ~active.frozen
    /\ \A u \in Threads : th[u].pc = "thaw" => u = t

\* While c prepares nothing is active, and what it has frozen is frozen.
PrepareFits(c) ==
  /\ Holding(c) => frozen /\ th[c].epoch = epoch
  /\ th[c].op = "prepare" /\ th[c].pc \in FreezePCs => active = NoSnapshot
  /\ th[c].op = "prepare" /\ th[c].pc = "freeze" => ~th[c].froze

HoldInv(c) == NoCutover /\ ThawsFit(c) /\ PrepareFits(c) /\ ActiveFreezeHolds

-----------------------------------------------------------------------------
(* How a step moves a thread.                                               *)

\* The step touches no thread but t.
OnlyMoves(t) ==
  /\ th' \in [Threads -> ThreadStates]
  /\ \A u \in Threads : u # t => th'[u] = th[u]

\* t goes on with everything else it holds.
Continues(t) ==
  /\ th'[t].op = th[t].op /\ th'[t].n = th[t].n /\ th'[t].id = th[t].id
  /\ th'[t].froze = th[t].froze /\ th'[t].epoch = th[t].epoch

\* t goes on, or ends.
GoesOn(t) == Continues(t) \/ th'[t] = Rest

\* A thread at rest holds nothing.
LEMMA RestHolds ==
  /\ Rest \in ThreadStates
  /\ Rest.pc = "rest" /\ Rest.op = "none" /\ ~Rest.froze
<1>1. 0 \in 0 .. MaxRequests
  BY FreezeAssumption
<1> QED
  BY <1>1 DEF Rest, ThreadStates, PCs

\* Goto changes where a thread is and nothing else.
LEMMA GotoMoves ==
  ASSUME TypeOK, NEW t \in Threads, NEW x \in PCs, Goto(t, x)
  PROVE  OnlyMoves(t) /\ Continues(t) /\ th'[t].pc = x
<1>0. th \in [Threads -> ThreadStates]
  BY DEF TypeOK
<1>1. [th[t] EXCEPT !.pc = x] \in ThreadStates
  BY <1>0 DEF ThreadStates
<1>2. th' = [th EXCEPT ![t] = [th[t] EXCEPT !.pc = x]]
  BY DEF Goto
<1>3. th'[t] = [th[t] EXCEPT !.pc = x] /\ OnlyMoves(t)
  BY <1>0, <1>1, <1>2 DEF OnlyMoves
<1> QED
  BY <1>0, <1>3 DEF Continues, ThreadStates

\* Finish puts a thread to rest.
LEMMA FinishMoves ==
  ASSUME TypeOK, NEW t \in Threads, Finish(t)
  PROVE  OnlyMoves(t) /\ th'[t] = Rest
<1>0. th \in [Threads -> ThreadStates]
  BY DEF TypeOK
<1> QED
  BY <1>0, RestHolds DEF OnlyMoves, Finish

\* Replacing what a thread holds touches no other thread.
LEMMA SetMoves ==
  ASSUME TypeOK, NEW t \in Threads, NEW r \in ThreadStates,
         th' = [th EXCEPT ![t] = r]
  PROVE  OnlyMoves(t) /\ th'[t] = r
<1>0. th \in [Threads -> ThreadStates]
  BY DEF TypeOK
<1> QED
  BY <1>0 DEF OnlyMoves

\* What a thread holds has its type.
LEMMA FieldTypes ==
  ASSUME TypeOK, NEW t \in Threads
  PROVE  /\ th[t] \in ThreadStates
         /\ th[t].froze \in BOOLEAN /\ th[t].quiet \in BOOLEAN
         /\ th[t].list \in SUBSET Services
         /\ th[t].id \in 0 .. MaxRequests /\ th[t].epoch \in 0 .. MaxRequests
<1>1. th[t] \in ThreadStates
  BY DEF TypeOK
<1> QED
  BY <1>1 DEF ThreadStates

\* A helper call that fails is counted within the bound.
LEMMA MishapType ==
  ASSUME TypeOK, Mishap \/ UNCHANGED mishaps
  PROVE  mishaps' \in 0 .. MaxMishaps
  BY FreezeAssumption DEF TypeOK, Mishap

\* Channels, the boot thread and the watchdogs are different threads.
LEMMA ThreadsApart ==
  /\ Boot \in Threads /\ Boot \notin Channels /\ Boot \notin Requests
  /\ \A c \in Channels : c \in Threads /\ c \notin Requests
  /\ \A n \in Requests : n \in Threads /\ n \notin Channels
  BY FreezeAssumption DEF Threads, Requests

-----------------------------------------------------------------------------
(* Counting the freezes.                                                    *)

\* The set of channels about to freeze is finite.
LEMMA FreezingFinite ==
  IsFiniteSet(Freezing) /\ Cardinality(Freezing) \in Nat
<1>1. Freezing \subseteq Channels
  BY DEF Freezing
<1>2. IsFiniteSet(Freezing)
  BY <1>1, FreezeAssumption, FS_Subset
<1> QED
  BY <1>2, FS_CardinalityType

\* It is finite in the next state as well.
LEMMA FreezingFiniteNext ==
  IsFiniteSet(Freezing') /\ Cardinality(Freezing') \in Nat
<1>1. Freezing' \subseteq Channels
  BY DEF Freezing
<1>2. IsFiniteSet(Freezing')
  BY <1>1, FreezeAssumption, FS_Subset
<1> QED
  BY <1>2, FS_CardinalityType

\* A step of one thread brings at most that one to the freeze.
LEMMA OneMoreFreezes ==
  ASSUME NEW c \in Channels, OnlyMoves(c)
  PROVE  Cardinality(Freezing') <= Cardinality(Freezing) + 1
<1>1. Freezing' \subseteq Freezing \cup {c}
  BY ThreadsApart DEF Freezing, OnlyMoves
<1>2. IsFiniteSet(Freezing \cup {c})
      /\ Cardinality(Freezing \cup {c}) <= Cardinality(Freezing) + 1
      /\ Cardinality(Freezing \cup {c}) \in Nat
  <2>1. IsFiniteSet(Freezing \cup {c})
    BY FreezingFinite, FS_AddElement
  <2>2. Cardinality(Freezing \cup {c}) \in {Cardinality(Freezing), Cardinality(Freezing) + 1}
    BY FreezingFinite, FS_AddElement
  <2> QED
    BY <2>1, <2>2, FreezingFinite
<1>3. Cardinality(Freezing') <= Cardinality(Freezing \cup {c})
  BY <1>1, <1>2, FS_Subset
<1> QED
  BY <1>2, <1>3, FreezingFinite, FreezingFiniteNext

\* A step of a thread from elsewhere to elsewhere leaves the count alone.
LEMMA SameFreeze ==
  ASSUME NEW t \in Threads, OnlyMoves(t),
         th[t].pc # "freeze", th'[t].pc # "freeze"
  PROVE  Freezing' = Freezing
  BY ThreadsApart DEF Freezing, OnlyMoves

\* The step that freezes leaves one fewer about to.
LEMMA OneFewerFreezes ==
  ASSUME NEW c \in Channels, OnlyMoves(c),
         th[c].pc = "freeze", th'[c].pc # "freeze"
  PROVE  Cardinality(Freezing') + 1 = Cardinality(Freezing)
<1>1. Freezing' = Freezing \ {c} /\ c \in Freezing
  BY ThreadsApart DEF Freezing, OnlyMoves
<1>2. Cardinality(Freezing \ {c}) = Cardinality(Freezing) - 1
  BY Zenon, <1>1, FreezingFinite, FS_RemoveElement
<1> QED
  BY <1>1, <1>2, FreezingFinite

-----------------------------------------------------------------------------
(* Steps and the watchdogs.                                                 *)

\* A step of one thread that is not at rest, and starts no request, keeps the
\* slots.
LEMMA MoveKeepsSlots ==
  ASSUME SlotsFit, NEW t \in Threads, OnlyMoves(t), made' = made,
         made \in 0 .. MaxRequests,
         th[t].pc # "rest",
         th'[t].pc \in StartPCs => th[t].pc \in StartPCs,
         Pending(th'[t]) => Pending(th[t]) /\ th'[t].n = th[t].n
  PROVE  SlotsFit'
<1>1. th[t] # Rest
  BY RestHolds
<1>2. \A u \in Threads : u # t => th'[u] = th[u]
  BY DEF OnlyMoves
<1>3. \A u \in Threads : th'[u].pc \in StartPCs => u \in Channels
  BY Zenon, <1>2 DEF SlotsFit
<1>4. \A n \in Requests : n > made => th'[n] = Rest
  BY Zenon, <1>1, <1>2, ThreadsApart DEF SlotsFit
<1>5. ASSUME NEW c \in Channels, Pending(th'[c])
      PROVE  Pending(th[c]) /\ th'[c].n = th[c].n
  BY Zenon, <1>2, <1>5, ThreadsApart
<1>6. ASSUME NEW c \in Channels, Pending(th'[c])
      PROVE  th'[c].n \in 1 .. made /\ th'[th'[c].n] = Rest
  <2>1. th'[c].n \in 1 .. made /\ th[th'[c].n] = Rest
    BY Zenon, <1>5, <1>6 DEF SlotsFit
  <2>2. th'[c].n \in Requests
    BY <2>1, FreezeAssumption DEF Requests
  <2> QED
    BY Zenon, <1>1, <1>2, <2>1, <2>2, ThreadsApart
<1>7. \A c, d \in Channels :
        Pending(th'[c]) /\ Pending(th'[d]) /\ c # d => th'[c].n # th'[d].n
  BY Zenon, <1>5 DEF SlotsFit
<1> QED
  BY Zenon, <1>3, <1>4, <1>6, <1>7 DEF SlotsFit

\* A step of one thread that is not at rest keeps the watchdogs in order: it
\* starts no request, and if it takes a watchdog off its post nothing is active.
LEMMA MoveKeepsWatch ==
  ASSUME SlotsFit, NeverUnwatched, NEW t \in Threads, OnlyMoves(t), made' = made,
         made \in 0 .. MaxRequests,
         th[t].pc # "rest",
         th'[t].pc \in StartPCs => th[t].pc \in StartPCs,
         Pending(th'[t]) => Pending(th[t]) /\ th'[t].n = th[t].n,
         \/ active' = NoSnapshot
         \/ /\ active' = active
            /\ Watches(th[t]) /\ active # NoSnapshot /\ th[t].id = active.id
                 => Watches(th'[t]) /\ th'[t].id = th[t].id
  PROVE  SlotsFit' /\ NeverUnwatched'
<1>1. \A u \in Threads : u # t => th'[u] = th[u]
  BY DEF OnlyMoves
<1>2. SlotsFit'
  BY Zenon, MoveKeepsSlots
<1>3. NeverUnwatched'
  <2>1. CASE active' = NoSnapshot
    BY Zenon, <2>1 DEF NeverUnwatched
  <2>2. CASE active' = active /\ active # NoSnapshot
    <3>1. PICK u \in Threads \ {Boot} : Watches(th[u]) /\ th[u].id = active.id
      BY Zenon, <2>2 DEF NeverUnwatched
    <3>2. Watches(th'[u]) /\ th'[u].id = active'.id
      BY Zenon, <1>1, <2>2, <3>1
    <3> QED
      BY Zenon, <3>2 DEF NeverUnwatched
  <2> QED
    BY Zenon, <2>1, <2>2
<1> QED
  BY Zenon, <1>2, <1>3

\* What a step other than a freeze does to its thread.
Settled(t) ==
  /\ OnlyMoves(t)
  /\ th[t].pc \notin {"rest", "freeze"} /\ th'[t].pc # "freeze"
  /\ UNCHANGED <<made, epoch, second>>
  /\ th'[t].pc \in StartPCs => th[t].pc \in StartPCs
  /\ Pending(th'[t]) => Pending(th[t]) /\ th'[t].n = th[t].n
  /\ \/ active' = NoSnapshot
     \/ /\ active' = active
        /\ Watches(th[t]) /\ active # NoSnapshot /\ th[t].id = active.id
             => Watches(th'[t]) /\ th'[t].id = th[t].id

\* Such a step keeps the invariant.
LEMMA SettledKeeps ==
  ASSUME WatchInv, NEW t \in Threads, Settled(t), TypeOK'
  PROVE  WatchInv'
<1>0. SlotsFit /\ NeverUnwatched /\ CountsFit /\ made \in 0 .. MaxRequests
  BY Zenon DEF WatchInv, TypeOK
<1>1. SlotsFit' /\ NeverUnwatched'
  BY Zenon, <1>0, MoveKeepsWatch DEF Settled
<1>2. Freezing' = Freezing
  BY Zenon, SameFreeze DEF Settled
<1>3. CountsFit'
  BY Zenon, <1>0, <1>2 DEF CountsFit, Settled
<1> QED
  BY Zenon, <1>1, <1>3 DEF WatchInv

\* A step away from the freezing half of a request, by a thread that is not a
\* watchdog on its post.
LEMMA AwaySettles ==
  ASSUME NEW t \in Threads, OnlyMoves(t),
         th[t].pc \notin {"rest", "freeze"}, ~Watches(th[t]),
         th'[t].pc \notin StartPCs, UNCHANGED <<made, epoch, second, active>>
  PROVE  Settled(t)
  BY Zenon DEF Settled, StartPCs, Pending

\* Freezing: the flag, then the hint.
LEMMA FlagOnStep ==
  ASSUME TypeOK, NEW t \in Threads, FlagOn(t)
  PROVE  TypeOK' /\ Settled(t) /\ GoesOn(t) /\ th'[t].pc \in {"rest", "hint_on"}
<1>1. th[t].pc = "flag_on" /\ UNCHANGED <<made, epoch, second, active>>
  BY DEF FlagOn, At, kernelVars, boundVars
<1>2. OnlyMoves(t) /\ (th'[t] = Rest \/ (Continues(t) /\ th'[t].pc = "hint_on"))
  <2>1. Finish(t) \/ Goto(t, "hint_on")
    BY Zenon DEF FlagOn
  <2>2. CASE Finish(t)
    BY Zenon, <2>2, FinishMoves
  <2>3. CASE Goto(t, "hint_on")
    <3>1. "hint_on" \in PCs
      BY DEF PCs
    <3> QED
      BY Zenon, <2>3, <3>1, GotoMoves
  <2> QED
    BY Zenon, <2>1, <2>2, <2>3
<1>3. TypeOK'
  BY <1>2 DEF TypeOK, OnlyMoves, FlagOn, kernelVars, worldVars, boundVars
<1>4. Settled(t)
  BY Zenon, <1>1, <1>2, RestHolds DEF Settled, StartPCs, Pending, Watches, Continues
<1>5. GoesOn(t) /\ th'[t].pc \in {"rest", "hint_on"}
  BY Zenon, <1>2, RestHolds DEF GoesOn
<1> QED
  BY Zenon, <1>3, <1>4, <1>5

\* After the hint prepare stores the snapshot and cutover arms its watchdog.
LEMMA HintOnStep ==
  ASSUME TypeOK, NEW t \in Threads, HintOn(t)
  PROVE  TypeOK' /\ Settled(t) /\ GoesOn(t) /\ th'[t].pc \in {"rest", "store", "arm"}
         /\ (th'[t].pc = "store" => th'[t].op = "prepare")
         /\ (th'[t].pc = "arm" => th'[t].op = "enter")
<1>1. th[t].pc = "hint_on" /\ UNCHANGED <<made, epoch, second, active>>
  BY DEF HintOn, At, kernelVars, boundVars
<1>2. OnlyMoves(t) /\ (\/ th'[t] = Rest
                       \/ Continues(t) /\ th[t].op = "prepare" /\ th'[t].pc = "store"
                       \/ Continues(t) /\ th[t].op = "enter" /\ th'[t].pc = "arm")
  <2>1. \/ Finish(t)
        \/ Goto(t, "store") /\ th[t].op = "prepare"
        \/ Goto(t, "arm") /\ th[t].op = "enter"
    BY DEF HintOn
  <2>2. "store" \in PCs /\ "arm" \in PCs
    BY DEF PCs
  <2> QED
    BY Zenon, <2>1, <2>2, FinishMoves, GotoMoves
<1>3. TypeOK'
  BY <1>2 DEF TypeOK, OnlyMoves, HintOn, kernelVars, worldVars, boundVars
<1>4. Settled(t)
  BY Zenon, <1>1, <1>2, RestHolds DEF Settled, StartPCs, Pending, Watches, Continues
<1>5. GoesOn(t) /\ th'[t].pc \in {"rest", "store", "arm"}
      /\ (th'[t].pc = "store" => th'[t].op = "prepare")
         /\ (th'[t].pc = "arm" => th'[t].op = "enter")
  BY Zenon, <1>2, RestHolds DEF GoesOn, Continues
<1> QED
  BY Zenon, <1>3, <1>4, <1>5

\* The response has been built: the hint is what the freeze reported.
LEMMA FinalHintStep ==
  ASSUME TypeOK, NEW t \in Threads, FinalHint(t)
  PROVE  TypeOK' /\ Settled(t) /\ GoesOn(t) /\ th'[t].pc \in {"rest"}
<1>1. th[t].pc = "final_hint" /\ UNCHANGED <<made, epoch, second, active>>
  BY DEF FinalHint, At, kernelVars, boundVars
<1>2. OnlyMoves(t) /\ GoesOn(t) /\ th'[t].pc \in {"rest"}
  <2>1. Finish(t)
    BY DEF FinalHint
  <2> QED
    BY Zenon, <2>1, FinishMoves, GotoMoves, RestHolds DEF PCs, GoesOn
<1>3. TypeOK'
  <2>1. hint' \in BOOLEAN
    BY Zenon, FieldTypes DEF FinalHint
  <2> QED
    BY Zenon, <1>2, <2>1 DEF TypeOK, OnlyMoves, FinalHint, kernelVars, flagVars, worldVars, boundVars
<1>4. Settled(t)
  BY Zenon, <1>1, <1>2, AwaySettles DEF StartPCs, Watches
<1> QED
  BY Zenon, <1>2, <1>3, <1>4

\* Thawing ends in the flag, or in what follows an error.
LEMMA ThawStep ==
  ASSUME TypeOK, NEW t \in Threads, Thaw(t)
  PROVE  TypeOK' /\ Settled(t) /\ GoesOn(t) /\ th'[t].pc \in {"rest", "flag_off", "resume", "clear"}
<1>1. th[t].pc = "thaw" /\ UNCHANGED <<made, epoch, second, active>>
  BY DEF Thaw, At, kernelVars, boundVars
<1>2. OnlyMoves(t) /\ GoesOn(t) /\ th'[t].pc \in {"rest", "flag_off", "resume", "clear"}
  <2>1. Finish(t) \/ Goto(t, "flag_off") \/ Goto(t, "resume") \/ Goto(t, "clear")
    BY Zenon DEF Thaw, ThawFailed
  <2> QED
    BY Zenon, <2>1, FinishMoves, GotoMoves, RestHolds DEF PCs, GoesOn
<1>3. TypeOK'
  <2>1. frozen' \in BOOLEAN
    BY Zenon DEF Thaw, TypeOK
  <2>2. mishaps' \in 0 .. MaxMishaps
    BY Zenon, MishapType DEF Thaw
  <2> QED
    BY Zenon, <1>2, <2>1, <2>2 DEF TypeOK, OnlyMoves, Thaw, kernelVars, flagVars, worldVars, boundVars
<1>4. Settled(t)
  BY Zenon, <1>1, <1>2, AwaySettles DEF StartPCs, Watches
<1> QED
  BY Zenon, <1>2, <1>3, <1>4

\* After the thaw: the flag, then the hint.
LEMMA FlagOffStep ==
  ASSUME TypeOK, NEW t \in Threads, FlagOff(t)
  PROVE  TypeOK' /\ Settled(t) /\ GoesOn(t) /\ th'[t].pc \in {"rest", "hint_off"}
<1>1. th[t].pc = "flag_off" /\ UNCHANGED <<made, epoch, second, active>>
  BY DEF FlagOff, At, kernelVars, boundVars
<1>2. OnlyMoves(t) /\ GoesOn(t) /\ th'[t].pc \in {"rest", "hint_off"}
  <2>1. Finish(t) \/ Goto(t, "hint_off")
    BY DEF FlagOff
  <2> QED
    BY Zenon, <2>1, FinishMoves, GotoMoves, RestHolds DEF PCs, GoesOn
<1>3. TypeOK'
  BY Zenon, <1>2 DEF TypeOK, OnlyMoves, FlagOff, kernelVars, flagVars, worldVars, boundVars
<1>4. Settled(t)
  BY Zenon, <1>1, <1>2, AwaySettles DEF StartPCs, Watches
<1> QED
  BY Zenon, <1>2, <1>3, <1>4

\* After the hint each caller goes its way.
LEMMA HintOffStep ==
  ASSUME TypeOK, NEW t \in Threads, HintOff(t)
  PROVE  TypeOK' /\ Settled(t) /\ GoesOn(t) /\ th'[t].pc \in {"rest", "resume", "restart", "clear"}
<1>1. th[t].pc = "hint_off" /\ UNCHANGED <<made, epoch, second, active>>
  BY DEF HintOff, At, kernelVars, boundVars
<1>2. OnlyMoves(t) /\ GoesOn(t) /\ th'[t].pc \in {"rest", "resume", "restart", "clear"}
  <2>1. Finish(t) \/ Goto(t, "resume") \/ Goto(t, "restart") \/ Goto(t, "clear")
    BY DEF HintOff
  <2> QED
    BY Zenon, <2>1, FinishMoves, GotoMoves, RestHolds DEF PCs, GoesOn
<1>3. TypeOK'
  BY Zenon, <1>2 DEF TypeOK, OnlyMoves, HintOff, kernelVars, flagVars, worldVars, boundVars
<1>4. Settled(t)
  BY Zenon, <1>1, <1>2, AwaySettles DEF StartPCs, Watches
<1> QED
  BY Zenon, <1>2, <1>3, <1>4

\* Resuming the plugins ends complete and the watchdog.
LEMMA ResumeStep ==
  ASSUME TypeOK, NEW t \in Threads, Resume(t)
  PROVE  TypeOK' /\ Settled(t) /\ GoesOn(t) /\ th'[t].pc \in {"rest"}
<1>1. th[t].pc = "resume" /\ UNCHANGED <<made, epoch, second, active>>
  BY DEF Resume, At, kernelVars, boundVars
<1>2. OnlyMoves(t) /\ GoesOn(t) /\ th'[t].pc \in {"rest"}
  <2>1. Finish(t)
    BY DEF Resume
  <2> QED
    BY Zenon, <2>1, FinishMoves, GotoMoves, RestHolds DEF PCs, GoesOn
<1>3. TypeOK'
  <2>1. quiesced' \in BOOLEAN /\ hint' \in BOOLEAN
    BY Zenon DEF Resume, TypeOK
  <2>2. mishaps' \in 0 .. MaxMishaps
    BY Zenon, MishapType DEF Resume
  <2> QED
    BY Zenon, <1>2, <2>1, <2>2 DEF TypeOK, OnlyMoves, Resume, kernelVars, flagVars, worldVars, boundVars
<1>4. Settled(t)
  BY Zenon, <1>1, <1>2, AwaySettles DEF StartPCs, Watches
<1> QED
  BY Zenon, <1>2, <1>3, <1>4

\* Writing the marker truncates it first.
LEMMA TruncateStep ==
  ASSUME TypeOK, NEW t \in Threads, Truncate(t)
  PROVE  TypeOK' /\ Settled(t) /\ GoesOn(t) /\ th'[t].pc \in {"write"}
<1>1. th[t].pc = "truncate" /\ UNCHANGED <<made, epoch, second, active>>
  BY DEF Truncate, At, kernelVars, boundVars
<1>2. OnlyMoves(t) /\ GoesOn(t) /\ th'[t].pc \in {"write"}
  <2>1. Goto(t, "write")
    BY DEF Truncate
  <2> QED
    BY Zenon, <2>1, FinishMoves, GotoMoves, RestHolds DEF PCs, GoesOn
<1>3. TypeOK'
  BY <1>2 DEF TypeOK, OnlyMoves, Truncate, kernelVars, flagVars, worldVars, boundVars
<1>4. Settled(t)
  BY Zenon, <1>1, <1>2, AwaySettles DEF StartPCs, Watches
<1> QED
  BY Zenon, <1>2, <1>3, <1>4

\* The marker holds what the thread has.
LEMMA WriteStep ==
  ASSUME TypeOK, NEW t \in Threads, Write(t)
  PROVE  TypeOK' /\ Settled(t) /\ GoesOn(t) /\ th'[t].pc \in {"rest"}
<1>1. th[t].pc = "write" /\ UNCHANGED <<made, epoch, second, active>>
  BY DEF Write, At, kernelVars, boundVars
<1>2. OnlyMoves(t) /\ GoesOn(t) /\ th'[t].pc \in {"rest"}
  <2>1. Finish(t)
    BY DEF Write
  <2> QED
    BY Zenon, <2>1, FinishMoves, GotoMoves, RestHolds DEF PCs, GoesOn
<1>3. TypeOK'
  <2>1. marker' \in Markers
    BY FieldTypes DEF Write, Markers
  <2> QED
    BY Zenon, <1>2, <2>1 DEF TypeOK, OnlyMoves, Write, kernelVars, flagVars, worldVars, boundVars
<1>4. Settled(t)
  BY Zenon, <1>1, <1>2, AwaySettles DEF StartPCs, Watches
<1> QED
  BY Zenon, <1>2, <1>3, <1>4

\* The cutover watchdog is none of a snapshot.
LEMMA CutoverWatchdogStep ==
  ASSUME TypeOK, NEW t \in Threads, CutoverWatchdog(t)
  PROVE  TypeOK' /\ Settled(t) /\ GoesOn(t) /\ th'[t].pc \in {"rest", "thaw"}
<1>1. th[t].pc = "armed" /\ UNCHANGED <<made, epoch, second, active>> /\ th[t].op = "cut_dog"
  BY DEF CutoverWatchdog, At, kernelVars, boundVars
<1>2. OnlyMoves(t) /\ GoesOn(t) /\ th'[t].pc \in {"rest", "thaw"}
  <2>1. Finish(t) \/ Goto(t, "thaw")
    BY DEF CutoverWatchdog
  <2> QED
    BY Zenon, <2>1, FinishMoves, GotoMoves, RestHolds DEF PCs, GoesOn
<1>3. TypeOK'
  BY <1>2 DEF TypeOK, OnlyMoves, CutoverWatchdog, kernelVars, flagVars, worldVars, boundVars
<1>4. Settled(t)
  BY Zenon, <1>1, <1>2, AwaySettles DEF StartPCs, Watches
<1> QED
  BY Zenon, <1>2, <1>3, <1>4

\* exit_cutover restarts what the marker listed.
LEMMA RestartServicesStep ==
  ASSUME TypeOK, NEW t \in Threads, RestartServices(t)
  PROVE  TypeOK' /\ Settled(t) /\ GoesOn(t) /\ th'[t].pc \in {"unmark"}
<1>1. th[t].pc = "restart" /\ UNCHANGED <<made, epoch, second, active>>
  BY DEF RestartServices, At, kernelVars, boundVars
<1>2. OnlyMoves(t) /\ GoesOn(t) /\ th'[t].pc \in {"unmark"}
  <2>1. Goto(t, "unmark")
    BY DEF RestartServices
  <2> QED
    BY Zenon, <2>1, FinishMoves, GotoMoves, RestHolds DEF PCs, GoesOn
<1>3. TypeOK'
  <2>1. stopped' \in SUBSET Services
    BY Zenon DEF RestartServices, TypeOK
  <2>2. mishaps' \in 0 .. MaxMishaps
    BY Zenon, MishapType DEF RestartServices
  <2> QED
    BY Zenon, <1>2, <2>1, <2>2 DEF TypeOK, OnlyMoves, RestartServices, kernelVars, flagVars, worldVars, boundVars
<1>4. Settled(t)
  BY Zenon, <1>1, <1>2, AwaySettles DEF StartPCs, Watches
<1> QED
  BY Zenon, <1>2, <1>3, <1>4

\* exit_cutover removes the marker.
LEMMA UnmarkStep ==
  ASSUME TypeOK, NEW t \in Threads, Unmark(t)
  PROVE  TypeOK' /\ Settled(t) /\ GoesOn(t) /\ th'[t].pc \in {"rest"}
<1>1. th[t].pc = "unmark" /\ UNCHANGED <<made, epoch, second, active>>
  BY DEF Unmark, At, kernelVars, boundVars
<1>2. OnlyMoves(t) /\ GoesOn(t) /\ th'[t].pc \in {"rest"}
  <2>1. Finish(t)
    BY DEF Unmark
  <2> QED
    BY Zenon, <2>1, FinishMoves, GotoMoves, RestHolds DEF PCs, GoesOn
<1>3. TypeOK'
  BY <1>2 DEF TypeOK, OnlyMoves, Unmark, kernelVars, flagVars, worldVars, boundVars
<1>4. Settled(t)
  BY Zenon, <1>1, <1>2, AwaySettles DEF StartPCs, Watches
<1> QED
  BY Zenon, <1>2, <1>3, <1>4

\* The snapshot watchdog stays on its post unless its snapshot is gone.
LEMMA WatchdogCheckStep ==
  ASSUME TypeOK, NEW t \in Threads, WatchdogCheck(t)
  PROVE  TypeOK' /\ Settled(t) /\ GoesOn(t) /\ th'[t].pc \in {"rest", "take"}
<1>1. th[t].pc = "armed" /\ UNCHANGED <<made, epoch, second, active>> /\ th[t].op = "snap_dog"
  BY DEF WatchdogCheck, At, kernelVars, boundVars
<1>2. "take" \in PCs
  BY DEF PCs
<1>3. \/ Continues(t) /\ OnlyMoves(t) /\ th'[t].pc = "take"
      \/ OnlyMoves(t) /\ th'[t] = Rest /\ (active # NoSnapshot => th[t].id # active.id)
  BY Zenon, <1>2, FinishMoves, GotoMoves DEF WatchdogCheck
<1>4. TypeOK'
  BY <1>3 DEF TypeOK, OnlyMoves, WatchdogCheck, kernelVars, flagVars, worldVars, boundVars
<1>5. Settled(t)
  BY Zenon, <1>1, <1>3, RestHolds DEF Settled, StartPCs, Pending, Watches, Continues
<1>6. GoesOn(t) /\ th'[t].pc \in {"rest", "take"}
  BY Zenon, <1>3, RestHolds DEF GoesOn
<1> QED
  BY Zenon, <1>4, <1>5, <1>6

\* Taking ACTIVE leaves a thread that thaws or resumes.
LEMMA TakeMoves ==
  ASSUME TypeOK, NEW t \in Threads, NEW op \in {"complete", "snap_dog"},
         TakeActive(t, op)
  PROVE  /\ OnlyMoves(t) /\ active # NoSnapshot /\ active' = NoSnapshot
         /\ th'[t].pc = (IF active.frozen THEN "thaw" ELSE "resume")
         /\ th'[t].op = op
<1> DEFINE r == [Rest EXCEPT !.pc = IF active.frozen THEN "thaw" ELSE "resume",
                             !.op = op, !.froze = active.frozen,
                             !.quiet = active.quiet]
<1>1. active \in Snapshots
  BY Zenon DEF TypeOK, TakeActive
<1>2. active.frozen \in BOOLEAN /\ active.quiet \in BOOLEAN
  BY <1>1 DEF Snapshots
<1>3. /\ r \in ThreadStates
      /\ r.pc = (IF active.frozen THEN "thaw" ELSE "resume") /\ r.op = op
  <2>1. 0 \in 0 .. MaxRequests
    BY FreezeAssumption
  <2> QED
    BY Zenon, <1>2, <2>1 DEF Rest, ThreadStates, PCs, Operations
<1>4. th' = [th EXCEPT ![t] = r] /\ active # NoSnapshot /\ active' = NoSnapshot
  BY Zenon DEF TakeActive
<1> HIDE DEF r
<1> QED
  BY Zenon, <1>3, <1>4, SetMoves

\* The watchdog that takes the active snapshot leaves nothing to watch.
LEMMA WatchdogTakeStep ==
  ASSUME TypeOK, NEW t \in Threads, WatchdogTake(t)
  PROVE  TypeOK' /\ Settled(t)
<1>1. th[t].pc = "take" /\ UNCHANGED <<made, epoch, second>>
  BY DEF WatchdogTake, At, kernelVars, boundVars
<1>2. OnlyMoves(t) /\ th'[t].pc \in {"rest", "thaw", "resume"} /\ active' = NoSnapshot
  BY Zenon, FinishMoves, TakeMoves, RestHolds DEF WatchdogTake
<1>3. TypeOK'
  BY <1>2 DEF TypeOK, OnlyMoves, WatchdogTake, kernelVars, flagVars, worldVars, boundVars
<1>4. Settled(t)
  BY Zenon, <1>1, <1>2 DEF Settled, StartPCs, Pending
<1> QED
  BY <1>3, <1>4

\* clear_marker_frozen keeps the list of the marker.
LEMMA ClearStep ==
  ASSUME TypeOK, NEW t \in Threads, Clear(t)
  PROVE  TypeOK' /\ Settled(t) /\ (marker = NoMarker => th'[t] = Rest)
<1> DEFINE r == [th[t] EXCEPT !.pc = "truncate", !.list = marker.list]
<1>1. th[t].pc = "clear" /\ UNCHANGED <<made, epoch, second, active>>
  BY DEF Clear, At, kernelVars, boundVars
<1>2. /\ OnlyMoves(t) /\ th'[t].pc \in {"rest", "truncate"}
      /\ marker = NoMarker => th'[t] = Rest
  <2>1. CASE marker = NoMarker
    BY Zenon, <2>1, FinishMoves, RestHolds DEF Clear
  <2>2. CASE marker # NoMarker
    <3>1. marker \in Markers
      BY Zenon, <2>2 DEF TypeOK
    <3>2. marker.list \in SUBSET Services
      BY <3>1 DEF Markers
    <3>3. th[t] \in ThreadStates
      BY Zenon, FieldTypes
    <3>4. r \in ThreadStates /\ r.pc = "truncate"
      BY Zenon, <3>2, <3>3 DEF ThreadStates, PCs
    <3>5. th' = [th EXCEPT ![t] = r]
      BY Zenon, <2>2 DEF Clear
    <3> HIDE DEF r
    <3> QED
      BY Zenon, <2>2, <3>4, <3>5, SetMoves
  <2> QED
    BY Zenon, <2>1, <2>2
<1>3. TypeOK'
  BY <1>2 DEF TypeOK, OnlyMoves, Clear, kernelVars, flagVars, worldVars, boundVars
<1>4. Settled(t)
  BY Zenon, <1>1, <1>2, AwaySettles DEF StartPCs, Watches
<1> QED
  BY Zenon, <1>2, <1>3, <1>4

\* The recovery at start thaws when the marker says so.
LEMMA RecoverStep ==
  ASSUME TypeOK, NEW t \in Threads, Recover(t)
  PROVE  TypeOK' /\ Settled(t) /\ (marker = NoMarker => th'[t] = Rest)
<1> DEFINE r == [th[t] EXCEPT !.pc = "thaw", !.op = "recover"]
<1>1. th[t].pc = "recover" /\ UNCHANGED <<made, epoch, second, active>>
  BY DEF Recover, At, kernelVars, boundVars
<1>2. /\ OnlyMoves(t) /\ th'[t].pc \in {"rest", "thaw"}
      /\ marker = NoMarker => th'[t] = Rest
  <2>1. CASE marker # NoMarker /\ marker.frozen
    <3>1. th[t] \in ThreadStates
      BY Zenon, FieldTypes
    <3>2. r \in ThreadStates /\ r.pc = "thaw"
      BY Zenon, <3>1 DEF ThreadStates, PCs
    <3>3. th' = [th EXCEPT ![t] = r]
      BY Zenon, <2>1 DEF Recover
    <3> HIDE DEF r
    <3> QED
      BY Zenon, <2>1, <3>2, <3>3, SetMoves
  <2>2. CASE ~(marker # NoMarker /\ marker.frozen)
    BY Zenon, <2>2, FinishMoves, RestHolds DEF Recover
  <2> QED
    BY Zenon, <2>1, <2>2
<1>3. TypeOK'
  BY <1>2 DEF TypeOK, OnlyMoves, Recover, kernelVars, flagVars, worldVars, boundVars
<1>4. Settled(t)
  BY Zenon, <1>1, <1>2, AwaySettles DEF StartPCs, Watches
<1> QED
  BY Zenon, <1>2, <1>3, <1>4

\* The freeze itself.  A request for nothing but the freeze ends where it
\* fails; prepare goes on and stores a snapshot without a freeze.
LEMMA FreezeMoves ==
  ASSUME TypeOK, NEW t \in Threads, Freeze(t), epoch < MaxRequests
  PROVE  /\ OnlyMoves(t) /\ th[t].pc = "freeze"
         /\ \/ th'[t] = Rest
            \/ Continues(t) /\ th[t].op = "prepare" /\ th'[t].pc = "store"
            \/ /\ th'[t].pc = "flag_on" /\ th'[t].op = th[t].op /\ th'[t].n = th[t].n
               /\ frozen' /\ ~frozen /\ th'[t].epoch = epoch' /\ th'[t].froze
         /\ \/ UNCHANGED <<frozen, epoch>>
            \/ ~frozen /\ frozen' /\ epoch' = epoch + 1
         /\ frozen' \in BOOLEAN
         /\ UNCHANGED <<active, made, second, marker>>
<1> DEFINE r == [th[t] EXCEPT !.pc = "flag_on", !.froze = TRUE, !.epoch = epoch']
<1>1. th[t].pc = "freeze" /\ UNCHANGED <<active, made, second, marker>>
  BY Zenon DEF Freeze, At
<1>2. \/ UNCHANGED <<frozen, epoch>>
      \/ ~frozen /\ frozen' /\ epoch' = epoch + 1
  BY Zenon DEF Freeze, kernelVars
<1>3. frozen' \in BOOLEAN
  BY Zenon DEF Freeze, kernelVars, TypeOK
<1>4. CASE FreezeFailed(t)
  <2>1. Finish(t) \/ (Goto(t, "store") /\ th[t].op = "prepare")
    BY <1>4 DEF FreezeFailed
  <2>2. "store" \in PCs
    BY DEF PCs
  <2>3. OnlyMoves(t)
    BY Zenon, <2>1, <2>2, FinishMoves, GotoMoves
  <2>4. \/ th'[t] = Rest
        \/ Continues(t) /\ th[t].op = "prepare" /\ th'[t].pc = "store"
    BY Zenon, <2>1, <2>2, FinishMoves, GotoMoves
  <2> QED
    BY Zenon, <1>1, <1>2, <1>3, <2>3, <2>4
<1>5. CASE /\ ~frozen /\ frozen' = TRUE /\ epoch' = epoch + 1
           /\ th' = [th EXCEPT ![t].pc = "flag_on", ![t].froze = TRUE,
                               ![t].epoch = epoch']
  <2>1. epoch' \in 0 .. MaxRequests
    BY <1>5, FreezeAssumption DEF TypeOK
  <2>2. th[t] \in ThreadStates
    BY Zenon, FieldTypes
  <2>3. /\ r \in ThreadStates /\ r.pc = "flag_on" /\ r.op = th[t].op /\ r.n = th[t].n
        /\ r.epoch = epoch' /\ r.froze
    BY Zenon, <2>1, <2>2 DEF ThreadStates, PCs
  <2>4. th' = [th EXCEPT ![t] = r]
    <3>1. th \in [Threads -> ThreadStates]
      BY DEF TypeOK
    <3> QED
      BY Zenon, <1>5, <3>1
  <2> HIDE DEF r
  <2>5. OnlyMoves(t) /\ th'[t] = r
    BY Zenon, <2>3, <2>4, SetMoves
  <2> QED
    BY Zenon, <1>1, <1>2, <1>3, <1>5, <2>3, <2>5
<1> QED
  BY Zenon, <1>4, <1>5 DEF Freeze

\* Only a channel freezes, and fewer freezes than requests have been made.
LEMMA FreezeRoom ==
  ASSUME WatchInv, NEW t \in Threads, th[t].pc = "freeze"
  PROVE  t \in Channels /\ epoch < MaxRequests
<1>1. t \in Channels
  BY Zenon DEF WatchInv, SlotsFit, StartPCs
<1>2. Freezing # {}
  BY Zenon, <1>1 DEF Freezing
<1>3. Cardinality(Freezing) # 0
  BY Zenon, <1>2, FreezingFinite, FS_EmptySet
<1>4. epoch \in Nat /\ made <= MaxRequests /\ made \in Nat
  BY FreezeAssumption DEF WatchInv, TypeOK
<1>5. epoch + Cardinality(Freezing) <= made
  BY Zenon DEF WatchInv, CountsFit
<1> QED
  BY <1>1, <1>3, <1>4, <1>5, FreezingFinite, FreezeAssumption

\* A freeze keeps the invariant.
LEMMA FreezeStep ==
  ASSUME WatchInv, NEW t \in Threads, Freeze(t)
  PROVE  WatchInv'
<1>0. TypeOK /\ SlotsFit /\ NeverUnwatched /\ CountsFit /\ made \in 0 .. MaxRequests
  BY Zenon DEF WatchInv, TypeOK
<1>1. th[t].pc = "freeze"
  BY Zenon DEF Freeze, At
<1>2. t \in Channels /\ epoch < MaxRequests
  BY Zenon, <1>1, FreezeRoom
<1>3. /\ OnlyMoves(t)
      /\ \/ th'[t] = Rest
         \/ Continues(t) /\ th[t].op = "prepare" /\ th'[t].pc = "store"
         \/ th'[t].pc = "flag_on" /\ th'[t].op = th[t].op /\ th'[t].n = th[t].n
      /\ epoch' \in {epoch, epoch + 1} /\ frozen' \in BOOLEAN
      /\ UNCHANGED <<active, made, second>>
  BY Zenon, <1>0, <1>2, FreezeMoves
<1>4. TypeOK'
  <2>1. epoch' \in 0 .. MaxRequests
    BY <1>0, <1>2, <1>3, FreezeAssumption DEF TypeOK
  <2>2. mishaps' \in 0 .. MaxMishaps
    BY Zenon, <1>0, MishapType DEF Freeze
  <2> QED
    BY Zenon, <1>0, <1>3, <2>1, <2>2 DEF TypeOK, OnlyMoves, Freeze, flagVars, worldVars
<1>5. Pending(th'[t]) => Pending(th[t]) /\ th'[t].n = th[t].n
  BY Zenon, <1>1, <1>3, RestHolds DEF Pending, Continues
<1>6. SlotsFit' /\ NeverUnwatched'
  <2>1. th[t].pc # "rest" /\ ~Watches(th[t]) /\ th[t].pc \in StartPCs
    BY Zenon, <1>1 DEF Watches, StartPCs
  <2> QED
    BY Zenon, <1>0, <1>3, <1>5, <2>1, MoveKeepsWatch
<1>7. CountsFit'
  <2>1. Cardinality(Freezing') + 1 = Cardinality(Freezing)
    BY Zenon, <1>1, <1>2, <1>3, RestHolds, OneFewerFreezes
  <2>2. epoch \in Nat /\ made \in Nat /\ second \in Nat
    BY <1>0 DEF TypeOK
  <2> QED
    BY <1>0, <1>3, <2>1, <2>2, FreezingFinite, FreezingFiniteNext DEF CountsFit
<1> QED
  BY Zenon, <1>4, <1>6, <1>7 DEF WatchInv

\* Two threads move where a request starts its watchdog, w.
LEMMA SpawnMoves ==
  ASSUME TypeOK, SlotsFit, NEW t \in Threads, th[t].pc \in {"spawn", "arm"},
         NEW x \in PCs, NEW w \in ThreadStates,
         th' = [th EXCEPT ![t].pc = x, ![th[t].n] = w]
  PROVE  /\ t \in Channels /\ th[t].n \in Requests /\ th[t].n \in 1 .. made
         /\ th' \in [Threads -> ThreadStates]
         /\ th'[t].pc = x /\ th'[t].op = th[t].op /\ th'[th[t].n] = w
         /\ \A u \in Threads : u # t /\ u # th[t].n => th'[u] = th[u]
<1>0. th \in [Threads -> ThreadStates] /\ th[t] \in ThreadStates
  BY DEF TypeOK
<1>1. t \in Channels
  BY Zenon DEF SlotsFit, StartPCs
<1>2. th[t].n \in 1 .. made
  BY Zenon, <1>1 DEF SlotsFit, Pending
<1>3. th[t].n \in Requests
  BY <1>2, FreezeAssumption DEF TypeOK, Requests
<1>4. th[t].n \in Threads /\ th[t].n # t
  BY Zenon, <1>1, <1>3, ThreadsApart
<1>5. [th[t] EXCEPT !.pc = x] \in ThreadStates
  BY <1>0 DEF ThreadStates
<1>6. th' = [[th EXCEPT ![t] = [th[t] EXCEPT !.pc = x]] EXCEPT ![th[t].n] = w]
  BY <1>0
<1>7. /\ th' \in [Threads -> ThreadStates] /\ th'[t] = [th[t] EXCEPT !.pc = x]
      /\ th'[th[t].n] = w /\ \A u \in Threads : u # t /\ u # th[t].n => th'[u] = th[u]
  BY <1>0, <1>4, <1>5, <1>6
<1>8. th'[t].pc = x /\ th'[t].op = th[t].op
  BY <1>0, <1>7 DEF ThreadStates
<1> QED
  BY Zenon, <1>1, <1>2, <1>3, <1>7, <1>8

\* Starting a watchdog keeps the slots of all other requests, and the counts.
LEMMA SpawnKeepsSlots ==
  ASSUME TypeOK, SlotsFit, CountsFit, NEW t \in Threads, th[t].pc \in {"spawn", "arm"},
         NEW x \in {"final_hint", "truncate"}, NEW w \in ThreadStates, w.pc = "armed",
         th' = [th EXCEPT ![t].pc = x, ![th[t].n] = w],
         UNCHANGED <<made, epoch, second>>
  PROVE  SlotsFit' /\ CountsFit'
<1>0. x \in PCs
  BY DEF PCs
<1>1. /\ t \in Channels /\ th[t].n \in Requests /\ th[t].n \in 1 .. made
      /\ th'[t].pc = x /\ th'[th[t].n] = w
      /\ \A u \in Threads : u # t /\ u # th[t].n => th'[u] = th[u]
  BY Zenon, <1>0, SpawnMoves
<1>2. ~Pending(th'[t]) /\ Pending(th[t])
  BY Zenon, <1>1 DEF Pending
<1>3. \A u \in Threads : th'[u].pc \in StartPCs => u \in Channels
  BY Zenon, <1>1 DEF SlotsFit, StartPCs
<1>4. ASSUME NEW n \in Requests, n > made PROVE th'[n] = Rest
  <2>1. n # th[t].n
    BY <1>1, <1>4 DEF TypeOK
  <2> QED
    BY Zenon, <1>1, <1>4, <2>1, ThreadsApart DEF SlotsFit
<1>5. ASSUME NEW c \in Channels, Pending(th'[c])
      PROVE  c # t /\ th'[c] = th[c]
  BY Zenon, <1>1, <1>2, <1>5, ThreadsApart
<1>6. ASSUME NEW c \in Channels, Pending(th'[c])
      PROVE  th'[c].n \in 1 .. made /\ th'[th'[c].n] = Rest
  <2>1. th'[c].n \in 1 .. made /\ th[th'[c].n] = Rest /\ th'[c].n # th[t].n
    BY Zenon, <1>1, <1>2, <1>5, <1>6 DEF SlotsFit
  <2>2. th'[c].n \in Requests
    BY <2>1, FreezeAssumption DEF Requests, TypeOK
  <2> QED
    BY Zenon, <1>1, <2>1, <2>2, ThreadsApart
<1>7. \A c, d \in Channels :
        Pending(th'[c]) /\ Pending(th'[d]) /\ c # d => th'[c].n # th'[d].n
  BY ZenonT(40), <1>5 DEF SlotsFit
<1>8. SlotsFit'
  BY Zenon, <1>3, <1>4, <1>6, <1>7 DEF SlotsFit
<1>9. Freezing' = Freezing
  <2>1. \A c \in Channels : th'[c].pc = "freeze" <=> th[c].pc = "freeze"
    BY Zenon, <1>1, ThreadsApart
  <2> QED
    BY Zenon, <2>1 DEF Freezing
<1> QED
  BY Zenon, <1>8, <1>9 DEF CountsFit

\* prepare stores its snapshot, and its thread will start the watchdog.
LEMMA StoreStep ==
  ASSUME WatchInv, NEW t \in Threads, Store(t)
  PROVE  WatchInv' /\ OnlyMoves(t) /\ Continues(t) /\ th'[t].pc = "spawn"
<1>0. TypeOK /\ SlotsFit /\ CountsFit
  BY Zenon DEF WatchInv
<1>1. /\ th[t].id \in 0 .. MaxRequests /\ th[t].epoch \in 0 .. MaxRequests
      /\ th[t].froze \in BOOLEAN /\ th[t].quiet \in BOOLEAN
  BY Zenon, <1>0, FieldTypes
<1>2. th[t].pc = "store" /\ UNCHANGED <<made, epoch, second>>
  BY Zenon DEF Store, At, kernelVars, boundVars
<1>3. OnlyMoves(t) /\ Continues(t) /\ th'[t].pc = "spawn"
  <2>1. "spawn" \in PCs
    BY DEF PCs
  <2> QED
    BY Zenon, <1>0, <2>1, GotoMoves DEF Store
<1>4. active' \in Snapshots /\ active'.id = th[t].id
  <2>1. active' = [id |-> th[t].id, frozen |-> th[t].froze,
                   quiet |-> th[t].quiet, epoch |-> th[t].epoch]
    BY Zenon DEF Store
  <2> QED
    BY <1>1, <2>1 DEF Snapshots
<1>5. TypeOK'
  BY Zenon, <1>0, <1>3, <1>4
     DEF TypeOK, OnlyMoves, Store, kernelVars, flagVars, worldVars, boundVars
<1>6. SlotsFit'
  <2>1. th[t].pc \in StartPCs
    BY Zenon, <1>2 DEF StartPCs
  <2>2. Pending(th[t]) /\ th'[t].n = th[t].n
    BY Zenon, <1>2, <1>3 DEF Pending, Continues
  <2>3. made' = made /\ made \in 0 .. MaxRequests /\ th[t].pc # "rest"
    BY Zenon, <1>0, <1>2 DEF TypeOK
  <2> QED
    BY Zenon, <1>0, <1>3, <2>1, <2>2, <2>3, MoveKeepsSlots
<1>7. NeverUnwatched'
  <2>1. Watches(th'[t]) /\ th'[t].id = active'.id
    BY Zenon, <1>3, <1>4 DEF Watches, Continues
  <2>2. th[t].pc \in StartPCs
    BY Zenon, <1>2 DEF StartPCs
  <2>3. t \in Threads \ {Boot}
    BY Zenon, <1>0, <2>2, ThreadsApart DEF SlotsFit
  <2> QED
    BY Zenon, <2>1, <2>3 DEF NeverUnwatched
<1>8. CountsFit'
  <2>1. Freezing' = Freezing
    BY Zenon, <1>2, <1>3, SameFreeze
  <2> QED
    BY Zenon, <1>0, <1>2, <2>1 DEF CountsFit
<1> QED
  BY Zenon, <1>3, <1>5, <1>6, <1>7, <1>8 DEF WatchInv

\* The watchdog a prepare starts watches for the snapshot it stored.
LEMMA SpawnStep ==
  ASSUME WatchInv, NEW t \in Threads, Spawn(t)
  PROVE  WatchInv'
<1> DEFINE w == [Rest EXCEPT !.pc = "armed", !.op = "snap_dog", !.id = th[t].id]
<1>0. TypeOK /\ SlotsFit /\ CountsFit /\ NeverUnwatched
  BY Zenon DEF WatchInv
<1>1. th[t].id \in 0 .. MaxRequests
  BY Zenon, <1>0, FieldTypes
<1>2. w \in ThreadStates /\ w.pc = "armed" /\ w.op = "snap_dog" /\ w.id = th[t].id
  BY Zenon, <1>1, RestHolds DEF Rest, ThreadStates, PCs
<1>3. /\ th[t].pc = "spawn" /\ th' = [th EXCEPT ![t].pc = "final_hint", ![th[t].n] = w]
      /\ UNCHANGED <<made, epoch, second, active>>
  BY Zenon DEF Spawn, At, kernelVars, boundVars
<1> HIDE DEF w
<1>4. "final_hint" \in PCs /\ th[t].pc \in {"spawn", "arm"}
  BY <1>3 DEF PCs
<1>5. /\ t \in Channels /\ th[t].n \in Requests /\ th' \in [Threads -> ThreadStates]
      /\ \A u \in Threads : u # t /\ u # th[t].n => th'[u] = th[u]
  BY Zenon, <1>0, <1>2, <1>3, <1>4, SpawnMoves
<1>6. th'[th[t].n] = w
  BY <1>0, <1>3, <1>5, ThreadsApart DEF TypeOK
<1>7. TypeOK'
  BY Zenon, <1>0, <1>5 DEF TypeOK, Spawn, kernelVars, flagVars, worldVars, boundVars
<1>8. SlotsFit' /\ CountsFit'
  BY Zenon, <1>0, <1>2, <1>3, <1>4, SpawnKeepsSlots
<1>9. NeverUnwatched'
  <2>1. CASE active # NoSnapshot
    <3>1. PICK u \in Threads \ {Boot} : Watches(th[u]) /\ th[u].id = active.id
      BY Zenon, <1>0, <2>1 DEF NeverUnwatched
    <3>2. CASE u = t
      <4>1. Watches(th'[th[t].n]) /\ th'[th[t].n].id = active.id
        BY Zenon, <1>2, <1>6, <3>1, <3>2 DEF Watches
      <4> QED
        BY Zenon, <1>3, <1>5, <4>1, ThreadsApart DEF NeverUnwatched
    <3>3. CASE u # t
      <4>1. th[th[t].n] = Rest
        BY Zenon, <1>0, <1>3, <1>5 DEF SlotsFit, Pending
      <4>2. u # th[t].n
        BY Zenon, <3>1, <4>1, RestHolds DEF Watches
      <4>3. th'[u] = th[u]
        BY Zenon, <1>5, <3>3, <4>2
      <4> QED
        BY Zenon, <1>3, <3>1, <4>3 DEF NeverUnwatched
    <3> QED
      BY Zenon, <3>2, <3>3
  <2> QED
    BY Zenon, <1>3, <2>1 DEF NeverUnwatched
<1> QED
  BY Zenon, <1>7, <1>8, <1>9 DEF WatchInv

\* A cutover's watchdog takes no snapshot watchdog's place.
LEMMA ArmStep ==
  ASSUME WatchInv, NEW t \in Threads, Arm(t)
  PROVE  WatchInv'
<1> DEFINE w == [Rest EXCEPT !.pc = "armed", !.op = "cut_dog"]
<1>0. TypeOK /\ SlotsFit /\ CountsFit /\ NeverUnwatched
  BY Zenon DEF WatchInv
<1>2. w \in ThreadStates /\ w.pc = "armed"
  BY Zenon, RestHolds DEF Rest, ThreadStates, PCs
<1>3. /\ th[t].pc = "arm" /\ th' = [th EXCEPT ![t].pc = "truncate", ![th[t].n] = w]
      /\ UNCHANGED <<made, epoch, second, active>>
  BY Zenon DEF Arm, At, kernelVars, boundVars
<1> HIDE DEF w
<1>6. "truncate" \in PCs
  BY DEF PCs
<1>7. /\ t \in Channels /\ th[t].n \in Requests /\ th' \in [Threads -> ThreadStates]
      /\ \A u \in Threads : u # t /\ u # th[t].n => th'[u] = th[u]
  <2>1. th[t].pc \in {"spawn", "arm"}
    BY Zenon, <1>3
  <2>2. t \in Channels /\ th[t].n \in Requests /\ th' \in [Threads -> ThreadStates]
    BY Zenon, <1>0, <1>2, <1>3, <1>6, <2>1, SpawnMoves
  <2>3. \A u \in Threads : u # t /\ u # th[t].n => th'[u] = th[u]
    BY Zenon, <1>0, <1>2, <1>3, <1>6, <2>1, SpawnMoves
  <2> QED
    BY Zenon, <2>2, <2>3
<1>8. TypeOK'
  BY Zenon, <1>0, <1>7 DEF TypeOK, Arm, kernelVars, flagVars, worldVars, boundVars
<1>9. SlotsFit' /\ CountsFit'
  BY Zenon, <1>0, <1>2, <1>3, SpawnKeepsSlots
<1>10. NeverUnwatched'
  <2>1. CASE active # NoSnapshot
    <3>1. PICK u \in Threads \ {Boot} : Watches(th[u]) /\ th[u].id = active.id
      BY Zenon, <1>0, <2>1 DEF NeverUnwatched
    <3>2. th[th[t].n] = Rest
      BY Zenon, <1>0, <1>3, <1>7 DEF SlotsFit, Pending
    <3>3. u # th[t].n /\ u # t
      BY Zenon, <1>3, <3>1, <3>2, RestHolds DEF Watches
    <3>4. th'[u] = th[u]
      BY Zenon, <1>7, <3>3
    <3> QED
      BY Zenon, <1>3, <3>1, <3>4 DEF NeverUnwatched
  <2> QED
    BY Zenon, <1>3, <2>1 DEF NeverUnwatched
<1> QED
  BY Zenon, <1>8, <1>9, <1>10 DEF WatchInv

\* A request taken from the channel: its watchdog, if it is to have one, will
\* be a thread nobody has used.
LEMMA RequestKeeps ==
  ASSUME WatchInv, NEW c \in Channels, OnlyMoves(c), th[c].pc = "rest",
         made < MaxRequests, made' = made + 1, epoch' = epoch,
         second' \in {second, second + 1},
         Pending(th'[c]) => th'[c].n = made + 1,
         active' \in {active, NoSnapshot}, TypeOK'
  PROVE  WatchInv'
<1>0. TypeOK /\ SlotsFit /\ CountsFit /\ NeverUnwatched
  BY Zenon DEF WatchInv
<1>1. made \in Nat /\ second \in Nat /\ epoch \in Nat
  BY <1>0 DEF TypeOK
<1>2. \A u \in Threads : u # c => th'[u] = th[u]
  BY Zenon DEF OnlyMoves
<1>3. \A n \in Requests : th'[n] = th[n]
  BY Zenon, <1>2, ThreadsApart
<1>4. \A u \in Threads : th'[u].pc \in StartPCs => u \in Channels
  BY Zenon, <1>0, <1>2 DEF SlotsFit
<1>5. ASSUME NEW n \in Requests, n > made' PROVE th'[n] = Rest
  <2>1. n > made
    BY <1>1, <1>5 DEF Requests
  <2> QED
    BY Zenon, <1>0, <1>3, <2>1 DEF SlotsFit
<1>6. made + 1 \in Requests /\ th[made + 1] = Rest
  <2>1. made + 1 \in Requests /\ made + 1 > made
    BY <1>1, FreezeAssumption DEF Requests
  <2> QED
    BY Zenon, <1>0, <2>1 DEF SlotsFit
<1>7. ASSUME NEW d \in Channels, Pending(th'[d]), d # c
      PROVE  /\ th'[d] = th[d] /\ th[d].n \in 1 .. made /\ th[th[d].n] = Rest
             /\ th[d].n \in Requests /\ th[d].n # made + 1
  <2>1. th'[d] = th[d]
    BY Zenon, <1>2, <1>7, ThreadsApart
  <2>2. th[d].n \in 1 .. made /\ th[th[d].n] = Rest
    BY Zenon, <1>0, <1>7, <2>1 DEF SlotsFit
  <2>3. th[d].n \in Requests /\ th[d].n # made + 1
    BY <1>1, <2>2, FreezeAssumption DEF Requests
  <2> QED
    BY Zenon, <2>1, <2>2, <2>3
<1>8. ASSUME NEW d \in Channels, Pending(th'[d])
      PROVE  th'[d].n \in 1 .. made' /\ th'[th'[d].n] = Rest
  <2>1. CASE d = c
    <3>1. made + 1 \in 1 .. made'
      BY <1>1
    <3> QED
      BY Zenon, <1>3, <1>6, <1>8, <2>1, <3>1
  <2>2. CASE d # c
    <3>1. th[d].n \in 1 .. made'
      BY <1>1, <1>7, <1>8, <2>2
    <3> QED
      BY Zenon, <1>3, <1>7, <1>8, <2>2, <3>1
  <2> QED
    BY Zenon, <2>1, <2>2
<1>9. ASSUME NEW d \in Channels, NEW e \in Channels,
             Pending(th'[d]), Pending(th'[e]), d # e
      PROVE  th'[d].n # th'[e].n
  BY ZenonT(40), <1>0, <1>7, <1>9 DEF SlotsFit
<1>10. SlotsFit'
  BY Zenon, <1>4, <1>5, <1>8, <1>9 DEF SlotsFit
<1>11. NeverUnwatched'
  <2>1. ~Watches(th[c])
    BY Zenon DEF Watches
  <2> QED
    BY Zenon, <1>0, <1>2, <2>1 DEF NeverUnwatched
<1>12. CountsFit'
  <2>1. Cardinality(Freezing') <= Cardinality(Freezing) + 1
    BY Zenon, OneMoreFreezes
  <2>2. epoch + Cardinality(Freezing) <= made /\ second <= made
    BY Zenon, <1>0 DEF CountsFit
  <2> QED
    BY <1>1, <2>1, <2>2, FreezingFinite, FreezingFiniteNext DEF CountsFit
<1> QED
  BY Zenon, <1>10, <1>11, <1>12 DEF WatchInv

\* What every request begins with.
LEMMA BeginFacts ==
  ASSUME TypeOK, NEW c \in Channels, NEW op, Begin(c, op)
  PROVE  /\ c \in Threads /\ th[c].pc = "rest" /\ op \in Ops
         /\ made < MaxRequests /\ made' = made + 1 /\ made' \in 0 .. MaxRequests
         /\ UNCHANGED <<crashes, mishaps>>
<1>1. made' \in 0 .. MaxRequests
  BY FreezeAssumption DEF TypeOK, Begin
<1> QED
  BY Zenon, <1>1, ThreadsApart DEF Begin, At

\* prepare begins: nothing is active, and it is about to freeze.
LEMMA PrepareMoves ==
  ASSUME WatchInv, NEW c \in Channels, PrepareGuard(c)
  PROVE  /\ OnlyMoves(c) /\ active = NoSnapshot
         /\ th'[c].pc = "freeze" /\ th'[c].op = "prepare" /\ ~th'[c].froze
         /\ th'[c].n = made + 1 /\ quiesced' \in BOOLEAN
         /\ second' \in {second, second + 1} /\ second' \in 0 .. MaxRequests
<1>0. TypeOK /\ CountsFit
  BY Zenon DEF WatchInv
<1>1. c \in Threads /\ made < MaxRequests /\ made' = made + 1 /\ made' \in 0 .. MaxRequests
  BY Zenon, <1>0, BeginFacts DEF PrepareGuard
<1>2. PICK s \in {second, second + 1}, quiet \in BOOLEAN :
        /\ second' = s
        /\ quiesced' = (quiesced \/ quiet)
        /\ th' = [th EXCEPT ![c] =
             [Rest EXCEPT !.pc = "freeze", !.op = "prepare", !.n = made + 1,
                          !.id = s, !.quiet = quiet]]
  BY Zenon DEF PrepareGuard
<1> DEFINE r == [Rest EXCEPT !.pc = "freeze", !.op = "prepare", !.n = made + 1,
                             !.id = s, !.quiet = quiet]
<1>3. s \in 0 .. MaxRequests
  BY <1>0, <1>1, FreezeAssumption DEF TypeOK, CountsFit
<1>4. /\ r \in ThreadStates /\ r.pc = "freeze" /\ r.op = "prepare" /\ ~r.froze
      /\ r.n = made + 1
  BY Zenon, <1>1, <1>3, RestHolds DEF Rest, ThreadStates, PCs, Operations
<1>5. th' = [th EXCEPT ![c] = r]
  BY Zenon, <1>2
<1> HIDE DEF r
<1>6. OnlyMoves(c) /\ th'[c] = r
  BY Zenon, <1>0, <1>1, <1>4, <1>5, SetMoves
<1>7. active = NoSnapshot
  BY Zenon DEF PrepareGuard
<1>8. quiesced' \in BOOLEAN
  BY Zenon, <1>0, <1>2 DEF TypeOK
<1> QED
  BY Zenon, <1>2, <1>3, <1>4, <1>6, <1>7, <1>8

\* A prepare that begins keeps the invariant.
LEMMA PrepareStep ==
  ASSUME WatchInv, NEW c \in Channels, PrepareGuard(c)
  PROVE  WatchInv'
<1>0. TypeOK
  BY Zenon DEF WatchInv
<1>1. /\ th[c].pc = "rest" /\ made < MaxRequests /\ made' = made + 1
      /\ made' \in 0 .. MaxRequests /\ UNCHANGED <<crashes, mishaps>>
  BY Zenon, <1>0, BeginFacts DEF PrepareGuard
<1>2. /\ OnlyMoves(c) /\ th'[c].n = made + 1 /\ quiesced' \in BOOLEAN
      /\ second' \in {second, second + 1} /\ second' \in 0 .. MaxRequests
  BY Zenon, PrepareMoves
<1>3. UNCHANGED <<epoch, active>>
  BY Zenon DEF PrepareGuard, kernelVars
<1>4. TypeOK'
  BY Zenon, <1>0, <1>1, <1>2
     DEF TypeOK, OnlyMoves, PrepareGuard, kernelVars, flagVars
<1> QED
  BY Zenon, <1>1, <1>2, <1>3, <1>4, RequestKeeps

\* complete begins: it has taken the active snapshot.
LEMMA CompleteStep ==
  ASSUME WatchInv, NEW c \in Channels, CompleteTake(c)
  PROVE  WatchInv'
<1>0. TypeOK
  BY Zenon DEF WatchInv
<1>1. /\ c \in Threads /\ th[c].pc = "rest" /\ made < MaxRequests /\ made' = made + 1
      /\ made' \in 0 .. MaxRequests /\ UNCHANGED <<crashes, mishaps>>
  BY Zenon, <1>0, BeginFacts DEF CompleteTake
<1>2. OnlyMoves(c) /\ active' = NoSnapshot /\ th'[c].pc \in {"thaw", "resume"}
  BY Zenon, <1>0, <1>1, TakeMoves DEF CompleteTake
<1>3. epoch' = epoch /\ second' = second
  BY Zenon DEF CompleteTake, kernelVars
<1>4. ~Pending(th'[c])
  BY Zenon, <1>2 DEF Pending
<1>5. TypeOK'
  BY Zenon, <1>0, <1>1, <1>2
     DEF TypeOK, OnlyMoves, CompleteTake, kernelVars, flagVars, worldVars
<1> QED
  BY Zenon, <1>1, <1>2, <1>3, <1>4, <1>5, RequestKeeps

\* enter_cutover begins: it has stopped services, and freezes if asked to.
LEMMA EnterStep ==
  ASSUME WatchInv, NEW c \in Channels, EnterStop(c)
  PROVE  WatchInv'
<1>0. TypeOK
  BY Zenon DEF WatchInv
<1>1. /\ c \in Threads /\ th[c].pc = "rest" /\ made < MaxRequests /\ made' = made + 1
      /\ made' \in 0 .. MaxRequests /\ UNCHANGED <<crashes, mishaps>>
  BY Zenon, <1>0, BeginFacts DEF EnterStop
<1>2. PICK list \in SUBSET Services, freeze \in BOOLEAN :
        /\ stopped' = stopped \cup list
        /\ th' = [th EXCEPT ![c] =
             [Rest EXCEPT !.pc = IF freeze THEN "freeze" ELSE "truncate",
                          !.op = "enter", !.n = made + 1, !.list = list]]
  BY Zenon DEF EnterStop
<1> DEFINE r == [Rest EXCEPT !.pc = IF freeze THEN "freeze" ELSE "truncate",
                             !.op = "enter", !.n = made + 1, !.list = list]
<1>3. r \in ThreadStates /\ r.n = made + 1
  BY Zenon, <1>1, <1>2, RestHolds DEF Rest, ThreadStates, PCs, Operations
<1>4. th' = [th EXCEPT ![c] = r]
  BY Zenon, <1>2
<1> HIDE DEF r
<1>5. OnlyMoves(c) /\ th'[c].n = made + 1
  BY Zenon, <1>0, <1>1, <1>3, <1>4, SetMoves
<1>6. epoch' = epoch /\ second' = second /\ active' = active
  BY Zenon DEF EnterStop, kernelVars
<1>7. TypeOK'
  <2>1. stopped' \in SUBSET Services
    BY Zenon, <1>0, <1>2 DEF TypeOK
  <2> QED
    BY Zenon, <1>0, <1>1, <1>5, <2>1
       DEF TypeOK, OnlyMoves, EnterStop, kernelVars, flagVars
<1> QED
  BY Zenon, <1>1, <1>5, <1>6, <1>7, RequestKeeps

\* exit_cutover begins: it has read the marker.
LEMMA ExitStep ==
  ASSUME WatchInv, NEW c \in Channels, ExitRead(c)
  PROVE  WatchInv'
<1> DEFINE list == IF marker = NoMarker THEN {} ELSE marker.list
           r == [Rest EXCEPT !.pc = IF FsFrozen THEN "thaw" ELSE "restart",
                             !.op = "exit", !.list = list]
<1>0. TypeOK
  BY Zenon DEF WatchInv
<1>1. /\ c \in Threads /\ th[c].pc = "rest" /\ made < MaxRequests /\ made' = made + 1
      /\ made' \in 0 .. MaxRequests /\ UNCHANGED <<crashes, mishaps>>
  BY Zenon, <1>0, BeginFacts DEF ExitRead
<1>2. list \in SUBSET Services
  <2>1. marker \in Markers => marker.list \in SUBSET Services
    BY DEF Markers
  <2> QED
    BY Zenon, <1>0, <2>1 DEF TypeOK
<1>3. th' = [th EXCEPT ![c] = r]
  BY Zenon DEF ExitRead
<1> HIDE DEF list
<1>4. r \in ThreadStates /\ r.pc \in {"thaw", "restart"}
  BY Zenon, <1>2, RestHolds DEF Rest, ThreadStates, PCs, Operations
<1> HIDE DEF r
<1>5. OnlyMoves(c) /\ th'[c].pc \in {"thaw", "restart"}
  BY Zenon, <1>0, <1>1, <1>3, <1>4, SetMoves
<1>6. epoch' = epoch /\ second' = second /\ active' = active
  BY Zenon DEF ExitRead, kernelVars
<1>7. ~Pending(th'[c])
  BY Zenon, <1>5 DEF Pending
<1>8. TypeOK'
  BY Zenon, <1>0, <1>1, <1>5
     DEF TypeOK, OnlyMoves, ExitRead, kernelVars, flagVars, worldVars
<1> QED
  BY Zenon, <1>1, <1>5, <1>6, <1>7, <1>8, RequestKeeps

\* The plain commands begin.
LEMMA CommandMoves ==
  ASSUME TypeOK, NEW c \in Channels, NEW x \in {"freeze", "thaw"},
         NEW op \in {"freeze", "qga_freeze", "thaw", "qga_thaw"},
         th' = [th EXCEPT ![c].pc = x, ![c].op = op]
  PROVE  /\ OnlyMoves(c) /\ th'[c].pc = x /\ th'[c].op = op
         /\ th'[c].froze = th[c].froze
<1> DEFINE r == [th[c] EXCEPT !.pc = x, !.op = op]
<1>0. c \in Threads /\ th \in [Threads -> ThreadStates] /\ th[c] \in ThreadStates
  BY ThreadsApart DEF TypeOK
<1>1. th' = [th EXCEPT ![c] = r]
  BY Zenon, <1>0
<1>2. r \in ThreadStates /\ r.pc = x /\ r.op = op /\ r.froze = th[c].froze
  BY Zenon, <1>0 DEF ThreadStates, PCs, Operations
<1> HIDE DEF r
<1> QED
  BY Zenon, <1>0, <1>1, <1>2, SetMoves

\* A plain command that begins keeps the invariant.
LEMMA CommandStep ==
  ASSUME WatchInv, NEW c \in Channels, FreezeCommand(c) \/ ThawCommand(c)
  PROVE  WatchInv'
<1>0. TypeOK
  BY Zenon DEF WatchInv
<1>1. PICK op \in {"freeze", "qga_freeze", "thaw", "qga_thaw"}, x \in {"freeze", "thaw"} :
        /\ Begin(c, op)
        /\ th' = [th EXCEPT ![c].pc = x, ![c].op = op]
        /\ UNCHANGED <<kernelVars, flagVars, active, marker, worldVars, alive, second>>
  BY Zenon DEF FreezeCommand, ThawCommand
<1>2. /\ th[c].pc = "rest" /\ made < MaxRequests /\ made' = made + 1
      /\ made' \in 0 .. MaxRequests /\ UNCHANGED <<crashes, mishaps>>
  BY Zenon, <1>0, <1>1, BeginFacts
<1>3. OnlyMoves(c) /\ th'[c].pc = x /\ th'[c].op = op
  BY Zenon, <1>0, <1>1, CommandMoves
<1>4. epoch' = epoch /\ second' = second /\ active' = active
  BY Zenon, <1>1 DEF kernelVars
<1>5. ~Pending(th'[c])
  BY Zenon, <1>3 DEF Pending
<1>6. TypeOK'
  BY Zenon, <1>0, <1>1, <1>2, <1>3
     DEF TypeOK, OnlyMoves, kernelVars, flagVars, worldVars
<1> QED
  BY Zenon, <1>2, <1>3, <1>4, <1>5, <1>6, RequestKeeps

\* The death of the agent leaves every thread at rest and nothing active.
LEMMA CrashStep ==
  ASSUME WatchInv, Crash
  PROVE  WatchInv'
<1>0. TypeOK /\ CountsFit
  BY Zenon DEF WatchInv
<1>1. /\ th' = [t \in Threads |-> Rest] /\ active' = NoSnapshot
      /\ UNCHANGED <<made, epoch, second>>
  BY Zenon DEF Crash, kernelVars
<1>2. \A t \in Threads : th'[t] = Rest
  BY Zenon, <1>1
<1>3. TypeOK'
  <2>1. crashes' \in 0 .. MaxCrashes
    BY <1>0, FreezeAssumption DEF TypeOK, Crash
  <2>2. th' \in [Threads -> ThreadStates]
    BY Zenon, <1>1, RestHolds
  <2> QED
    BY Zenon, <1>0, <2>1, <2>2 DEF TypeOK, Crash, kernelVars, worldVars
<1>4. ~Pending(Rest) /\ Rest.pc \notin StartPCs
  BY Zenon, RestHolds DEF Pending, StartPCs
<1>5. SlotsFit' /\ NeverUnwatched'
  BY Zenon, <1>1, <1>2, <1>4, ThreadsApart DEF SlotsFit, NeverUnwatched
<1>6. CountsFit'
  <2>1. Freezing' = {}
    BY Zenon, <1>2, RestHolds, ThreadsApart DEF Freezing
  <2>2. Cardinality(Freezing') = 0
    BY Zenon, <2>1, FS_EmptySet
  <2>3. epoch \in Nat /\ made \in Nat /\ second \in Nat
    BY <1>0 DEF TypeOK
  <2> QED
    BY <1>0, <1>1, <2>2, <2>3, FreezingFinite DEF CountsFit
<1> QED
  BY Zenon, <1>3, <1>5, <1>6 DEF WatchInv

\* The agent starts again, with the boot thread alone.
LEMMA RestartStep ==
  ASSUME WatchInv, Restart
  PROVE  WatchInv' /\ OnlyMoves(Boot) /\ Continues(Boot) /\ th'[Boot].pc = "recover"
<1>0. TypeOK /\ CountsFit /\ SlotsFit /\ NeverUnwatched
  BY Zenon DEF WatchInv
<1>1. UNCHANGED <<made, epoch, second, active>>
  BY DEF Restart, kernelVars, boundVars
<1>2. OnlyMoves(Boot) /\ Continues(Boot) /\ th'[Boot].pc = "recover"
  <2>1. "recover" \in PCs
    BY DEF PCs
  <2> QED
    BY Zenon, <1>0, <2>1, GotoMoves, ThreadsApart DEF Restart
<1>3. \A u \in Threads : u # Boot => th'[u] = th[u]
  BY Zenon, <1>2 DEF OnlyMoves
<1>4. /\ \A c \in Channels : th'[c] = th[c]
      /\ \A n \in Requests : th'[n] = th[n]
  BY Zenon, <1>3, ThreadsApart
<1>5. TypeOK'
  BY Zenon, <1>0, <1>2
     DEF TypeOK, OnlyMoves, Restart, kernelVars, flagVars, worldVars, boundVars
<1>6. SlotsFit'
  <2>1. \A t \in Threads : th'[t].pc \in StartPCs => t \in Channels
    BY Zenon, <1>0, <1>2, <1>3 DEF SlotsFit, StartPCs
  <2>2. \A n \in Requests : n > made => th'[n] = Rest
    BY Zenon, <1>0, <1>4 DEF SlotsFit
  <2>3. ASSUME NEW c \in Channels, Pending(th'[c])
        PROVE  th'[c].n \in 1 .. made /\ th'[th'[c].n] = Rest
    <3>1. th[c].n \in 1 .. made /\ th[th[c].n] = Rest
      BY Zenon, <1>0, <1>4, <2>3 DEF SlotsFit
    <3>2. th[c].n \in Requests
      BY <1>0, <3>1, FreezeAssumption DEF TypeOK, Requests
    <3> QED
      BY Zenon, <1>4, <3>1, <3>2
  <2>4. \A c, d \in Channels :
          Pending(th'[c]) /\ Pending(th'[d]) /\ c # d => th'[c].n # th'[d].n
    BY Zenon, <1>0, <1>4 DEF SlotsFit
  <2> QED
    BY Zenon, <1>1, <2>1, <2>2, <2>3, <2>4 DEF SlotsFit
<1>7. NeverUnwatched'
  <2>1. CASE active = NoSnapshot
    BY Zenon, <1>1, <2>1 DEF NeverUnwatched
  <2>2. CASE active # NoSnapshot
    <3>1. PICK u \in Threads \ {Boot} : Watches(th[u]) /\ th[u].id = active.id
      BY Zenon, <1>0, <2>2 DEF NeverUnwatched
    <3> QED
      BY Zenon, <1>1, <1>3, <3>1 DEF NeverUnwatched
  <2> QED
    BY Zenon, <2>1, <2>2
<1>8. CountsFit'
  <2>1. Freezing' = Freezing
    BY Zenon, <1>4 DEF Freezing
  <2> QED
    BY Zenon, <1>0, <1>1, <2>1 DEF CountsFit
<1> QED
  BY Zenon, <1>2, <1>5, <1>6, <1>7, <1>8 DEF WatchInv

\* A step of any thread keeps the invariant.
LEMMA ThreadKeepsWatch ==
  ASSUME WatchInv, NEW t \in Threads, ThreadStep(t)
  PROVE  WatchInv'
<1>0. TypeOK
  BY Zenon DEF WatchInv
<1>1. CASE Freeze(t)
  BY Zenon, <1>1, FreezeStep
<1>2. CASE Store(t) \/ Spawn(t)
  BY Zenon, <1>2, StoreStep, SpawnStep
<1>3. CASE Arm(t)
  BY Zenon, <1>3, ArmStep
<1>4. CASE \/ FlagOn(t) \/ HintOn(t) \/ FinalHint(t) \/ Thaw(t) \/ FlagOff(t)
           \/ HintOff(t) \/ Resume(t)
  <2>1. TypeOK' /\ Settled(t)
    BY Zenon, <1>0, <1>4, FlagOnStep, HintOnStep, FinalHintStep, ThawStep,
       FlagOffStep, HintOffStep, ResumeStep
  <2> QED
    BY Zenon, <2>1, SettledKeeps
<1>5. CASE \/ WatchdogCheck(t) \/ WatchdogTake(t) \/ Truncate(t) \/ Write(t)
           \/ CutoverWatchdog(t) \/ Clear(t) \/ RestartServices(t)
           \/ Unmark(t) \/ Recover(t)
  <2>1. TypeOK' /\ Settled(t)
    BY Zenon, <1>0, <1>5, WatchdogCheckStep, WatchdogTakeStep, TruncateStep,
       WriteStep, CutoverWatchdogStep, ClearStep, RestartServicesStep,
       UnmarkStep, RecoverStep
  <2> QED
    BY Zenon, <2>1, SettledKeeps
<1> QED
  BY Zenon, <1>1, <1>2, <1>3, <1>4, <1>5 DEF ThreadStep

\* A request taken from any channel keeps it.
LEMMA RequestKeepsWatch ==
  ASSUME WatchInv, NEW c \in Channels, Request(c)
  PROVE  WatchInv'
  BY Zenon, PrepareStep, CompleteStep, EnterStep, ExitStep, CommandStep DEF Request

\* At the start nothing is active and every thread rests.
LEMMA WatchInit == Init => WatchInv
<1> SUFFICES ASSUME Init PROVE WatchInv
  OBVIOUS
<1>1. \A t \in Threads : th[t] = Rest
  BY Zenon DEF Init
<1>2. TypeOK
  <2>1. th \in [Threads -> ThreadStates]
    BY Zenon, RestHolds DEF Init
  <2>2. 0 \in 0 .. MaxRequests /\ 0 \in 0 .. MaxCrashes /\ 0 \in 0 .. MaxMishaps
    BY FreezeAssumption
  <2> QED
    BY Zenon, <2>1, <2>2 DEF Init, TypeOK
<1>3. ~Pending(Rest) /\ Rest.pc \notin StartPCs
  BY Zenon, RestHolds DEF Pending, StartPCs
<1>4. SlotsFit /\ NeverUnwatched
  BY Zenon, <1>1, <1>3, ThreadsApart DEF Init, SlotsFit, NeverUnwatched
<1>5. CountsFit
  <2>1. Freezing = {}
    BY Zenon, <1>1, RestHolds, ThreadsApart DEF Freezing
  <2>2. Cardinality(Freezing) = 0
    BY Zenon, <2>1, FS_EmptySet
  <2> QED
    BY <2>2 DEF Init, CountsFit
<1> QED
  BY Zenon, <1>2, <1>4, <1>5 DEF WatchInv

\* Every step of the agent keeps it.
LEMMA WatchNext == WatchInv /\ [Next]_vars => WatchInv'
<1> SUFFICES ASSUME WatchInv, [Next]_vars PROVE WatchInv'
  OBVIOUS
<1>1. CASE Next
  BY Zenon, <1>1, RequestKeepsWatch, ThreadKeepsWatch, CrashStep, RestartStep DEF Next
<1>2. CASE UNCHANGED vars
  <2>1. UNCHANGED <<th, active, made, epoch, second>>
    BY <1>2 DEF vars, kernelVars, boundVars
  <2>2. TypeOK'
    BY Zenon, <1>2 DEF WatchInv, TypeOK, vars, kernelVars, flagVars, worldVars, boundVars
  <2>3. SlotsFit' /\ NeverUnwatched'
    BY Zenon, <2>1 DEF WatchInv, SlotsFit, NeverUnwatched
  <2>4. CountsFit'
    BY Zenon, <2>1 DEF WatchInv, CountsFit, Freezing
  <2> QED
    BY Zenon, <2>2, <2>3, <2>4 DEF WatchInv
<1> QED
  BY Zenon, <1>1, <1>2

\* The watchdogs' invariant: every request that may still start a watchdog has
\* a thread of its own for it, and an active snapshot has one on its post.
THEOREM WatchInvariant == Spec => []WatchInv
<1>1. WatchInv /\ [Next]_vars => WatchInv'
  BY WatchNext
<1> QED
  BY WatchInit, <1>1, PTL DEF Spec

\* The state stays within its types: no more freezes, seconds and watchdogs
\* than requests.
THEOREM FreezeTypeCorrect == Spec => []TypeOK
<1>1. WatchInv => TypeOK
  BY DEF WatchInv
<1> QED
  BY WatchInvariant, <1>1, PTL

\* An active snapshot is never without a watchdog that will find it, whatever
\* the channels ask for, when the helper fails and when the agent dies.
THEOREM SnapshotsAreWatched == Spec => []NeverUnwatched
<1>1. WatchInv => NeverUnwatched
  BY DEF WatchInv
<1> QED
  BY WatchInvariant, <1>1, PTL

-----------------------------------------------------------------------------
(* The freeze of an active snapshot, where one channel asks for snapshots   *)
(* and freezes and nothing else.                                            *)

\* A step that neither freezes nor thaws, nor is about to thaw, keeps what is
\* counted on: c freezes nothing new and activates nothing.
LEMMA CalmKeepsHold ==
  ASSUME NEW c \in Threads, HoldInv(c), NEW t \in Threads, OnlyMoves(t),
         UNCHANGED <<frozen, epoch>>, marker' = NoMarker,
         active' \in {active, NoSnapshot},
         th'[t].op \in SnapshotOps \cup {"none", "snap_dog"},
         th'[t].pc \notin {"arm", "truncate", "write", "thaw"},
         th'[t].pc = "store" => th'[t].op = "prepare",
         t = c =>
           /\ Holding(c)' => Holding(c) /\ th'[c].epoch = th[c].epoch
           /\ th'[c].op = "prepare" /\ th'[c].pc \in FreezePCs => active' = NoSnapshot
           /\ th'[c].op = "prepare" /\ th'[c].pc = "freeze" => ~th'[c].froze
  PROVE  HoldInv(c)'
<1>0. NoCutover /\ ThawsFit(c) /\ PrepareFits(c) /\ ActiveFreezeHolds
  BY Zenon DEF HoldInv
<1>1. \A u \in Threads : u # t => th'[u] = th[u]
  BY Zenon DEF OnlyMoves
<1>2. Holding(c)' => Holding(c) /\ th'[c].epoch = th[c].epoch
  BY Zenon, <1>1 DEF Holding
<1>3. NoCutover'
  BY Zenon, <1>0, <1>1 DEF NoCutover
<1>4. ASSUME NEW u \in Threads, th'[u].pc = "thaw" PROVE th[u].pc = "thaw"
  BY Zenon, <1>1, <1>4
<1>5. ThawsFit(c)'
  BY Zenon, <1>0, <1>2, <1>4 DEF ThawsFit
<1>6. PrepareFits(c)'
  <2>1. CASE t = c
    BY Zenon, <1>0, <1>2, <2>1 DEF PrepareFits
  <2>2. CASE t # c
    BY Zenon, <1>0, <1>1, <1>2, <2>2 DEF PrepareFits
  <2> QED
    BY Zenon, <2>1, <2>2
<1>7. ActiveFreezeHolds'
  BY Zenon, <1>0 DEF ActiveFreezeHolds
<1> QED
  BY Zenon, <1>3, <1>5, <1>6, <1>7 DEF HoldInv

\* So does a step past the freeze, or before it is asked for.
LEMMA AwayKeepsHold ==
  ASSUME NEW c \in Threads, HoldInv(c), NEW t \in Threads, OnlyMoves(t), GoesOn(t),
         UNCHANGED <<frozen, epoch, active>>, marker' \in {marker, NoMarker},
         th'[t].pc \notin FreezePCs \cup {"truncate", "write", "thaw"}
  PROVE  HoldInv(c)'
<1>1. marker' = NoMarker
  BY Zenon DEF HoldInv, NoCutover
<1>2. th'[t].op \in SnapshotOps \cup {"none", "snap_dog"}
  BY Zenon, RestHolds DEF HoldInv, NoCutover, GoesOn, Continues
<1>3. th'[t].pc \notin {"store", "arm", "freeze", "flag_on", "hint_on"}
  BY Zenon DEF FreezePCs
<1>4. t = c => ~Holding(c)'
  BY Zenon, <1>3 DEF Holding
<1>5. th'[t].pc \notin {"arm", "truncate", "write", "thaw"}
  BY Zenon, <1>3
<1> QED
  BY Zenon, <1>1, <1>2, <1>3, <1>4, <1>5, CalmKeepsHold

\* The flag and the hint follow the freeze they report.
LEMMA MarksKeepHold ==
  ASSUME WatchInv, NEW c \in Threads, HoldInv(c), NEW t \in Threads,
         FlagOn(t) \/ HintOn(t)
  PROVE  HoldInv(c)'
<1>0. TypeOK
  BY Zenon DEF WatchInv
<1>1. /\ OnlyMoves(t) /\ GoesOn(t) /\ th'[t].pc \in {"rest", "hint_on", "store", "arm"}
      /\ th'[t].pc = "store" => th'[t].op = "prepare"
      /\ th'[t].pc = "arm" => th'[t].op = "enter"
  BY Zenon, <1>0, FlagOnStep, HintOnStep DEF Settled
<1>2. UNCHANGED <<frozen, epoch, active, marker>> /\ th[t].pc \in {"flag_on", "hint_on"}
  BY Zenon DEF FlagOn, HintOn, kernelVars, At
<1>3. marker' = NoMarker /\ th[t].op \in SnapshotOps \cup {"none", "snap_dog"}
  BY Zenon, <1>2 DEF HoldInv, NoCutover
<1>4. th'[t].op \in SnapshotOps \cup {"none", "snap_dog"}
  BY Zenon, <1>1, <1>3, RestHolds DEF GoesOn, Continues
<1>5. th'[t].pc # "arm"
  BY Zenon, <1>1, <1>4 DEF SnapshotOps
<1>6. ASSUME t = c, Continues(t)
      PROVE  /\ Holding(c)' => Holding(c) /\ th'[c].epoch = th[c].epoch
             /\ th'[c].op = "prepare" /\ th'[c].pc \in FreezePCs => active' = NoSnapshot
  <2>1. th[c].pc \in FreezePCs
    BY Zenon, <1>2, <1>6 DEF FreezePCs
  <2> QED
    BY Zenon, <1>2, <1>6, <2>1 DEF Holding, Continues, HoldInv, PrepareFits
<1>7. ASSUME t = c, th'[t] = Rest
      PROVE  ~Holding(c)' /\ th'[c].op # "prepare"
  BY Zenon, <1>7, RestHolds DEF Holding
<1>8. t = c =>
        /\ Holding(c)' => Holding(c) /\ th'[c].epoch = th[c].epoch
        /\ th'[c].op = "prepare" /\ th'[c].pc \in FreezePCs => active' = NoSnapshot
        /\ th'[c].op = "prepare" /\ th'[c].pc = "freeze" => ~th'[c].froze
  BY Zenon, <1>1, <1>6, <1>7 DEF GoesOn
<1>9. th'[t].pc \notin {"arm", "truncate", "write", "thaw"}
  BY Zenon, <1>1, <1>5
<1> QED
  BY Zenon, <1>1, <1>2, <1>3, <1>4, <1>8, <1>9, CalmKeepsHold

\* A freeze that succeeds finds nothing frozen, so nobody counted on an earlier
\* one and nobody is about to thaw.
LEMMA FreezeKeepsHold ==
  ASSUME WatchInv, NEW c, Channels = {c}, HoldInv(c), NEW t \in Threads, Freeze(t)
  PROVE  HoldInv(c)'
<1>0. TypeOK /\ NoCutover /\ ThawsFit(c) /\ PrepareFits(c) /\ ActiveFreezeHolds
  BY Zenon DEF HoldInv, WatchInv
<1>1. th[t].pc = "freeze"
  BY Zenon DEF Freeze, At
<1>2. t = c /\ c \in Threads /\ epoch < MaxRequests
  BY Zenon, <1>1, FreezeRoom
<1>3. /\ OnlyMoves(c) /\ th[c].pc = "freeze"
      /\ \/ th'[c] = Rest
         \/ Continues(c) /\ th[c].op = "prepare" /\ th'[c].pc = "store"
         \/ /\ th'[c].pc = "flag_on" /\ th'[c].op = th[c].op /\ th'[c].n = th[c].n
            /\ frozen' /\ ~frozen /\ th'[c].epoch = epoch' /\ th'[c].froze
      /\ \/ UNCHANGED <<frozen, epoch>>
         \/ ~frozen /\ frozen' /\ epoch' = epoch + 1
      /\ UNCHANGED <<active, marker>>
  BY Zenon, <1>0, <1>2, FreezeMoves
<1>4. \A u \in Threads : u # c => th'[u] = th[u]
  BY Zenon, <1>3 DEF OnlyMoves
<1>5. NoCutover'
  <2>1. th'[c].op \in SnapshotOps \cup {"none", "snap_dog"}
    BY Zenon, <1>0, <1>2, <1>3, RestHolds DEF NoCutover, Continues
  <2>2. /\ th'[c].pc \in {"rest", "store", "flag_on"}
        /\ th'[c].pc = "store" => th'[c].op = "prepare"
    BY Zenon, <1>3, RestHolds DEF Continues
  <2> QED
    BY Zenon, <1>0, <1>3, <1>4, <2>1, <2>2 DEF NoCutover
<1>6. Holding(c)' => frozen' /\ ~frozen /\ th'[c].epoch = epoch'
  <2>1. th'[c] = Rest => ~Holding(c)'
    BY Zenon, RestHolds DEF Holding
  <2>2. Continues(c) /\ th[c].op = "prepare" => ~Holding(c)'
    BY Zenon, <1>0, <1>3 DEF Holding, Continues, PrepareFits
  <2> QED
    BY Zenon, <1>3, <2>1, <2>2
<1>7. ASSUME NEW u \in Threads, th'[u].pc = "thaw"
      PROVE  u # c /\ th[u].pc = "thaw" /\ frozen
  BY Zenon, <1>0, <1>3, <1>4, <1>7, RestHolds DEF ThawsFit
<1>8. ThawsFit(c)'
  <2>1. ASSUME NEW u \in Threads, th'[u].pc = "thaw"
        PROVE  /\ frozen' = frozen /\ frozen /\ ~Holding(c)'
               /\ active' # NoSnapshot => ~active'.frozen
               /\ \A v \in Threads : th'[v].pc = "thaw" => v = u
    <3>1. frozen /\ frozen' = frozen /\ ~Holding(c)'
      BY Zenon, <1>3, <1>6, <1>7, <2>1
    <3>2. active # NoSnapshot => ~active.frozen
      BY Zenon, <1>0, <1>7, <2>1 DEF ThawsFit
    <3>3. \A v \in Threads : th'[v].pc = "thaw" => v = u
      BY Zenon, <1>0, <1>7, <2>1 DEF ThawsFit
    <3> QED
      BY Zenon, <1>3, <3>1, <3>2, <3>3
  <2> QED
    BY Zenon, <2>1 DEF ThawsFit
<1>9. PrepareFits(c)'
  <2>1. th'[c].op = "prepare" => th[c].op = "prepare"
    BY Zenon, <1>3, RestHolds DEF Continues
  <2>2. th[c].op = "prepare" => active = NoSnapshot
    BY Zenon, <1>0, <1>1, <1>2 DEF PrepareFits, FreezePCs
  <2>3. th'[c].pc # "freeze"
    BY Zenon, <1>3, RestHolds
  <2> QED
    BY Zenon, <1>3, <1>6, <2>1, <2>2, <2>3 DEF PrepareFits
<1>10. ActiveFreezeHolds'
  <2>1. CASE UNCHANGED <<frozen, epoch>>
    BY Zenon, <1>0, <1>3, <2>1 DEF ActiveFreezeHolds
  <2>2. CASE ~frozen
    <3>1. active # NoSnapshot => ~active.frozen
      BY Zenon, <1>0, <2>2 DEF ActiveFreezeHolds
    <3> QED
      BY Zenon, <1>3, <3>1 DEF ActiveFreezeHolds
  <2> QED
    BY Zenon, <1>3, <2>1, <2>2
<1> QED
  BY Zenon, <1>5, <1>8, <1>9, <1>10 DEF HoldInv

\* The thread that thaws is the only one about to, and nobody counts on the
\* freeze it ends.
LEMMA ThawKeepsHold ==
  ASSUME WatchInv, NEW c \in Threads, HoldInv(c), NEW t \in Threads, Thaw(t)
  PROVE  HoldInv(c)'
<1>0. TypeOK /\ NoCutover /\ ThawsFit(c) /\ PrepareFits(c) /\ ActiveFreezeHolds
  BY Zenon DEF HoldInv, WatchInv
<1>1. /\ OnlyMoves(t) /\ GoesOn(t)
      /\ th'[t].pc \in {"rest", "flag_off", "resume", "clear"}
  BY Zenon, <1>0, ThawStep DEF Settled
<1>2. th[t].pc = "thaw" /\ UNCHANGED <<active, epoch, marker>>
  BY Zenon DEF Thaw, At
<1>3. /\ ~Holding(c) /\ (active # NoSnapshot => ~active.frozen)
      /\ \A u \in Threads : th[u].pc = "thaw" => u = t
  BY Zenon, <1>0, <1>2 DEF ThawsFit
<1>4. \A u \in Threads : u # t => th'[u] = th[u]
  BY Zenon, <1>1 DEF OnlyMoves
<1>5. NoCutover'
  <2>1. th'[t].op \in SnapshotOps \cup {"none", "snap_dog"}
    BY Zenon, <1>0, <1>1, RestHolds DEF NoCutover, GoesOn, Continues
  <2> QED
    BY Zenon, <1>0, <1>1, <1>2, <1>4, <2>1 DEF NoCutover
<1>6. ~Holding(c)'
  <2>1. CASE t = c
    BY Zenon, <1>1, <2>1 DEF Holding
  <2>2. CASE t # c
    BY Zenon, <1>3, <1>4, <2>2 DEF Holding
  <2> QED
    BY Zenon, <2>1, <2>2
<1>7. \A u \in Threads : th'[u].pc # "thaw"
  BY Zenon, <1>1, <1>3, <1>4
<1>8. PrepareFits(c)'
  <2>1. CASE t = c
    BY Zenon, <1>1, <1>6, <2>1 DEF PrepareFits, FreezePCs
  <2>2. CASE t # c
    BY Zenon, <1>0, <1>2, <1>4, <1>6, <2>2 DEF PrepareFits
  <2> QED
    BY Zenon, <2>1, <2>2
<1>9. ActiveFreezeHolds'
  BY Zenon, <1>2, <1>3 DEF ActiveFreezeHolds
<1> QED
  BY Zenon, <1>5, <1>7, <1>8, <1>9 DEF HoldInv, ThawsFit

\* Whoever takes the active snapshot takes over its freeze: nobody else is
\* about to thaw it, and c is not preparing another.
LEMMA TakeKeepsHold ==
  ASSUME TypeOK, NEW c \in Threads, HoldInv(c), NEW t \in Threads,
         NEW op \in {"complete", "snap_dog"}, TakeActive(t, op),
         UNCHANGED <<frozen, epoch, marker>>
  PROVE  HoldInv(c)'
<1>0. NoCutover /\ ThawsFit(c) /\ PrepareFits(c) /\ ActiveFreezeHolds
  BY Zenon DEF HoldInv
<1>1. /\ OnlyMoves(t) /\ active # NoSnapshot /\ active' = NoSnapshot
      /\ th'[t].pc = (IF active.frozen THEN "thaw" ELSE "resume")
      /\ th'[t].op = op
  BY Zenon, TakeMoves
<1>2. \A u \in Threads : u # t => th'[u] = th[u]
  BY Zenon, <1>1 DEF OnlyMoves
<1>3. NoCutover'
  <2>1. op \in SnapshotOps \cup {"none", "snap_dog"}
    BY Zenon DEF SnapshotOps
  <2>2. th'[t].pc \in {"thaw", "resume"}
    BY Zenon, <1>1
  <2> QED
    BY Zenon, <1>0, <1>1, <1>2, <2>1, <2>2 DEF NoCutover
<1>4. ~Holding(c)'
  <2>1. ~Holding(c)
    BY Zenon, <1>0, <1>1 DEF Holding, PrepareFits, FreezePCs
  <2>2. CASE t = c
    BY Zenon, <1>1, <2>2 DEF Holding
  <2>3. CASE t # c
    BY Zenon, <1>2, <2>1, <2>3 DEF Holding
  <2> QED
    BY Zenon, <2>2, <2>3
<1>5. ThawsFit(c)'
  <2>1. CASE active.frozen
    <3>1. frozen /\ \A u \in Threads : th[u].pc # "thaw"
      BY Zenon, <1>0, <1>1, <2>1 DEF ActiveFreezeHolds, ThawsFit
    <3>2. \A u \in Threads : th'[u].pc = "thaw" => u = t
      BY Zenon, <1>2, <3>1
    <3> QED
      BY Zenon, <1>1, <1>4, <3>1, <3>2 DEF ThawsFit
  <2>2. CASE ~active.frozen
    <3>1. \A u \in Threads : th'[u].pc = "thaw" => th[u].pc = "thaw"
      BY Zenon, <1>1, <1>2, <2>2
    <3> QED
      BY Zenon, <1>0, <1>1, <1>4, <3>1 DEF ThawsFit
  <2> QED
    BY Zenon, <2>1, <2>2
<1>6. PrepareFits(c)'
  <2>1. CASE t = c
    BY Zenon, <1>1, <1>4, <2>1 DEF PrepareFits
  <2>2. CASE t # c
    BY Zenon, <1>0, <1>1, <1>2, <1>4, <2>2 DEF PrepareFits
  <2> QED
    BY Zenon, <2>1, <2>2
<1>7. ActiveFreezeHolds'
  BY Zenon, <1>1 DEF ActiveFreezeHolds
<1> QED
  BY Zenon, <1>3, <1>5, <1>6, <1>7 DEF HoldInv

\* What prepare stores as frozen is frozen, since that prepare froze it.
LEMMA StoreKeepsHold ==
  ASSUME WatchInv, NEW c, Channels = {c}, HoldInv(c), NEW t \in Threads, Store(t)
  PROVE  HoldInv(c)'
<1>0. /\ TypeOK /\ SlotsFit
      /\ NoCutover /\ ThawsFit(c) /\ PrepareFits(c) /\ ActiveFreezeHolds
  BY Zenon DEF HoldInv, WatchInv
<1>1. th[t].pc = "store" /\ UNCHANGED <<frozen, epoch, marker>>
  BY Zenon DEF Store, At, kernelVars
<1>2. OnlyMoves(t) /\ Continues(t) /\ th'[t].pc = "spawn"
  BY Zenon, StoreStep
<1>3. active'.frozen = th[t].froze /\ active'.epoch = th[t].epoch
  <2>1. active' = [id |-> th[t].id, frozen |-> th[t].froze,
                   quiet |-> th[t].quiet, epoch |-> th[t].epoch]
    BY Zenon DEF Store
  <2> QED
    BY <2>1
<1>4. t = c /\ th[c].op = "prepare"
  <2>1. t \in Channels
    BY Zenon, <1>0, <1>1 DEF SlotsFit, StartPCs
  <2> QED
    BY Zenon, <1>0, <1>1, <2>1 DEF NoCutover
<1>5. \A u \in Threads : u # t => th'[u] = th[u]
  BY Zenon, <1>2 DEF OnlyMoves
<1>6. NoCutover'
  BY Zenon, <1>0, <1>1, <1>2, <1>5 DEF NoCutover, Continues
<1>7. th[c].froze <=> Holding(c)
  BY Zenon, <1>1, <1>4 DEF Holding
<1>8. ~Holding(c)'
  BY Zenon, <1>2, <1>4 DEF Holding
<1>9. ThawsFit(c)'
  <2>1. \A u \in Threads : th'[u].pc = "thaw" => th[u].pc = "thaw"
    BY Zenon, <1>2, <1>5
  <2>2. ASSUME NEW u \in Threads, th[u].pc = "thaw"
        PROVE  frozen /\ ~active'.frozen /\ \A v \in Threads : th[v].pc = "thaw" => v = u
    BY Zenon, <1>0, <1>3, <1>4, <1>7, <2>2 DEF ThawsFit
  <2> QED
    BY Zenon, <1>1, <1>8, <2>1, <2>2 DEF ThawsFit
<1>10. PrepareFits(c)'
  BY Zenon, <1>2, <1>4, <1>8 DEF PrepareFits, FreezePCs
<1>11. ActiveFreezeHolds'
  BY Zenon, <1>0, <1>1, <1>3, <1>4, <1>7 DEF ActiveFreezeHolds, PrepareFits
<1> QED
  BY Zenon, <1>6, <1>9, <1>10, <1>11 DEF HoldInv

\* Starting the watchdog touches nothing that is counted on.
LEMMA SpawnKeepsHold ==
  ASSUME WatchInv, NEW c, Channels = {c}, HoldInv(c), NEW t \in Threads, Spawn(t)
  PROVE  HoldInv(c)'
<1> DEFINE w == [Rest EXCEPT !.pc = "armed", !.op = "snap_dog", !.id = th[t].id]
<1>0. /\ TypeOK /\ SlotsFit
      /\ NoCutover /\ ThawsFit(c) /\ PrepareFits(c) /\ ActiveFreezeHolds
  BY Zenon DEF HoldInv, WatchInv
<1>1. th[t].id \in 0 .. MaxRequests
  BY Zenon, <1>0, FieldTypes
<1>2. w \in ThreadStates /\ w.pc = "armed" /\ w.op = "snap_dog"
  BY Zenon, <1>1, RestHolds DEF Rest, ThreadStates, PCs
<1>3. /\ th[t].pc = "spawn" /\ th' = [th EXCEPT ![t].pc = "final_hint", ![th[t].n] = w]
      /\ UNCHANGED <<frozen, epoch, marker, active>>
  BY Zenon DEF Spawn, At, kernelVars
<1> HIDE DEF w
<1>4. "final_hint" \in PCs /\ th[t].pc \in {"spawn", "arm"}
  BY <1>3 DEF PCs
<1>5. t \in Channels /\ th[t].n \in Requests
  BY Zenon, <1>0, <1>2, <1>3, <1>4, SpawnMoves
<1>6. \A u \in Threads : u # t /\ u # th[t].n => th'[u] = th[u]
  BY Zenon, <1>0, <1>2, <1>3, <1>4, SpawnMoves
<1>7. th'[t].pc = "final_hint" /\ th'[t].op = th[t].op
  BY Zenon, <1>0, <1>2, <1>3, <1>4, SpawnMoves
<1>8. th'[th[t].n] = w
  BY <1>0, <1>3, <1>5, ThreadsApart DEF TypeOK
<1>9. t = c
  BY Zenon, <1>5
<1>10. NoCutover'
  <2>1. \A u \in Threads : th'[u].op \in SnapshotOps \cup {"none", "snap_dog"}
    BY Zenon, <1>0, <1>2, <1>6, <1>7, <1>8 DEF NoCutover
  <2>2. \A u \in Threads :
          /\ th'[u].pc \notin {"arm", "truncate", "write"}
          /\ th'[u].pc = "store" => th'[u].op = "prepare"
    BY Zenon, <1>0, <1>2, <1>6, <1>7, <1>8 DEF NoCutover
  <2> QED
    BY Zenon, <1>0, <1>3, <2>1, <2>2 DEF NoCutover
<1>11. ~Holding(c)'
  BY Zenon, <1>7, <1>9 DEF Holding
<1>12. ThawsFit(c)'
  <2>1. \A u \in Threads : th'[u].pc = "thaw" => th[u].pc = "thaw"
    BY Zenon, <1>2, <1>6, <1>7, <1>8
  <2> QED
    BY Zenon, <1>0, <1>3, <1>11, <2>1 DEF ThawsFit
<1>13. PrepareFits(c)'
  BY Zenon, <1>7, <1>9, <1>11 DEF PrepareFits, FreezePCs
<1>14. ActiveFreezeHolds'
  BY Zenon, <1>0, <1>3 DEF ActiveFreezeHolds
<1> QED
  BY Zenon, <1>10, <1>12, <1>13, <1>14 DEF HoldInv

\* A step of any thread keeps it.
LEMMA ThreadKeepsHold ==
  ASSUME WatchInv, NEW c, Channels = {c}, HoldInv(c), NEW t \in Threads, ThreadStep(t)
  PROVE  HoldInv(c)'
<1>0. TypeOK /\ NoCutover
  BY Zenon DEF HoldInv, WatchInv
<1>1. c \in Threads
  BY Zenon, ThreadsApart
<1>2. /\ th[t].op \in SnapshotOps \cup {"none", "snap_dog"}
      /\ th[t].pc \notin {"arm", "truncate", "write"} /\ marker = NoMarker
  BY Zenon, <1>0 DEF NoCutover
<1>3. CASE Freeze(t)
  BY Zenon, <1>3, FreezeKeepsHold
<1>4. CASE Store(t) \/ Spawn(t)
  BY Zenon, <1>4, StoreKeepsHold, SpawnKeepsHold
<1>5. CASE FlagOn(t) \/ HintOn(t)
  BY Zenon, <1>1, <1>5, MarksKeepHold
<1>6. CASE Thaw(t)
  BY Zenon, <1>1, <1>6, ThawKeepsHold
<1>7. CASE WatchdogTake(t)
  <2>1. UNCHANGED <<frozen, epoch, marker>>
    BY Zenon, <1>7 DEF WatchdogTake, kernelVars
  <2>2. CASE TakeActive(t, "snap_dog")
    BY Zenon, <1>0, <1>1, <2>1, <2>2, TakeKeepsHold
  <2>3. CASE Finish(t) /\ UNCHANGED active
    <3>1. OnlyMoves(t) /\ GoesOn(t) /\ th'[t].pc = "rest"
      BY Zenon, <1>0, <2>3, FinishMoves, RestHolds DEF GoesOn
    <3>2. th'[t].pc \notin FreezePCs \cup {"truncate", "write", "thaw"}
      BY Zenon, <3>1 DEF FreezePCs
    <3> QED
      BY Zenon, <1>1, <2>1, <2>3, <3>1, <3>2, AwayKeepsHold
  <2> QED
    BY Zenon, <1>7, <2>2, <2>3 DEF WatchdogTake
<1>8. CASE Arm(t) \/ Truncate(t) \/ Write(t) \/ CutoverWatchdog(t)
  BY Zenon, <1>2, <1>8 DEF Arm, Truncate, Write, CutoverWatchdog, At, SnapshotOps
<1>9. CASE \/ FinalHint(t) \/ FlagOff(t) \/ HintOff(t) \/ Resume(t) \/ WatchdogCheck(t)
           \/ RestartServices(t) \/ Unmark(t)
  <2>1. /\ OnlyMoves(t) /\ GoesOn(t)
        /\ th'[t].pc \in {"rest", "hint_off", "resume", "restart", "clear", "take", "unmark"}
    BY Zenon, <1>0, <1>9, FinalHintStep, FlagOffStep, HintOffStep, ResumeStep,
       WatchdogCheckStep, RestartServicesStep, UnmarkStep DEF Settled
  <2>2. UNCHANGED <<frozen, epoch, active>> /\ marker' \in {marker, NoMarker}
    BY Zenon, <1>9 DEF FinalHint, FlagOff, HintOff, Resume, WatchdogCheck,
       RestartServices, Unmark, kernelVars
  <2>3. th'[t].pc \notin FreezePCs \cup {"truncate", "write", "thaw"}
    BY Zenon, <2>1 DEF FreezePCs
  <2> QED
    BY Zenon, <1>1, <2>1, <2>2, <2>3, AwayKeepsHold
<1>10. CASE Clear(t) \/ Recover(t)
  <2>1. OnlyMoves(t) /\ GoesOn(t) /\ th'[t].pc = "rest"
    BY Zenon, <1>0, <1>2, <1>10, ClearStep, RecoverStep, RestHolds DEF Settled, GoesOn
  <2>2. UNCHANGED <<frozen, epoch, active>> /\ marker' \in {marker, NoMarker}
    BY Zenon, <1>10 DEF Clear, Recover, kernelVars
  <2>3. th'[t].pc \notin FreezePCs \cup {"truncate", "write", "thaw"}
    BY Zenon, <2>1 DEF FreezePCs
  <2> QED
    BY Zenon, <1>1, <2>1, <2>2, <2>3, AwayKeepsHold
<1> QED
  BY Zenon, <1>3, <1>4, <1>5, <1>6, <1>7, <1>8, <1>9, <1>10 DEF ThreadStep

\* So does a request, where it is for a snapshot or a freeze.
LEMMA RequestKeepsHold ==
  ASSUME WatchInv, NEW c, Channels = {c}, Ops \subseteq SnapshotOps, HoldInv(c),
         Request(c)
  PROVE  HoldInv(c)'
<1>0. TypeOK /\ c \in Channels /\ c \in Threads /\ marker = NoMarker
  BY Zenon, ThreadsApart DEF HoldInv, WatchInv, NoCutover
<1>1. CASE PrepareGuard(c)
  <2>1. /\ OnlyMoves(c) /\ active = NoSnapshot
        /\ th'[c].pc = "freeze" /\ th'[c].op = "prepare" /\ ~th'[c].froze
    BY Zenon, <1>0, <1>1, PrepareMoves
  <2>2. UNCHANGED <<frozen, epoch, active, marker>>
    BY Zenon, <1>1 DEF PrepareGuard, kernelVars
  <2>3. ~Holding(c)' /\ th'[c].op \in SnapshotOps \cup {"none", "snap_dog"}
    BY Zenon, <2>1 DEF Holding, SnapshotOps
  <2>4. /\ th'[c].pc \notin {"arm", "truncate", "write", "thaw"}
        /\ th'[c].pc # "store"
    BY Zenon, <2>1
  <2> QED
    BY Zenon, <1>0, <2>1, <2>2, <2>3, <2>4, CalmKeepsHold
<1>2. CASE CompleteTake(c)
  <2>1. UNCHANGED <<frozen, epoch, marker>> /\ TakeActive(c, "complete")
    BY Zenon, <1>2 DEF CompleteTake, kernelVars
  <2> QED
    BY Zenon, <1>0, <2>1, TakeKeepsHold
<1>3. CASE FreezeCommand(c)
  <2>1. PICK op \in {"freeze", "qga_freeze"} :
          th' = [th EXCEPT ![c].pc = "freeze", ![c].op = op]
    BY Zenon, <1>3 DEF FreezeCommand
  <2>2. OnlyMoves(c) /\ th'[c].pc = "freeze" /\ th'[c].op = op
    BY Zenon, <1>0, <2>1, CommandMoves
  <2>3. UNCHANGED <<frozen, epoch, active, marker>>
    BY Zenon, <1>3 DEF FreezeCommand, kernelVars
  <2>4. ~Holding(c)' /\ op \in SnapshotOps \cup {"none", "snap_dog"} /\ op # "prepare"
    BY Zenon, <2>2 DEF Holding, SnapshotOps
  <2>5. /\ th'[c].pc \notin {"arm", "truncate", "write", "thaw"}
        /\ th'[c].pc # "store"
    BY Zenon, <2>2
  <2> QED
    BY Zenon, <1>0, <2>2, <2>3, <2>4, <2>5, CalmKeepsHold
<1>4. CASE EnterStop(c) \/ ExitRead(c) \/ ThawCommand(c)
  <2>1. PICK op \in {"enter", "exit", "thaw", "qga_thaw"} : op \in Ops
    BY Zenon, <1>4 DEF EnterStop, ExitRead, ThawCommand, Begin
  <2> QED
    BY Zenon, <2>1 DEF SnapshotOps
<1> QED
  BY Zenon, <1>1, <1>2, <1>3, <1>4 DEF Request

\* So do the death of the agent and its start.
LEMMA AgentKeepsHold ==
  ASSUME WatchInv, NEW c, Channels = {c}, HoldInv(c), Crash \/ Restart
  PROVE  HoldInv(c)'
<1>0. c \in Threads /\ Boot \in Threads /\ marker = NoMarker
  BY Zenon, ThreadsApart DEF HoldInv, NoCutover
<1>1. CASE Crash
  <2>1. /\ \A t \in Threads : th'[t] = Rest
        /\ marker' = NoMarker /\ active' = NoSnapshot
    BY Zenon, <1>0, <1>1 DEF Crash
  <2>2. NoCutover'
    BY Zenon, <2>1, RestHolds DEF NoCutover
  <2>3. ThawsFit(c)' /\ PrepareFits(c)' /\ ActiveFreezeHolds'
    BY Zenon, <1>0, <2>1, RestHolds DEF ThawsFit, PrepareFits, Holding, ActiveFreezeHolds
  <2> QED
    BY Zenon, <2>2, <2>3 DEF HoldInv
<1>2. CASE Restart
  <2>1. OnlyMoves(Boot) /\ GoesOn(Boot) /\ th'[Boot].pc = "recover"
    BY Zenon, <1>2, RestartStep DEF GoesOn
  <2>2. UNCHANGED <<frozen, epoch, active>> /\ marker' \in {marker, NoMarker}
    BY Zenon, <1>2 DEF Restart, kernelVars
  <2>3. th'[Boot].pc \notin FreezePCs \cup {"truncate", "write", "thaw"}
    BY Zenon, <2>1 DEF FreezePCs
  <2> QED
    BY Zenon, <1>0, <2>1, <2>2, <2>3, AwayKeepsHold
<1> QED
  BY Zenon, <1>1, <1>2

\* Where one channel asks for snapshots and plain freezes only, an active
\* snapshot that prepare reported as frozen has been frozen without a break
\* since: watchdogs that race complete(), lost replies of the helper and deaths
\* of the agent included.
THEOREM SnapshotFreezeHolds ==
  ASSUME NEW c, Channels = {c}, Ops \subseteq SnapshotOps
  PROVE  Spec => []ActiveFreezeHolds
<1>1. Init => HoldInv(c)
  <2> SUFFICES ASSUME Init PROVE HoldInv(c)
    OBVIOUS
  <2>1. c \in Threads /\ \A t \in Threads : th[t] = Rest
    BY Zenon, ThreadsApart DEF Init
  <2>2. NoCutover
    BY Zenon, <2>1, RestHolds DEF Init, NoCutover
  <2>3. ThawsFit(c) /\ PrepareFits(c) /\ ActiveFreezeHolds
    BY Zenon, <2>1, RestHolds DEF Init, ThawsFit, PrepareFits, Holding, ActiveFreezeHolds
  <2> QED
    BY Zenon, <2>2, <2>3 DEF HoldInv
<1>2. WatchInv /\ HoldInv(c) /\ [Next]_vars => HoldInv(c)'
  <2> SUFFICES ASSUME WatchInv, HoldInv(c), [Next]_vars PROVE HoldInv(c)'
    OBVIOUS
  <2>1. CASE Next
    BY Zenon, <2>1, RequestKeepsHold, ThreadKeepsHold, AgentKeepsHold DEF Next
  <2>2. CASE UNCHANGED vars
    <3>1. UNCHANGED <<th, active, marker, frozen, epoch>>
      BY <2>2 DEF vars, kernelVars
    <3> QED
      BY Zenon, <3>1 DEF HoldInv, NoCutover, ThawsFit, PrepareFits, Holding, ActiveFreezeHolds
  <2> QED
    BY Zenon, <2>1, <2>2
<1>3. HoldInv(c) => ActiveFreezeHolds
  BY DEF HoldInv
<1> QED
  BY WatchInvariant, <1>1, <1>2, <1>3, PTL DEF Spec

=============================================================================
