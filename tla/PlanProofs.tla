------------------------------ MODULE PlanProofs ------------------------------
(***************************************************************************)
(* Proofs about plans: the order of the operations, for every finite set of    *)
(* them and every dependency graph, with cycles and unknown ids; the live       *)
(* executor, for every set of files and any number of errors, crashes,          *)
(* rollbacks and applications; and the backups of the offline applicator.       *)
(***************************************************************************)
EXTENDS PlanApply, PlanOffline, FiniteSetTheorems, TLAPS

Done == {sorted[i] : i \in 1 .. Len(sorted)}
Queued == {queue[i] : i \in 1 .. Len(queue)}

OrderType ==
  /\ deps \in [Ops -> SUBSET (Ops \cup {Unknown})]
  /\ degree \in [Ops -> Nat]
  /\ queue \in Seq(Ops) /\ sorted \in Seq(Ops)

\* in_degree counts the dependencies that are not sorted yet.
DegreesCount == \A o \in Ops : degree[o] = Cardinality(deps[o] \ Done)

\* Each operation is queued or sorted once.
EachOnce ==
  /\ \A i, j \in 1 .. Len(queue) : queue[i] = queue[j] => i = j
  /\ \A i, j \in 1 .. Len(sorted) : sorted[i] = sorted[j] => i = j
  /\ Queued \cap Done = {}

\* What is queued or sorted has its dependencies sorted and can run; and once
\* the loop has started nothing else has.
QueuedIsReady ==
  /\ \A o \in Queued \cup Done : deps[o] \subseteq Done /\ o \in Runnable
  /\ phase # "count" => \A o \in Ops : deps[o] \subseteq Done => o \in Queued \cup Done

PhaseFits ==
  /\ phase = "count" => queue = <<>> /\ sorted = <<>>
  /\ phase \notin {"count", "sort"} => queue = <<>>

OrderInv ==
  OrderType /\ DegreesCount /\ EachOnce /\ QueuedIsReady /\ PhaseFits /\ SortRespectsDeps

-----------------------------------------------------------------------------
\* The orders a HashMap may give a finite set hold each element once.
LEMMA SetOrders ==
  ASSUME NEW S, IsFiniteSet(S), NEW s \in Orders(S)
  PROVE  /\ s \in Seq(S)
         /\ \A i, j \in 1 .. Len(s) : s[i] = s[j] => i = j
         /\ \A x \in S : \E i \in 1 .. Len(s) : s[i] = x
<1> DEFINE n == Cardinality(S)
           D == 1 .. n
<1>1. n \in Nat
  BY FS_CardinalityType
<1>2. /\ s \in [D -> S] /\ \A i, j \in D : s[i] = s[j] => i = j
      /\ \A x \in S : \E i \in D : s[i] = x
  BY DEF Orders, Bijection, Injection, IsInjective, Surjection
<1>3. s \in Seq(S) /\ Len(s) = n
  BY <1>1, <1>2
<1> QED
  BY <1>2, <1>3

\* Subsets of a plan's ids are finite.
LEMMA DepsFinite ==
  ASSUME NEW S \in SUBSET (Ops \cup {Unknown})
  PROVE  IsFiniteSet(S) /\ Cardinality(S) \in Nat /\ (Cardinality(S) = 0 <=> S = {})
<1>1. IsFiniteSet(Ops \cup {Unknown})
  BY OrderAssumption, FS_AddElement
<1>2. IsFiniteSet(S)
  BY <1>1, FS_Subset
<1> QED
  BY <1>2, FS_CardinalityType, FS_EmptySet

\* An operation whose dependencies can all run can run.
LEMMA RunnableClosed ==
  ASSUME NEW o \in Ops, deps[o] \subseteq Runnable
  PROVE  o \in Runnable
<1> SUFFICES ASSUME NEW S \in SUBSET Ops, \A p \in Ops : deps[p] \subseteq S => p \in S
             PROVE  o \in S
  BY DEF Runnable
<1>1. Runnable \subseteq S
  BY DEF Runnable
<1> QED
  BY <1>1

\* The first state, and the one a second application starts from.
LEMMA OrderStart == OrderInit => OrderInv
<1> SUFFICES ASSUME OrderInit PROVE OrderInv
  OBVIOUS
<1> USE DEF OrderInit
<1>1. Done = {} /\ Queued = {}
  BY DEF Done, Queued
<1>2. OrderType
  BY DepsFinite DEF OrderType
<1>3. DegreesCount
  <2> SUFFICES ASSUME NEW o \in Ops PROVE degree[o] = Cardinality(deps[o] \ Done)
    BY DEF DegreesCount
  <2>1. deps[o] \ Done = deps[o]
    BY <1>1
  <2> QED
    BY <2>1
<1>4. EachOnce /\ QueuedIsReady
  BY <1>1 DEF EachOnce, QueuedIsReady
<1>5. PhaseFits /\ SortRespectsDeps
  BY DEF PhaseFits, SortRespectsDeps
<1> QED
  BY <1>2, <1>3, <1>4, <1>5 DEF OrderInv

\* The loop is primed with the operations without dependencies.
LEMMA StartSortInv ==
  ASSUME OrderInv, StartSort
  PROVE  OrderInv'
<1> USE DEF OrderInv
<1> DEFINE S == {o \in Ops : degree[o] = 0}
<1>0. /\ queue' \in Orders(S) /\ phase' = "sort" /\ sorted = <<>> /\ queue = <<>>
      /\ UNCHANGED <<deps, degree, sorted>>
  BY DEF StartSort, PhaseFits
<1> HIDE DEF S
<1>1. IsFiniteSet(S) /\ S \subseteq Ops
  BY OrderAssumption, FS_Subset DEF S
<1>2. /\ queue' \in Seq(S) /\ queue' \in Seq(Ops)
      /\ \A i, j \in 1 .. Len(queue') : queue'[i] = queue'[j] => i = j
      /\ \A x \in S : \E i \in 1 .. Len(queue') : queue'[i] = x
  BY <1>0, <1>1, SetOrders
<1>3. Done = {} /\ Done' = {} /\ Queued' = S
  BY <1>0, <1>2 DEF Done, Queued
<1>4. \A o \in Ops : o \in S <=> deps[o] = {}
  <2> TAKE o \in Ops
  <2>1. degree[o] = Cardinality(deps[o]) /\ deps[o] \in SUBSET (Ops \cup {Unknown})
    <3>1. deps[o] \ Done = deps[o]
      BY <1>3
    <3> QED
      BY <3>1 DEF DegreesCount, OrderType
  <2> QED
    BY <2>1, DepsFinite DEF S
<1>5. OrderType' /\ PhaseFits' /\ SortRespectsDeps'
  BY <1>0, <1>2 DEF OrderType, PhaseFits, SortRespectsDeps
<1>6. DegreesCount'
  BY <1>0, <1>3 DEF DegreesCount
<1>7. EachOnce'
  BY <1>0, <1>2, <1>3 DEF EachOnce
<1>8. QueuedIsReady'
  <2>1. Runnable' = Runnable
    BY <1>0 DEF Runnable
  <2>2. \A o \in S : o \in Runnable
    BY <1>1, <1>4, RunnableClosed
  <2> QED
    BY <1>0, <1>1, <1>3, <1>4, <2>1, <2>2 DEF QueuedIsReady
<1> QED
  BY <1>5, <1>6, <1>7, <1>8

\* A round of the loop.
LEMMA PopInv ==
  ASSUME OrderInv, Pop
  PROVE  OrderInv'
<1> USE DEF OrderInv
<1> DEFINE node == Head(queue)
           next == [o \in Ops |-> IF node \in deps[o] THEN degree[o] - 1 ELSE degree[o]]
           S == {o \in Ops : node \in deps[o] /\ next[o] = 0}
<1>0. /\ phase = "sort" /\ phase' = "sort" /\ queue # <<>> /\ deps' = deps
      /\ sorted' = Append(sorted, node) /\ degree' = next
  BY DEF Pop
<1>1. PICK s \in Orders(S) : queue' = Tail(queue) \o s
  BY Zenon DEF Pop
<1>t. /\ queue \in Seq(Ops) /\ sorted \in Seq(Ops)
      /\ deps \in [Ops -> SUBSET (Ops \cup {Unknown})] /\ degree \in [Ops -> Nat]
  BY DEF OrderType
<1> HIDE DEF S, next
<1>2. S \subseteq Ops /\ IsFiniteSet(S)
  BY OrderAssumption, FS_Subset DEF S
<1>3. /\ s \in Seq(S) /\ s \in Seq(Ops)
      /\ \A i, j \in 1 .. Len(s) : s[i] = s[j] => i = j
      /\ \A x \in S : \E i \in 1 .. Len(s) : s[i] = x
  BY <1>2, SetOrders
<1>n. Len(queue) \in Nat /\ Len(queue) >= 1 /\ Len(s) \in Nat /\ Len(sorted) \in Nat
  BY <1>0, <1>t, <1>3
<1>4. /\ queue' \in Seq(Ops) /\ Len(queue') = Len(queue) - 1 + Len(s)
      /\ \A i \in 1 .. Len(queue) - 1 : queue'[i] = queue[i + 1]
      /\ \A i \in 1 .. Len(s) : queue'[Len(queue) - 1 + i] = s[i]
  BY <1>0, <1>1, <1>t, <1>3
<1>5. node = queue[1] /\ node \in Ops /\ node \in Queued /\ node \notin Done
  BY <1>0, <1>t, <1>n DEF Queued, EachOnce
<1>6. /\ sorted' \in Seq(Ops) /\ Len(sorted') = Len(sorted) + 1
      /\ \A i \in 1 .. Len(sorted) : sorted'[i] = sorted[i]
      /\ sorted'[Len(sorted) + 1] = node
  BY <1>0, <1>t, <1>5
<1>7. Done' = Done \cup {node}
  <2>1. ASSUME NEW x \in Done' PROVE x \in Done \cup {node}
    BY <1>6, <1>n DEF Done
  <2>2. ASSUME NEW x \in Done \cup {node} PROVE x \in Done'
    <3>1. CASE x = node
      BY <3>1, <1>6, <1>n DEF Done
    <3>2. ASSUME NEW i \in 1 .. Len(sorted), x = sorted[i] PROVE x \in Done'
      BY <3>2, <1>6, <1>n DEF Done
    <3> QED
      BY <3>1, <3>2 DEF Done
  <2> QED
    BY <2>1, <2>2
<1>8. Queued' = (Queued \ {node}) \cup S
  <2>1. ASSUME NEW x \in Queued' PROVE x \in (Queued \ {node}) \cup S
    <3>1. PICK i \in 1 .. Len(queue') : x = queue'[i]
      BY DEF Queued
    <3>2. CASE i <= Len(queue) - 1
      <4>1. x = queue[i + 1] /\ i + 1 \in 1 .. Len(queue) /\ i + 1 # 1 /\ 1 \in 1 .. Len(queue)
        BY <3>1, <3>2, <1>4, <1>n
      <4> QED
        BY <4>1, <1>5 DEF Queued, EachOnce
    <3>3. CASE i > Len(queue) - 1
      <4> DEFINE k == i - (Len(queue) - 1)
      <4>0. Len(queue') = Len(queue) - 1 + Len(s)
        BY <1>4
      <4>1. k \in 1 .. Len(s) /\ i = Len(queue) - 1 + k
        BY <3>3, <4>0, <1>n
      <4>2. x = s[k]
        BY <3>1, <4>1, <1>4
      <4> QED
        BY <4>1, <4>2, <1>3
    <3> QED
      BY <3>2, <3>3, <1>n
  <2>2. ASSUME NEW x \in Queued, x # node PROVE x \in Queued'
    <3>1. PICK i \in 1 .. Len(queue) : x = queue[i]
      BY DEF Queued
    <3>2. i - 1 \in 1 .. Len(queue) - 1 /\ i - 1 \in 1 .. Len(queue')
      BY <2>2, <3>1, <1>5, <1>4, <1>n
    <3>3. queue'[i - 1] = x
      BY <3>1, <3>2, <1>4
    <3> QED
      BY <3>2, <3>3 DEF Queued
  <2>3. ASSUME NEW x \in S PROVE x \in Queued'
    <3>1. PICK i \in 1 .. Len(s) : s[i] = x
      BY <1>3
    <3>2. Len(queue) - 1 + i \in 1 .. Len(queue') /\ queue'[Len(queue) - 1 + i] = x
      BY <3>1, <1>4, <1>n
    <3> QED
      BY <3>2 DEF Queued
  <2> QED
    BY <2>1, <2>2, <2>3
<1>9. \A o \in Ops : /\ degree'[o] = Cardinality(deps[o] \ Done') /\ degree'[o] \in Nat
                     /\ o \in S <=> node \in deps[o] /\ deps[o] \subseteq Done'
  <2> SUFFICES ASSUME NEW o \in Ops
               PROVE  /\ next[o] = Cardinality(deps[o] \ Done') /\ next[o] \in Nat
                      /\ o \in S <=> node \in deps[o] /\ deps[o] \subseteq Done'
    BY Zenon, <1>0
  <2> DEFINE left == deps[o] \ Done
  <2>1. left \in SUBSET (Ops \cup {Unknown}) /\ degree[o] = Cardinality(left)
    BY <1>t DEF DegreesCount
  <2>2. IsFiniteSet(left) /\ Cardinality(left) \in Nat
    BY <2>1, DepsFinite
  <2>3. next[o] = Cardinality(deps[o] \ Done')
    <3>1. CASE node \in deps[o]
      <4>1. deps[o] \ Done' = left \ {node} /\ node \in left
        BY <3>1, <1>5, <1>7
      <4>2. Cardinality(left \ {node}) = Cardinality(left) - 1
        BY Zenon, <4>1, <2>2, FS_RemoveElement
      <4> QED
        BY <3>1, <4>1, <4>2, <2>1 DEF next
    <3>2. CASE node \notin deps[o]
      <4>1. deps[o] \ Done' = left
        BY <3>2, <1>7
      <4> QED
        BY <3>2, <4>1, <2>1 DEF next
    <3> QED
      BY <3>1, <3>2
  <2>4. deps[o] \ Done' \in SUBSET (Ops \cup {Unknown})
    BY <1>t
  <2>5. Cardinality(deps[o] \ Done') \in Nat /\ (Cardinality(deps[o] \ Done') = 0 <=> deps[o] \ Done' = {})
    BY <2>4, DepsFinite
  <2>6. o \in S <=> node \in deps[o] /\ next[o] = 0
    BY DEF S
  <2> QED
    BY <2>3, <2>5, <2>6
<1>10. \A o \in S : o \notin Queued /\ o \notin Done /\ o # node
  BY Zenon, <1>5, <1>9, <1>2 DEF QueuedIsReady
<1>11. EachOnce'
  <2>1. ASSUME NEW i \in 1 .. Len(queue'), NEW j \in 1 .. Len(queue'), i < j
        PROVE  queue'[i] # queue'[j]
    <3> DEFINE m == Len(queue) - 1
    <3>1. CASE j <= m
      <4>1. /\ i \in 1 .. m /\ j \in 1 .. m
            /\ i + 1 \in 1 .. Len(queue) /\ j + 1 \in 1 .. Len(queue) /\ i + 1 # j + 1
        BY <3>1, <2>1, <1>n
      <4> QED
        BY <4>1, <1>4 DEF EachOnce
    <3>2. CASE i > m
      <4> DEFINE k == i - m
                 l == j - m
      <4>0. Len(queue') = m + Len(s)
        BY <1>4
      <4>1. k \in 1 .. Len(s) /\ l \in 1 .. Len(s) /\ k # l /\ i = m + k /\ j = m + l
        BY <3>2, <2>1, <4>0, <1>n
      <4>2. queue'[i] = s[k] /\ queue'[j] = s[l]
        BY <4>1, <1>4
      <4> QED
        BY Zenon, <4>1, <4>2, <1>3
    <3>3. CASE i <= m /\ j > m
      <4> DEFINE l == j - m
      <4>0. Len(queue') = m + Len(s)
        BY <1>4
      <4>1. i \in 1 .. m /\ i + 1 \in 1 .. Len(queue) /\ l \in 1 .. Len(s) /\ j = m + l
        BY <3>3, <4>0, <1>n
      <4>2. queue'[i] = queue[i + 1] /\ queue'[j] = s[l]
        BY <4>1, <1>4
      <4>3. queue[i + 1] \in Queued
        BY <4>1 DEF Queued
      <4>4. s \in Seq(S)
        BY <1>3
      <4>5. s[l] \in S
        BY <4>1, <4>4
      <4> QED
        BY <4>2, <4>3, <4>5, <1>10
    <3> QED
      BY <3>1, <3>2, <3>3, <2>1, <1>n
  <2>2. \A i, j \in 1 .. Len(queue') : queue'[i] = queue'[j] => i = j
    <3> SUFFICES ASSUME NEW i \in 1 .. Len(queue'), NEW j \in 1 .. Len(queue'), i # j
                 PROVE  queue'[i] # queue'[j]
      OBVIOUS
    <3>1. i < j \/ j < i
      BY <1>4, <1>n
    <3> QED
      BY <2>1, <3>1
  <2>3. \A i, j \in 1 .. Len(sorted') : sorted'[i] = sorted'[j] => i = j
    <3>1. \A i \in 1 .. Len(sorted) : sorted[i] # node
      BY <1>5 DEF Done
    <3>2. \A i \in 1 .. Len(sorted') : i \in 1 .. Len(sorted) \/ i = Len(sorted) + 1
      BY <1>6, <1>n
    <3> QED
      BY <3>1, <3>2, <1>6 DEF EachOnce
  <2>4. Queued' \cap Done' = {}
    BY <1>7, <1>8, <1>10 DEF EachOnce
  <2> QED
    BY <2>2, <2>3, <2>4 DEF EachOnce
<1>12. QueuedIsReady'
  <2>1. Runnable' = Runnable
    BY <1>0 DEF Runnable
  <2>2. Done' \subseteq Runnable /\ Done \subseteq Done'
    BY <1>5, <1>7 DEF QueuedIsReady
  <2>3. \A o \in S : deps[o] \subseteq Done' /\ o \in Runnable
    BY Zenon, <1>2, <1>9, <2>2, RunnableClosed
  <2>4. \A o \in Queued' \cup Done' : deps[o] \subseteq Done' /\ o \in Runnable
    BY <1>5, <1>7, <1>8, <2>2, <2>3 DEF QueuedIsReady
  <2>5. ASSUME NEW o \in Ops, deps[o] \subseteq Done' PROVE o \in Queued' \cup Done'
    <3>1. CASE node \in deps[o]
      BY Zenon, <3>1, <2>5, <1>8, <1>9
    <3>2. CASE node \notin deps[o]
      <4>1. o \in Queued \cup Done
        BY <3>2, <2>5, <1>7, <1>0 DEF QueuedIsReady
      <4> QED
        BY <4>1, <1>7, <1>8
    <3> QED
      BY <3>1, <3>2
  <2> QED
    BY <1>0, <2>1, <2>4, <2>5 DEF QueuedIsReady
<1>13. SortRespectsDeps'
  <2> SUFFICES ASSUME NEW i \in 1 .. Len(sorted) + 1, NEW d \in deps[sorted'[i]]
               PROVE  \E j \in 1 .. i - 1 : sorted'[j] = d
    BY <1>0, <1>6 DEF SortRespectsDeps
  <2>1. CASE i <= Len(sorted)
    <3>1. i \in 1 .. Len(sorted) /\ sorted'[i] = sorted[i]
      BY <2>1, <1>6, <1>n
    <3>2. PICK j \in 1 .. i - 1 : sorted[j] = d
      BY <3>1 DEF SortRespectsDeps
    <3> QED
      BY <3>1, <3>2, <1>6, <1>n
  <2>2. CASE i = Len(sorted) + 1
    <3>1. d \in Done
      BY <2>2, <1>5, <1>6 DEF QueuedIsReady
    <3>2. PICK j \in 1 .. Len(sorted) : sorted[j] = d
      BY <3>1 DEF Done
    <3> QED
      BY <2>2, <3>2, <1>6, <1>n
  <2> QED
    BY <2>1, <2>2, <1>n
<1>14. OrderType' /\ PhaseFits' /\ DegreesCount'
  BY Zenon, <1>0, <1>t, <1>4, <1>6, <1>9 DEF OrderType, PhaseFits, DegreesCount, next
<1> QED
  BY <1>11, <1>12, <1>13, <1>14

\* When the queue is empty, the sorted operations are those that can run.
LEMMA EmptyQueueIsComplete ==
  ASSUME OrderInv, queue = <<>>, phase # "count"
  PROVE  Range(sorted) = Runnable /\ Len(sorted) = Cardinality(Runnable)
<1> USE DEF OrderInv
<1>1. sorted \in Seq(Ops) /\ Len(sorted) \in Nat /\ DOMAIN sorted = 1 .. Len(sorted)
  BY DEF OrderType
<1>2. Queued = {} /\ Range(sorted) = Done /\ Done \in SUBSET Ops
  BY <1>1 DEF Queued, Done, Range
<1>3. Runnable \subseteq Done
  BY <1>2 DEF QueuedIsReady, Runnable
<1>4. Done \subseteq Runnable
  BY DEF QueuedIsReady
<1>5. Cardinality(Done) = Len(sorted)
  <2>1. sorted \in [1 .. Len(sorted) -> Done]
    <3>1. \A i \in 1 .. Len(sorted) : sorted[i] \in Done
      BY DEF Done
    <3>2. sorted = [i \in 1 .. Len(sorted) |-> sorted[i]]
      BY <1>1
    <3> QED
      BY <3>1, <3>2
  <2>2. sorted \in Bijection(1 .. Len(sorted), Done)
    BY <2>1 DEF EachOnce, Done, Bijection, Injection, IsInjective, Surjection
  <2>3. IsFiniteSet(1 .. Len(sorted)) /\ Cardinality(1 .. Len(sorted)) = Len(sorted)
    <3>1. Cardinality(1 .. Len(sorted)) = IF 1 > Len(sorted) THEN 0 ELSE Len(sorted) - 1 + 1
      BY <1>1, FS_Interval
    <3>2. 1 \in Int /\ Len(sorted) \in Int
      BY <1>1
    <3>3. IsFiniteSet(1 .. Len(sorted))
      BY <3>2, FS_Interval
    <3> QED
      BY <1>1, <3>1, <3>3
  <2>4. ExistsBijection(1 .. Len(sorted), Done)
    BY <2>2 DEF ExistsBijection
  <2> QED
    BY <2>3, <2>4, FS_Bijection
<1>6. Done = Runnable
  BY Zenon, <1>3, <1>4
<1> QED
  BY <1>2, <1>5, <1>6

\* A step that leaves the sort alone, in a phase behind it.
LEMMA OrderStill ==
  ASSUME OrderInv, UNCHANGED <<deps, degree, queue, sorted>>,
         phase' # "count", phase # "count",
         phase' = "sort" \/ queue = <<>>
  PROVE  OrderInv'
<1>1. Done' = Done /\ Queued' = Queued /\ Runnable' = Runnable
  BY DEF Done, Queued, Runnable
<1>2. OrderType'
  BY DEF OrderInv, OrderType
<1>5. DegreesCount'
  <2>1. \A o \in Ops : degree'[o] = degree[o] /\ deps'[o] \ Done' = deps[o] \ Done
    BY <1>1
  <2> QED
    BY <2>1 DEF OrderInv, DegreesCount
<1>3. EachOnce' /\ SortRespectsDeps'
  BY <1>1 DEF OrderInv, EachOnce, SortRespectsDeps
<1>4. QueuedIsReady' /\ PhaseFits'
  BY <1>1 DEF OrderInv, QueuedIsReady, PhaseFits
<1> QED
  BY <1>2, <1>3, <1>4, <1>5 DEF OrderInv

-----------------------------------------------------------------------------
\* The live executor.

Statuses == {"none", "applied", "skipped", "failed", "rolled_back", "not_reached"}

ApplyType ==
  /\ kind \in [Ops -> Kinds] /\ file \in [Ops -> Files] /\ backupName \in [Files -> Files]
  /\ content \in [Files -> Contents] /\ backup \in [Files -> Contents]
  /\ manifest \in SUBSET Files
  /\ pos \in Nat \ {0} /\ inner \in {"begin", "copied", "ready"}
  /\ status \in [Ops -> Statuses]
  /\ applies \in Nat \ {0}
  /\ phase \in {"count", "sort", "run", "rollback", "post", "end", "down"}

\* Before the loop over the operations nothing has begun, and a rollback that
\* ended belongs to an application that has ended.
BeforeRun ==
  /\ phase \in {"count", "sort"} => pos = 1 /\ inner = "begin" /\ \A o \in Ops : status[o] = "none"
  /\ rolledBack => phase \in {"end", "down"}

\* A snapshot is made for an operation that takes one; a file whose snapshot is
\* complete is listed, and a torn manifest lists none.
SnapshotListed ==
  /\ Running /\ inner # "begin" => Snapshots(Current)
  /\ Running /\ inner = "ready" => Target \in manifest
  /\ torn => manifest = {}

\* A file that differs from its original is listed, or no snapshot was due.
ChangesAreListed ==
  \A f \in Files : initial[f] = f /\ content[f] # f =>
    f \in manifest \/ torn \/ \E o \in Ops : kind[o] = "link" /\ file[o] = f

ApplyInv == OrderInv /\ ApplyType /\ BeforeRun /\ SnapshotListed /\ ChangesAreListed

-----------------------------------------------------------------------------
\* The first state.
LEMMA ApplyInitInv == Init => ApplyInv
<1> SUFFICES ASSUME Init PROVE ApplyInv
  OBVIOUS
<1>1. OrderInv
  BY OrderStart DEF Init
<1>2. ApplyType
  BY DEF Init, OrderInit, ApplyType, Contents, Marks, Statuses
<1>3. BeforeRun
  BY DEF Init, OrderInit, BeforeRun
<1>4. SnapshotListed
  BY DEF Init, OrderInit, SnapshotListed, Running
<1>5. ChangesAreListed
  BY DEF Init, ChangesAreListed
<1> QED
  BY <1>1, <1>2, <1>3, <1>4, <1>5 DEF ApplyInv

\* While the loop runs its position is one of a sorted operation.
LEMMA CurrentType ==
  ASSUME ApplyInv, Running
  PROVE  /\ Current \in Ops /\ Target \in Files /\ pos \in 1 .. Len(sorted)
         /\ phase = "run" /\ queue = <<>>
<1>1. sorted \in Seq(Ops) /\ Len(sorted) \in Nat /\ pos \in Nat \ {0} /\ file \in [Ops -> Files]
  BY DEF ApplyInv, OrderInv, OrderType, ApplyType
<1>2. pos \in 1 .. Len(sorted) /\ phase = "run"
  BY <1>1 DEF Running
<1>3. queue = <<>>
  BY <1>2 DEF ApplyInv, OrderInv, PhaseFits
<1> QED
  BY <1>1, <1>2, <1>3 DEF Current, Target

\* What a change, whole or cut off, does to the files: it touches only the file
\* of its operation, and that one only if it is listed, was created by the plan,
\* or is of an operation without snapshot.
LEMMA ChangeTouches ==
  ASSUME ApplyInv, Running, Ready, NEW c \in Written \cup CutOff
  PROVE  /\ c \in [Files -> Contents]
         /\ \A f \in Files : c[f] # content[f] =>
              /\ f = Target /\ kind[Current] \notin {"command", "registry"}
              /\ (f \in manifest /\ ~torn) \/ kind[Current] = "link" \/ ~Exists(f)
<1>1. /\ Current \in Ops /\ Target \in Files
      /\ content \in [Files -> Contents]
  BY CurrentType DEF ApplyInv, ApplyType
<1>2. /\ c \in [Files -> Contents]
      /\ \A f \in Files : c[f] # content[f] => f = Target /\ kind[Current] # "command"
  <2>1. CASE kind[Current] = "command"
    BY <1>1, <2>1 DEF Written, CutOff
  <2>2. {Current, "absent", "dangling", "partial"} \subseteq Contents
    BY <1>1 DEF Contents, Marks
  <2>3. CASE kind[Current] # "command"
    <3>1. \E x \in {Current, "absent", "dangling", "partial", content[Target]} :
            c = [content EXCEPT ![Target] = x]
      <4>1. content = [content EXCEPT ![Target] = content[Target]]
        BY <1>1
      <4> QED
        BY Zenon, <2>3, <4>1 DEF Written, CutOff, Become
    <3> QED
      BY <1>1, <2>2, <2>3, <3>1
  <2> QED
    BY Zenon, <2>1, <2>3
<1>3. \/ Target \in manifest /\ ~torn
      \/ kind[Current] \in {"link", "command"}
      \/ ~Exists(Target)
  BY DEF Ready, ApplyInv, SnapshotListed, Exists
<1>4. kind[Current] # "registry"
  BY DEF Ready, ApplyInv, SnapshotListed, Snapshots, ApplyType
<1> QED
  BY <1>2, <1>3, <1>4

\* The bookkeeping of an outcome.
LEMMA FinishType ==
  ASSUME ApplyInv, Running, NEW r \in Statuses, Finish(r)
  PROVE  pos' \in Nat \ {0} /\ inner' = "begin" /\ status' \in [Ops -> Statuses]
<1>1. Current \in Ops /\ pos \in Nat \ {0} /\ Len(sorted) \in Nat /\ status \in [Ops -> Statuses]
  BY CurrentType DEF ApplyInv, ApplyType, OrderInv, OrderType
<1>2. inner' = "begin"
  BY DEF Finish
<1>3. pos' \in {Len(sorted) + 1, pos + 1}
  BY DEF Finish
<1>4. status' \in [Ops -> Statuses]
  <2>1. "not_reached" \in Statuses
    BY DEF Statuses
  <2> QED
    BY <1>1, <2>1 DEF Finish
<1> QED
  BY <1>1, <1>2, <1>3, <1>4

\* A step of the loop keeps the invariant if it keeps the two facts about files.
LEMMA LoopStep ==
  ASSUME ApplyInv, Running, UNCHANGED runStill,
         pos' \in Nat \ {0}, inner' \in {"begin", "copied", "ready"},
         status' \in [Ops -> Statuses],
         content' \in [Files -> Contents], backup' \in [Files -> Contents],
         manifest' \in SUBSET Files, SnapshotListed', ChangesAreListed'
  PROVE  ApplyInv'
<1>1. /\ UNCHANGED <<deps, degree, queue, sorted, phase>> /\ UNCHANGED <<kind, file, backupName, applies, rolledBack>>
      /\ phase = "run" /\ queue = <<>>
  BY CurrentType DEF runStill, orderVars, planVars
<1>2. OrderInv'
  BY <1>1, OrderStill DEF ApplyInv
<1>3. ApplyType'
  BY <1>1 DEF ApplyInv, ApplyType
<1>4. BeforeRun'
  BY <1>1 DEF ApplyInv, BeforeRun
<1> QED
  BY <1>2, <1>3, <1>4 DEF ApplyInv

\* Operations that end without a change of the disk.
LEMMA NoChangeInv ==
  ASSUME ApplyInv, Running, UNCHANGED runStill, UNCHANGED diskVars,
         NEW r \in Statuses, Finish(r)
  PROVE  ApplyInv'
<1>1. UNCHANGED <<content, backup, manifest, torn, initial, kind, file>>
  BY DEF diskVars, runStill, planVars
<1>2. ChangesAreListed'
  BY <1>1 DEF ApplyInv, ChangesAreListed
<1>3. pos' \in Nat \ {0} /\ inner' = "begin" /\ status' \in [Ops -> Statuses]
  BY FinishType
<1>4. SnapshotListed'
  BY <1>1, <1>3 DEF ApplyInv, SnapshotListed
<1>5. content' \in [Files -> Contents] /\ backup' \in [Files -> Contents] /\ manifest' \in SUBSET Files
  BY <1>1 DEF ApplyInv, ApplyType
<1> QED
  BY <1>2, <1>3, <1>4, <1>5, LoopStep

\* snapshot_file: the copy.
LEMMA SnapshotCopyInv ==
  ASSUME ApplyInv, SnapshotCopy
  PROVE  ApplyInv'
<1>0. Running /\ UNCHANGED runStill /\ UNCHANGED <<content, manifest, torn>>
  BY DEF SnapshotCopy, Copying
<1>1. UNCHANGED <<initial, kind, file, backupName>>
  BY <1>0 DEF runStill, planVars
<1>2. ChangesAreListed'
  BY <1>0, <1>1 DEF ApplyInv, ChangesAreListed
<1>3. /\ pos' \in Nat \ {0} /\ inner' \in {"begin", "copied"} /\ status' \in [Ops -> Statuses]
  <2>1. CASE inner' = "copied" /\ UNCHANGED <<pos, status>>
    BY <2>1 DEF ApplyInv, ApplyType
  <2>2. CASE Finish("failed")
    BY <1>0, <2>2, FinishType DEF Statuses
  <2> QED
    BY <2>1, <2>2 DEF SnapshotCopy
<1>4. SnapshotListed'
  <2>1. inner' = "copied" => UNCHANGED <<pos, sorted, phase, kind>> /\ Snapshots(Current)
    BY <1>0 DEF SnapshotCopy, Copying, Finish, runStill, orderVars, planVars
  <2> QED
    BY <1>0, <1>3, <2>1 DEF ApplyInv, SnapshotListed, Running, Current, Snapshots
<1>5. backup' \in [Files -> Contents]
  <2>1. Target \in Files /\ content[Target] \in Contents /\ "partial" \in Contents
    BY <1>0, CurrentType DEF ApplyInv, ApplyType, Contents, Marks
  <2> QED
    BY <2>1 DEF SnapshotCopy, ApplyInv, ApplyType
<1>6. content' \in [Files -> Contents] /\ manifest' \in SUBSET Files
  BY <1>0 DEF ApplyInv, ApplyType
<1> QED
  BY <1>0, <1>2, <1>3, <1>4, <1>5, <1>6, LoopStep

\* snapshot_file: the entry in the manifest.
LEMMA SnapshotEntryInv ==
  ASSUME ApplyInv, SnapshotEntry
  PROVE  ApplyInv'
<1>0. Running /\ UNCHANGED runStill /\ UNCHANGED <<content, backup>>
  BY DEF SnapshotEntry
<1>1. /\ UNCHANGED <<initial, kind, file, sorted, phase>> /\ Target \in Files
  BY <1>0, CurrentType DEF runStill, planVars, orderVars
<1>2. \/ UNCHANGED <<manifest, torn>> /\ Finish("failed")
      \/ /\ manifest' = manifest \cup {Target} /\ ~torn /\ UNCHANGED torn
         /\ inner' = "ready" /\ UNCHANGED <<pos, status>>
      \/ manifest' = {} /\ torn' = TRUE /\ Finish("failed")
  BY DEF SnapshotEntry
<1>3. ChangesAreListed'
  BY <1>0, <1>1, <1>2 DEF ApplyInv, ChangesAreListed
<1>4. Finish("failed") => pos' \in Nat \ {0} /\ inner' = "begin" /\ status' \in [Ops -> Statuses]
  BY <1>0, FinishType DEF Statuses
<1>5. /\ pos' \in Nat \ {0} /\ inner' \in {"begin", "ready"} /\ status' \in [Ops -> Statuses]
      /\ manifest' \in SUBSET Files
  BY Zenon, <1>1, <1>2, <1>4 DEF ApplyInv, ApplyType
<1>6. SnapshotListed'
  <2>1. inner = "copied"
    BY Zenon DEF SnapshotEntry
  <2> QED
    BY <1>0, <1>1, <1>2, <1>4, <2>1 DEF ApplyInv, SnapshotListed, Running, Target, Current, Snapshots
<1>7. content' \in [Files -> Contents] /\ backup' \in [Files -> Contents]
  BY Zenon, <1>0 DEF ApplyInv, ApplyType
<1> QED
  BY <1>0, <1>3, <1>5, <1>6, <1>7, LoopStep

\* The files that a change touches stay accounted for.
LEMMA ChangeListed ==
  ASSUME ApplyInv, Running, Ready, content' \in {content} \cup Written \cup CutOff,
         UNCHANGED <<initial, kind, file>>,
         UNCHANGED <<manifest, torn>> \/ torn'
  PROVE  ChangesAreListed'
<1> SUFFICES ASSUME NEW f \in Files, initial[f] = f, content'[f] # f, ~torn'
             PROVE  f \in manifest \/ \E o \in Ops : kind[o] = "link" /\ file[o] = f
  BY DEF ChangesAreListed
<1>1. CASE content[f] # f
  BY <1>1 DEF ApplyInv, ChangesAreListed
<1>2. CASE content[f] = f
  <2>1. content'[f] # content[f] /\ content' \in Written \cup CutOff /\ Exists(f)
    BY <1>2, FilesAssumption DEF Exists, Marks
  <2>2. f = Target /\ (f \in manifest \/ kind[Current] = "link")
    BY <1>2, <2>1, ChangeTouches
  <2> QED
    BY <2>2, CurrentType DEF Target
<1> QED
  BY <1>1, <1>2

\* The change itself.
LEMMA ChangeInv ==
  ASSUME ApplyInv, Change
  PROVE  ApplyInv'
<1>0. /\ Running /\ Ready /\ UNCHANGED runStill /\ UNCHANGED <<backup, manifest, torn>>
      /\ content' \in Written \cup CutOff /\ \E r \in {"applied", "failed"} : Finish(r)
  BY DEF Change
<1>1. UNCHANGED <<initial, kind, file, backupName>>
  BY <1>0 DEF runStill, planVars
<1>2. ChangesAreListed'
  BY <1>0, <1>1, ChangeListed
<1>3. pos' \in Nat \ {0} /\ inner' = "begin" /\ status' \in [Ops -> Statuses]
  BY <1>0, FinishType DEF Statuses
<1>4. SnapshotListed'
  BY <1>0, <1>3 DEF ApplyInv, SnapshotListed
<1>5. content' \in [Files -> Contents]
  BY <1>0, ChangeTouches
<1>6. backup' \in [Files -> Contents] /\ manifest' \in SUBSET Files
  BY <1>0 DEF ApplyInv, ApplyType
<1> QED
  BY <1>0, <1>2, <1>3, <1>4, <1>5, <1>6, LoopStep

\* Copying back, whole or broken off, touches listed files only.
LEMMA RestoredTouches ==
  ASSUME ApplyInv, NEW c \in {Restored(manifest)} \cup HalfRestored
  PROVE  /\ c \in [Files -> Contents]
         /\ \A f \in Files : c[f] # content[f] => f \in manifest
<1>1. /\ content \in [Files -> Contents] /\ backup \in [Files -> Contents]
      /\ backupName \in [Files -> Files] /\ manifest \in SUBSET Files /\ "partial" \in Contents
  BY DEF ApplyInv, ApplyType, Contents, Marks
<1>2. \A S \in SUBSET manifest :
        /\ Restored(S) \in [Files -> Contents]
        /\ \A f \in Files : Restored(S)[f] # content[f] => f \in S
  BY <1>1 DEF Restored
<1>3. ASSUME NEW S \in SUBSET manifest, NEW g \in manifest, c = [Restored(S) EXCEPT ![g] = "partial"]
      PROVE  /\ c \in [Files -> Contents]
             /\ \A f \in Files : c[f] # content[f] => f \in manifest
  BY <1>1, <1>2, <1>3
<1> QED
  BY <1>2, <1>3 DEF HalfRestored

\* A rollback touches listed files only.
LEMMA RestoreTouches ==
  ASSUME ApplyInv, Restore
  PROVE  /\ content' \in [Files -> Contents]
         /\ \A f \in Files : content'[f] # content[f] => f \in manifest /\ ~torn
<1>1. CASE torn /\ UNCHANGED content
  BY <1>1 DEF ApplyInv, ApplyType
<1>2. CASE ~torn /\ content' \in {Restored(manifest)} \cup HalfRestored
  BY Zenon, <1>2, RestoredTouches
<1> QED
  BY Zenon, <1>1, <1>2 DEF Restore

\* A step outside the loop: the sort, what comes after the loop, a rollback.
LEMMA OutsideStep ==
  ASSUME ApplyInv, OrderInv', BeforeRun',
         UNCHANGED planVars, UNCHANGED <<backup, manifest, torn, inner>>,
         phase' = "run" => inner = "begin",
         phase' \in {"count", "sort", "run", "rollback", "post", "end", "down"},
         pos' \in Nat \ {0}, status' \in [Ops -> Statuses], applies' \in Nat \ {0},
         content' \in [Files -> Contents],
         \A f \in Files : content'[f] # content[f] => f \in manifest /\ ~torn
  PROVE  ApplyInv'
<1>1. UNCHANGED <<kind, file, initial, backupName>>
  BY DEF planVars
<1>2. ApplyType'
  BY <1>1 DEF ApplyInv, ApplyType
<1>3. SnapshotListed'
  BY DEF ApplyInv, SnapshotListed, Running
<1>4. ChangesAreListed'
  BY <1>1 DEF ApplyInv, ChangesAreListed
<1> QED
  BY <1>2, <1>3, <1>4 DEF ApplyInv

\* The sort inside the executor.
LEMMA SortInv ==
  ASSUME ApplyInv, StartSort \/ Pop, UNCHANGED sortStill
  PROVE  ApplyInv'
<1>0. /\ phase \in {"count", "sort"} /\ phase' = "sort"
      /\ UNCHANGED planVars
      /\ UNCHANGED <<content, backup, manifest, torn, pos, inner, status, rolledBack, applies>>
  BY DEF StartSort, Pop, sortStill, diskVars
<1>1. OrderInv'
  BY StartSortInv, PopInv DEF ApplyInv
<1>2. BeforeRun'
  BY <1>0 DEF ApplyInv, BeforeRun
<1>3. /\ pos' \in Nat \ {0} /\ status' \in [Ops -> Statuses] /\ applies' \in Nat \ {0}
      /\ content' \in [Files -> Contents]
  BY <1>0 DEF ApplyInv, ApplyType
<1> QED
  BY <1>0, <1>1, <1>2, <1>3, OutsideStep

\* From one phase to the next, with or without a rollback.
LEMMA PhaseInv ==
  ASSUME ApplyInv, StartRun \/ EndRun \/ AutoRollback \/ PostApply \/ RollbackRequest
  PROVE  ApplyInv'
<1>0. /\ UNCHANGED <<deps, degree, queue, sorted>> /\ UNCHANGED planVars
      /\ UNCHANGED <<backup, manifest, torn, inner, pos, applies>>
      /\ phase \notin {"count"} /\ phase' \notin {"count", "sort"}
      /\ phase' \in {"run", "rollback", "post", "end", "down"}
      /\ queue = <<>>
  <2>1. CASE StartRun
    BY Zenon, <2>1 DEF StartRun, orderVars, diskVars
  <2>2. CASE EndRun \/ PostApply
    BY ZenonT(40), <2>2 DEF EndRun, PostApply, orderVars, diskVars, ApplyInv, OrderInv, PhaseFits
  <2>3. CASE AutoRollback \/ RollbackRequest
    BY <2>3 DEF AutoRollback, RollbackRequest, orderVars, ApplyInv, OrderInv, PhaseFits
  <2> QED
    BY <2>1, <2>2, <2>3
<1>1. OrderInv'
  BY Zenon, <1>0, OrderStill DEF ApplyInv
<1>2. phase' = "run" => phase = "sort" /\ UNCHANGED rolledBack
  BY DEF StartRun, EndRun, AutoRollback, PostApply, RollbackRequest
<1>3. BeforeRun'
  <2>1. CASE StartRun
    BY Zenon, <2>1, <1>0 DEF StartRun, ApplyInv, BeforeRun
  <2>2. CASE EndRun \/ PostApply
    BY <2>2, <1>0 DEF EndRun, PostApply, ApplyInv, BeforeRun
  <2>3. CASE AutoRollback \/ RollbackRequest
    BY <2>3, <1>0 DEF AutoRollback, RollbackRequest, BeforeRun
  <2> QED
    BY <2>1, <2>2, <2>3
<1>4. status' \in [Ops -> Statuses]
  <2>1. CASE AutoRollback
    <3>1. "rolled_back" \in Statuses /\ status \in [Ops -> Statuses]
      BY Zenon DEF Statuses, ApplyInv, ApplyType
    <3> QED
      BY <2>1, <3>1 DEF AutoRollback
  <2>2. CASE ~AutoRollback
    BY Zenon, <2>2 DEF StartRun, EndRun, PostApply, RollbackRequest, ApplyInv, ApplyType
  <2> QED
    BY <2>1, <2>2
<1>5. /\ content' \in [Files -> Contents]
      /\ \A f \in Files : content'[f] # content[f] => f \in manifest /\ ~torn
  <2>1. CASE AutoRollback \/ RollbackRequest
    BY ZenonT(40), <2>1, RestoreTouches DEF AutoRollback, RollbackRequest
  <2>2. CASE StartRun \/ EndRun \/ PostApply
    BY <2>2 DEF StartRun, EndRun, PostApply, diskVars, ApplyInv, ApplyType
  <2> QED
    BY <2>1, <2>2
<1>6. phase' = "run" => inner = "begin"
  BY <1>2 DEF ApplyInv, BeforeRun
<1>7. pos' \in Nat \ {0} /\ applies' \in Nat \ {0}
  BY <1>0 DEF ApplyInv, ApplyType
<1> QED
  BY <1>0, <1>1, <1>3, <1>4, <1>5, <1>6, <1>7, OutsideStep

\* The agent dies: what it leaves on the disk.
LEMMA CrashDisk ==
  ASSUME ApplyInv, Crash
  PROVE  \/ UNCHANGED <<content, backup, manifest, torn>>
         \/ Copying /\ backup' = [backup EXCEPT ![Slot] = "partial"] /\ UNCHANGED <<content, manifest, torn>>
         \/ manifest' = {} /\ torn' = TRUE /\ UNCHANGED <<content, backup>>
         \/ Running /\ Ready /\ content' \in CutOff /\ UNCHANGED <<backup, manifest, torn>>
         \/ ~torn /\ content' \in HalfRestored /\ UNCHANGED <<backup, manifest, torn>>
  BY Zenon DEF Crash, diskVars

\* The agent dies.
LEMMA CrashInv ==
  ASSUME ApplyInv, Crash
  PROVE  ApplyInv'
<1>0. /\ UNCHANGED <<deps, degree, queue, sorted>> /\ UNCHANGED <<kind, file, initial, backupName>>
      /\ UNCHANGED <<inner, pos, status, rolledBack, applies>>
      /\ phase \in {"run", "rollback", "post"} /\ phase' = "down"
  BY Zenon DEF Crash, orderVars, planVars
<1>1. OrderInv'
  BY <1>0, OrderStill DEF ApplyInv, OrderInv, PhaseFits
<1>2. UNCHANGED <<manifest, torn>> \/ (manifest' = {} /\ torn' = TRUE)
  BY Zenon, CrashDisk
<1>3. /\ content' \in [Files -> Contents] /\ backup' \in [Files -> Contents]
      /\ ChangesAreListed'
  <2>0. content \in [Files -> Contents] /\ backup \in [Files -> Contents] /\ ChangesAreListed
    BY Zenon DEF ApplyInv, ApplyType
  <2>1. CASE UNCHANGED <<content, backup>>
    <3>1. ChangesAreListed'
      <4> SUFFICES ASSUME NEW f \in Files, initial'[f] = f, content'[f] # f, ~torn'
                   PROVE  f \in manifest' \/ \E o \in Ops : kind'[o] = "link" /\ file'[o] = f
        BY Zenon DEF ChangesAreListed
      <4>1. manifest' = manifest /\ ~torn
        BY <1>2
      <4>2. initial[f] = f /\ content[f] # f
        BY Zenon, <1>0, <2>1
      <4>3. f \in manifest \/ \E o \in Ops : kind[o] = "link" /\ file[o] = f
        BY Zenon, <2>0, <4>1, <4>2 DEF ChangesAreListed
      <4> QED
        BY Zenon, <1>0, <4>1, <4>3
    <3> QED
      BY Zenon, <2>0, <2>1, <3>1
  <2>2. CASE Copying /\ backup' = [backup EXCEPT ![Slot] = "partial"] /\ UNCHANGED <<content, manifest, torn>>
    <3>1. "partial" \in Contents
      BY DEF Contents, Marks
    <3> QED
      BY <2>0, <2>2, <3>1, <1>0 DEF ChangesAreListed
  <2>3. CASE Running /\ Ready /\ content' \in CutOff /\ UNCHANGED <<backup, manifest, torn>>
    <3>1. content' \in Written \cup CutOff /\ content' \in {content} \cup Written \cup CutOff
      BY Zenon, <2>3
    <3> QED
      BY Zenon, <2>0, <2>3, <3>1, <1>0, ChangeTouches, ChangeListed
  <2>4. CASE ~torn /\ content' \in HalfRestored /\ UNCHANGED <<backup, manifest, torn>>
    <3>1. /\ content' \in [Files -> Contents]
          /\ \A f \in Files : content'[f] # content[f] => f \in manifest
      BY Zenon, <2>4, RestoredTouches
    <3> QED
      BY <2>0, <2>4, <3>1, <1>0 DEF ChangesAreListed
  <2> QED
    BY Zenon, CrashDisk, <2>1, <2>2, <2>3, <2>4
<1>5. ApplyType'
  BY <1>0, <1>2, <1>3 DEF ApplyInv, ApplyType
<1>6. BeforeRun' /\ SnapshotListed'
  BY <1>0, <1>2 DEF ApplyInv, BeforeRun, SnapshotListed, Running
<1> QED
  BY <1>1, <1>3, <1>5, <1>6 DEF ApplyInv

\* The plan again.
LEMMA ReapplyInv ==
  ASSUME ApplyInv, Reapply
  PROVE  ApplyInv'
<1>0. /\ UNCHANGED deps /\ UNCHANGED <<kind, file, initial, backupName>>
      /\ UNCHANGED <<content, backup, manifest, torn>>
      /\ degree' = [o \in Ops |-> Cardinality(deps[o])]
      /\ queue' = <<>> /\ sorted' = <<>> /\ phase' = "count"
      /\ pos' = 1 /\ inner' = "begin" /\ status' = [o \in Ops |-> "none"]
      /\ rolledBack' = FALSE /\ applies' = applies + 1
  BY DEF Reapply, planVars, diskVars
<1>1. OrderInv'
  <2>1. OrderInit'
    BY <1>0 DEF ApplyInv, OrderInv, OrderType, OrderInit
  <2>2. (OrderInit => OrderInv)'
    BY OrderStart, PTL
  <2> QED
    BY <2>1, <2>2
<1>2. ApplyType'
  BY <1>0 DEF ApplyInv, ApplyType, Statuses
<1>3. BeforeRun' /\ SnapshotListed' /\ ChangesAreListed'
  BY <1>0 DEF ApplyInv, BeforeRun, SnapshotListed, ChangesAreListed, Running
<1> QED
  BY <1>1, <1>2, <1>3 DEF ApplyInv

\* Every step of the executor keeps the invariant.
LEMMA ApplyInvStep == ApplyInv /\ [Next]_vars => ApplyInv'
<1> SUFFICES ASSUME ApplyInv, [Next]_vars PROVE ApplyInv'
  OBVIOUS
<1>1. CASE (StartSort \/ Pop) /\ UNCHANGED sortStill
  BY <1>1, SortInv
<1>2. CASE StartRun \/ EndRun \/ AutoRollback \/ PostApply \/ RollbackRequest
  BY <1>2, PhaseInv
<1>3. CASE Missing \/ Skip \/ OpFails
  <2>1. /\ Running /\ UNCHANGED runStill /\ UNCHANGED diskVars
        /\ Finish("applied") \/ Finish("failed") \/ Finish("skipped")
    BY <1>3 DEF Missing, Skip, OpFails
  <2> QED
    BY <2>1, NoChangeInv DEF Statuses
<1>4. CASE SnapshotCopy
  BY <1>4, SnapshotCopyInv
<1>5. CASE SnapshotEntry
  BY <1>5, SnapshotEntryInv
<1>6. CASE Change
  BY <1>6, ChangeInv
<1>7. CASE Crash
  BY <1>7, CrashInv
<1>8. CASE Reapply
  BY <1>8, ReapplyInv
<1>9. CASE UNCHANGED vars
  <2>1. /\ UNCHANGED <<deps, degree, queue, sorted, phase>>
        /\ UNCHANGED <<kind, file, initial, backupName, content, backup, manifest, torn>>
        /\ UNCHANGED <<pos, inner, status, rolledBack, applies>>
    BY <1>9 DEF vars, orderVars, planVars, diskVars
  <2>2. OrderInv'
    <3>1. Done' = Done /\ Queued' = Queued /\ Runnable' = Runnable
      BY Zenon, <2>1 DEF Done, Queued, Runnable
    <3>2. OrderType' /\ EachOnce' /\ SortRespectsDeps' /\ QueuedIsReady' /\ PhaseFits'
      BY <2>1, <3>1 DEF ApplyInv, OrderInv, OrderType, EachOnce, SortRespectsDeps, QueuedIsReady,
                        PhaseFits
    <3>3. DegreesCount'
      <4>1. \A o \in Ops : degree'[o] = degree[o] /\ deps'[o] \ Done' = deps[o] \ Done
        BY <2>1, <3>1
      <4> QED
        BY Zenon, <4>1 DEF ApplyInv, OrderInv, DegreesCount
    <3> QED
      BY Zenon, <3>2, <3>3 DEF OrderInv
  <2>3. ApplyType' /\ BeforeRun'
    BY ZenonT(40), <2>1 DEF ApplyInv, ApplyType, BeforeRun
  <2>4. SnapshotListed' /\ ChangesAreListed'
    BY Zenon, <2>1 DEF ApplyInv, SnapshotListed, Running, Target, Current, Snapshots,
                             ChangesAreListed
  <2> QED
    BY <2>2, <2>3, <2>4 DEF ApplyInv
<1> QED
  BY <1>1, <1>2, <1>3, <1>4, <1>5, <1>6, <1>7, <1>8, <1>9 DEF Next, ExecutorStep

\* With a torn manifest no step changes a file that would need a snapshot.
LEMMA TornStep ==
  ASSUME ApplyInv, [Next]_vars, torn, NEW f \in Files, content'[f] # content[f]
  PROVE  ~Exists(f) \/ \E o \in Ops : file[o] = f /\ ~Snapshots(o)
<1>1. ASSUME Running, Ready, content' \in Written \cup CutOff
      PROVE  ~Exists(f) \/ \E o \in Ops : file[o] = f /\ ~Snapshots(o)
  <2>1. f = Target /\ (kind[Current] = "link" \/ ~Exists(f))
    BY Zenon, <1>1, ChangeTouches
  <2> QED
    BY <1>1, <2>1, CurrentType DEF Target, Snapshots
<1>2. CASE Change
  BY <1>1, <1>2 DEF Change
<1>3. CASE Crash
  BY Zenon, <1>1, <1>3, CrashDisk
<1>4. CASE AutoRollback \/ RollbackRequest
  BY Zenon, <1>4, RestoreTouches DEF AutoRollback, RollbackRequest
<1>5. CASE UNCHANGED content
  BY <1>5
<1> QED
  BY Zenon, <1>2, <1>3, <1>4, <1>5
  DEF Next, ExecutorStep, sortStill, diskVars, vars, StartRun, Missing, SnapshotCopy, SnapshotEntry,
      Skip, OpFails, EndRun, PostApply, Reapply

-----------------------------------------------------------------------------
\* The executor's invariant holds in every reachable state: the sort's in-degrees
\* and queue, and the manifest against what was changed.
THEOREM ApplyInvariant == Spec => []ApplyInv
  BY ApplyInitInv, ApplyInvStep, PTL DEF Spec

\* topological_sort: an operation comes after all it depends on, and when the
\* operations are run exactly those that can run are sorted, each once.
THEOREM SortIsSound == Spec => [](SortRespectsDeps /\ SortIsComplete)
<1>1. ApplyInv => SortRespectsDeps /\ SortIsComplete
  BY EmptyQueueIsComplete DEF ApplyInv, OrderInv, PhaseFits, SortIsComplete
<1> QED
  BY <1>1, ApplyInvariant, PTL

-----------------------------------------------------------------------------
\* What an application leaves behind: fail_fast, and the files after a rollback.
\* The operations the loop has passed.
Passed == {sorted[i] : i \in 1 .. pos - 1}

\* Only sorted operations have an outcome, and what is still to come has none;
\* under fail_fast what has passed went well.
StatusInv ==
  /\ \A o \in Ops : status[o] # "none" => o \in Done
  /\ Running => \A i \in pos .. Len(sorted) : status[sorted[i]] = "none"
  /\ failFast /\ Running => /\ \A o \in Ops : status[o] # "failed"
                            /\ \A o \in Passed : status[o] \in {"applied", "skipped"}

\* An operation whose file only it changes, and which takes a snapshot of it.
Tracked(o) == Alone(o) /\ Snapshots(o) /\ initial[file[o]] = file[o]

\* The file of such an operation in the first application of the plan: untouched
\* before its turn, copied before it is changed, and listed once it may differ.
FileInv(o) ==
  LET f == file[o]
  IN /\ phase \in {"count", "sort", "run"} /\ o \notin Passed
          /\ ~(Running /\ Current = o /\ inner = "ready")
        => f \notin manifest /\ content[f] = f
     /\ Running /\ Current = o /\ inner \in {"copied", "ready"}
        => backup[backupName[f]] = f /\ content[f] = f
     /\ f \in manifest => backup[backupName[f]] = f
     /\ f \notin manifest /\ ~torn => content[f] = f
     /\ rolledBack => content[f] = f

FilesInv == applies = 1 => \A o \in Ops : Tracked(o) => FileInv(o)

-----------------------------------------------------------------------------
\* The operations that passed and the ones to come are different.
LEMMA PassedFacts ==
  ASSUME ApplyInv, Running
  PROVE  /\ Current \notin Passed
         /\ \A i \in pos + 1 .. Len(sorted) : sorted[i] # Current /\ sorted[i] \in Ops
         /\ \A d \in deps[Current] : d \in Passed
         /\ \A o \in Passed : o \in Ops
<1>0. /\ pos \in 1 .. Len(sorted) /\ sorted \in Seq(Ops) /\ Len(sorted) \in Nat
      /\ Current = sorted[pos]
  BY CurrentType DEF ApplyInv, OrderInv, OrderType, Current
<1>1. \A i, j \in 1 .. Len(sorted) : sorted[i] = sorted[j] => i = j
  BY DEF ApplyInv, OrderInv, EachOnce
<1>2. \A d \in deps[sorted[pos]] : \E j \in 1 .. pos - 1 : sorted[j] = d
  BY <1>0 DEF ApplyInv, OrderInv, SortRespectsDeps
<1>3. \A i \in 1 .. pos - 1 : i \in 1 .. Len(sorted) /\ i # pos
  BY <1>0
<1>4. \A i \in pos + 1 .. Len(sorted) : i \in 1 .. Len(sorted) /\ i # pos
  BY <1>0
<1>5. \A i \in 1 .. Len(sorted) : sorted[i] \in Ops
  BY <1>0
<1> QED
  BY ZenonT(40), <1>0, <1>1, <1>2, <1>3, <1>4, <1>5 DEF Passed

\* The end of an operation: it has passed, and so has what passed before.
LEMMA FinishPasses ==
  ASSUME ApplyInv, Running, NEW r \in Statuses, Finish(r), UNCHANGED sorted
  PROVE  Passed \cup {Current} \subseteq Passed' /\ inner' = "begin"
<1>0. /\ pos \in 1 .. Len(sorted) /\ sorted \in Seq(Ops) /\ Len(sorted) \in Nat
      /\ Current = sorted[pos]
  BY CurrentType DEF ApplyInv, OrderInv, OrderType, Current
<1>1. inner' = "begin" /\ (pos' = pos + 1 \/ pos' = Len(sorted) + 1)
  BY DEF Finish
<1>2. \A i \in 1 .. pos : i \in 1 .. pos' - 1
  BY <1>0, <1>1
<1>3. pos \in 1 .. pos /\ \A i \in 1 .. pos - 1 : i \in 1 .. pos
  BY <1>0
<1> QED
  BY <1>0, <1>1, <1>2, <1>3 DEF Passed

\* fail_fast: the outcome of one operation.
LEMMA FinishStatus ==
  ASSUME ApplyInv, StatusInv, FailFastStops, Running,
         NEW r \in {"applied", "skipped", "failed"}, Finish(r),
         UNCHANGED <<sorted, deps, failFast, phase>>
  PROVE  StatusInv' /\ FailFastStops'
<1> DEFINE rest == {sorted[i] : i \in pos + 1 .. Len(sorted)}
<1>0. /\ pos \in 1 .. Len(sorted) /\ Len(sorted) \in Nat /\ Current \in Ops
      /\ status \in [Ops -> Statuses] /\ Current = sorted[pos] /\ phase = "run"
  BY CurrentType DEF ApplyInv, ApplyType, OrderInv, OrderType, Current
<1>1. /\ Current \notin Passed /\ Current \notin rest /\ rest \subseteq Ops
      /\ \A d \in deps[Current] : d \in Passed /\ d \in Ops
  BY ZenonT(40), PassedFacts
<1>2. status[Current] = "none" /\ \A o \in rest : status[o] = "none"
  <2>1. pos \in pos .. Len(sorted) /\ \A i \in pos + 1 .. Len(sorted) : i \in pos .. Len(sorted)
    BY <1>0
  <2> QED
    BY <1>0, <2>1 DEF StatusInv
<1>3. Current \in Done /\ rest \subseteq Done /\ Done' = Done
  <2>1. \A i \in pos + 1 .. Len(sorted) : i \in 1 .. Len(sorted)
    BY <1>0
  <2> QED
    BY <1>0, <2>1 DEF Done
<1>4. \A o \in Done : deps[o] \subseteq Done /\ o \in Ops
  BY Zenon DEF ApplyInv, OrderInv, OrderType, QueuedIsReady, Runnable
<1> HIDE DEF rest
<1>5. /\ status' \in [Ops -> Statuses] /\ status'[Current] = r
      /\ \A o \in Ops \ (rest \cup {Current}) : status'[o] = status[o]
      /\ \A o \in rest : status'[o] \in {"none", "not_reached"}
      /\ (r = "failed" /\ failFast) \/ \A o \in rest : status'[o] = "none"
  <2>1. CASE r = "failed" /\ failFast
    <3>1. status' = [o \in Ops |-> IF o = Current THEN r
                                   ELSE IF o \in rest THEN "not_reached" ELSE status[o]]
      BY Zenon, <2>1 DEF Finish, rest
    <3> QED
      BY Zenon, <3>1, <2>1, <1>0, <1>1 DEF Statuses
  <2>2. CASE ~(r = "failed" /\ failFast)
    <3>1. status' = [status EXCEPT ![Current] = r]
      BY Zenon, <2>2 DEF Finish
    <3> QED
      BY <3>1, <2>2, <1>0, <1>1, <1>2 DEF Statuses
  <2> QED
    BY Zenon, <2>1, <2>2
<1>6. \A o \in Ops : status'[o] # "none" => o \in Done'
  BY Zenon, <1>3, <1>5 DEF StatusInv
<1>7. ASSUME r = "failed" /\ failFast PROVE StatusInv'
  <2>1. pos' = Len(sorted) + 1
    BY <1>7 DEF Finish
  <2>2. ~Running'
    BY <1>0, <2>1 DEF Running
  <2> QED
    BY Zenon, <1>6, <2>2 DEF StatusInv
<1>8. ASSUME ~(r = "failed" /\ failFast) PROVE StatusInv'
  <2>1. pos' = pos + 1
    BY Zenon, <1>8 DEF Finish
  <2>2. \A i \in pos' .. Len(sorted)' : sorted'[i] \in rest
    BY Zenon, <2>1 DEF rest
  <2>3. Passed' = Passed \cup {Current}
    <3>1. 1 .. pos' - 1 = (1 .. pos - 1) \cup {pos}
      BY <1>0, <2>1
    <3> QED
      BY <1>0, <3>1 DEF Passed
  <2>4. ASSUME failFast
        PROVE  /\ \A o \in Ops : status'[o] # "failed"
               /\ \A o \in Passed' : status'[o] \in {"applied", "skipped"}
    <3>1. r # "failed"
      BY Zenon, <1>8, <2>4
    <3>2. /\ \A o \in Ops : status[o] # "failed"
          /\ \A o \in Passed : status[o] \in {"applied", "skipped"} /\ o \in Ops
      BY <2>4, PassedFacts DEF StatusInv
    <3>3. \A o \in Passed : o \notin rest /\ o # Current
      BY Zenon, <3>2, <1>1, <1>2
    <3>4. \A o \in Ops : status'[o] # "failed"
      BY Zenon, <1>5, <3>1, <3>2
    <3> QED
      BY <1>5, <2>3, <3>1, <3>2, <3>3, <3>4
  <2> QED
    BY Zenon, <1>5, <1>6, <1>8, <2>2, <2>4 DEF StatusInv
<1>9. ASSUME failFast'
      PROVE  /\ Cardinality({o \in Ops : status'[o] = "failed"}) <= 1
             /\ \A o \in Ops : status'[o] \in {"applied", "skipped", "failed", "rolled_back"} =>
                  \A d \in deps'[o] : status'[d] \in {"applied", "skipped", "rolled_back"}
  <2>1. /\ \A o \in Ops : status[o] # "failed"
        /\ \A o \in Passed : status[o] \in {"applied", "skipped"}
    BY Zenon, <1>9 DEF StatusInv
  <2>2. {o \in Ops : status'[o] = "failed"} \in SUBSET {Current}
    BY <1>5, <2>1
  <2>3. Cardinality({o \in Ops : status'[o] = "failed"}) <= 1
    <3>1. \A S \in SUBSET {Current} : S = {} \/ S = {Current}
      OBVIOUS
    <3>2. Cardinality({}) = 0 /\ Cardinality({Current}) = 1
      BY Zenon, FS_EmptySet, FS_Singleton
    <3> QED
      BY <2>2, <3>1, <3>2
  <2>4. ASSUME NEW o \in Ops, status'[o] \in {"applied", "skipped", "failed", "rolled_back"},
               NEW d \in deps[o]
        PROVE  status'[d] \in {"applied", "skipped", "rolled_back"}
    <3>1. o \in Done
      BY Zenon, <1>3, <1>6, <2>4
    <3>2. d \in Ops
      BY <1>4, <3>1, <2>4
    <3>3. status[d] \in {"applied", "skipped", "rolled_back"}
      <4>1. CASE o = Current
        BY Zenon, <4>1, <1>1, <2>1, <2>4
      <4>2. CASE o # Current
        <5>1. o \notin rest
          BY Zenon, <1>5, <2>4
        <5>2. status[o] \in {"applied", "skipped", "failed", "rolled_back"}
          BY <1>5, <4>2, <5>1, <2>4
        <5> QED
          BY Zenon, <5>2, <1>9, <2>4 DEF FailFastStops
      <4> QED
        BY <4>1, <4>2
    <3>4. d # Current /\ d \notin rest
      BY <1>2, <3>3
    <3> QED
      BY <1>5, <3>2, <3>3, <3>4
  <2> QED
    BY <2>3, <2>4
<1> QED
  BY ZenonT(40), <1>7, <1>8, <1>9 DEF FailFastStops

\* Steps of the loop that do not end an operation, and steps outside the loop that
\* leave the outcomes alone.
LEMMA StatusStill ==
  ASSUME StatusInv, FailFastStops, UNCHANGED <<sorted, deps, failFast, pos, status>>,
         Running' => Running
  PROVE  StatusInv' /\ FailFastStops'
<1>1. Passed' = Passed /\ Done' = Done
  BY Zenon DEF Passed, Done
<1>2. StatusInv'
  BY Zenon, <1>1 DEF StatusInv
<1>3. FailFastStops'
  BY Zenon DEF FailFastStops
<1> QED
  BY <1>2, <1>3

\* No operation has an outcome: before the loop.
LEMMA NoStatus ==
  ASSUME \A o \in Ops : status[o] = "none", sorted \in Seq(Ops), pos = 1
  PROVE  StatusInv /\ FailFastStops
<1>1. {o \in Ops : status[o] = "failed"} = {} /\ Cardinality({}) = 0
  BY Zenon, FS_EmptySet
<1>2. FailFastStops
  <2>1. Cardinality({o \in Ops : status[o] = "failed"}) <= 1
    BY <1>1
  <2> QED
    BY Zenon, <2>1 DEF FailFastStops
<1>3. Passed = {} /\ \A i \in 1 .. Len(sorted) : sorted[i] \in Ops
  BY DEF Passed
<1> QED
  BY <1>2, <1>3 DEF StatusInv

\* Every step keeps what fail_fast promises.
LEMMA StatusStep ==
  ASSUME ApplyInv, StatusInv, FailFastStops, [Next]_vars
  PROVE  StatusInv' /\ FailFastStops'
<1>1. CASE ((StartSort \/ Pop) /\ UNCHANGED sortStill) \/ StartRun \/ Reapply
  <2>1. ApplyInv'
    BY Zenon, ApplyInvStep
  <2>2. \A o \in Ops : status'[o] = "none"
    BY ZenonT(40), <1>1 DEF StartSort, Pop, sortStill, StartRun, Reapply, ApplyInv, BeforeRun
  <2>3. sorted' \in Seq(Ops) /\ pos' = 1
    BY <1>1, <2>1 DEF StartSort, Pop, sortStill, StartRun, Reapply, ApplyInv, BeforeRun,
                      OrderInv, OrderType
  <2>4. ((\A o \in Ops : status[o] = "none") /\ sorted \in Seq(Ops) /\ pos = 1
           => StatusInv /\ FailFastStops)'
    BY NoStatus, PTL
  <2> QED
    BY <2>2, <2>3, <2>4
<1>2. CASE Missing \/ Skip \/ OpFails \/ Change \/ SnapshotCopy \/ SnapshotEntry
  <2>1. /\ Running /\ UNCHANGED runStill
        /\ \/ \E r \in {"applied", "skipped", "failed"} : Finish(r)
           \/ UNCHANGED <<pos, status>>
    <3>1. CASE Missing \/ Skip \/ OpFails \/ Change
      BY Zenon, <3>1 DEF Missing, Skip, OpFails, Change
    <3>2. CASE SnapshotCopy \/ SnapshotEntry
      BY Zenon, <3>2 DEF SnapshotCopy, Copying, SnapshotEntry
    <3> QED
      BY Zenon, <1>2, <3>1, <3>2
  <2>2. UNCHANGED <<sorted, deps, failFast, phase>>
    BY <2>1 DEF runStill, orderVars, planVars
  <2>3. CASE \E r \in {"applied", "skipped", "failed"} : Finish(r)
    BY <2>1, <2>2, <2>3, FinishStatus
  <2>4. CASE UNCHANGED <<pos, status>>
    BY <2>1, <2>2, <2>4, StatusStill
  <2> QED
    BY Zenon, <2>1, <2>3, <2>4
<1>3. CASE EndRun \/ PostApply \/ Crash \/ RollbackRequest
  <2>1. UNCHANGED <<sorted, deps, failFast, pos, status>> /\ phase' # "run"
    BY <1>3 DEF EndRun, PostApply, Crash, RollbackRequest, orderVars, planVars
  <2> QED
    BY ZenonT(40), <2>1, StatusStill DEF Running
<1>4. CASE AutoRollback
  <2>1. UNCHANGED <<sorted, deps, failFast, pos>> /\ phase' = "end"
    BY <1>4 DEF AutoRollback, orderVars, planVars
  <2>2. CASE UNCHANGED status
    BY <2>1, <2>2, StatusStill DEF Running
  <2>3. CASE status' = [o \in Ops |-> IF status[o] = "applied" THEN "rolled_back" ELSE status[o]]
    <3>1. Done' = Done /\ ~Running'
      BY <2>1 DEF Done, Running
    <3>2. \A o \in Ops : status'[o] = IF status[o] = "applied" THEN "rolled_back" ELSE status[o]
      BY Zenon, <2>3
    <3>3. StatusInv'
      BY <3>1, <3>2 DEF StatusInv
    <3>4. {o \in Ops : status'[o] = "failed"} = {o \in Ops : status[o] = "failed"}
      BY <3>2
    <3>5. ASSUME NEW o \in Ops, NEW d \in deps[o], failFast,
                 status'[o] \in {"applied", "skipped", "failed", "rolled_back"}
          PROVE  status'[d] \in {"applied", "skipped", "rolled_back"}
      <4>1. status[o] \in {"applied", "skipped", "failed", "rolled_back"}
        BY <3>2, <3>5
      <4>2. status[d] \in {"applied", "skipped", "rolled_back"}
        BY <3>5, <4>1 DEF FailFastStops
      <4>3. d \in Ops
        <5>1. o \in Done
          BY Zenon, <4>1 DEF StatusInv
        <5> QED
          BY Zenon, <3>5, <5>1 DEF ApplyInv, OrderInv, OrderType, QueuedIsReady, Runnable
      <4> QED
        BY <3>2, <4>2, <4>3
    <3>6. FailFastStops'
      BY <2>1, <3>4, <3>5 DEF FailFastStops
    <3> QED
      BY <3>3, <3>6
  <2> QED
    BY <1>4, <2>2, <2>3 DEF AutoRollback
<1>5. CASE UNCHANGED vars
  <2>1. UNCHANGED <<sorted, deps, failFast, pos, status, phase>>
    BY <1>5 DEF vars, orderVars, planVars
  <2> QED
    BY <2>1, StatusStill DEF Running
<1> QED
  BY <1>1, <1>2, <1>3, <1>4, <1>5 DEF Next, ExecutorStep

-----------------------------------------------------------------------------
\* The file of the operation whose turn it is has not been changed.
LEMMA TurnIsUntouched ==
  ASSUME ApplyInv, Running, NEW o \in Ops, FileInv(o), Current = o
  PROVE  content[file[o]] = file[o]
<1>1. o \notin Passed /\ phase = "run" /\ inner \in {"begin", "copied", "ready"}
  BY ZenonT(40), PassedFacts, CurrentType DEF ApplyInv, ApplyType
<1> QED
  BY Zenon, <1>1 DEF FileInv

\* A step that ends an operation and changes no content: the manifest is kept or
\* cut off, and a copy that breaks off is of a file that is not listed.
LEMMA EndOfOpFiles ==
  ASSUME ApplyInv, Running, UNCHANGED <<sorted, phase, file, backupName, content, rolledBack>>,
         NEW r \in Statuses, Finish(r),
         UNCHANGED <<manifest, torn>> \/ (manifest' = {} /\ torn' = TRUE),
         NEW o \in Ops, FileInv(o),
         file[o] \in manifest => backup'[backupName[file[o]]] = backup[backupName[file[o]]]
  PROVE  FileInv(o)'
<1>1. Passed \cup {Current} \subseteq Passed' /\ inner' = "begin"
  BY Zenon, FinishPasses
<1>2. phase = "run"
  BY CurrentType
<1> QED
  BY <1>1, <1>2 DEF FileInv

\* snapshot_file: the copy.
LEMMA SnapshotCopyFiles ==
  ASSUME ApplyInv, SnapshotCopy, NEW o \in Ops, Tracked(o), FileInv(o)
  PROVE  FileInv(o)'
<1>0. /\ Running /\ inner = "begin" /\ UNCHANGED <<content, manifest, torn>>
      /\ UNCHANGED <<sorted, phase, file, backupName, rolledBack>> /\ Snapshots(Current)
  BY Zenon DEF SnapshotCopy, Copying, runStill, orderVars, planVars
<1>1. /\ Current \in Ops /\ Target \in Files /\ file[o] \in Files
      /\ backup \in [Files -> Contents] /\ backupName \in [Files -> Files]
      /\ Current \notin Passed /\ phase = "run"
  BY ZenonT(40), <1>0, CurrentType, PassedFacts DEF ApplyInv, ApplyType
<1>2. Current # o => Slot # backupName[file[o]]
  BY <1>0, <1>1 DEF Target, Slot, Tracked, Alone, Snapshots
<1>t. Slot \in Files /\ backupName[file[o]] \in Files
  BY <1>1 DEF Slot
<1>3. CASE /\ backup' = [backup EXCEPT ![Slot] = content[Target]]
           /\ inner' = "copied" /\ UNCHANGED pos
  <2>1. Running' /\ Current' = Current /\ Passed' = Passed
    BY Zenon, <1>0, <1>3 DEF Running, Current, Passed
  <2>2. CASE Current = o
    <3>1. Target = file[o] /\ file[o] \notin manifest /\ content[file[o]] = file[o]
      BY ZenonT(40), <1>0, <1>1, <2>2 DEF FileInv, Target
    <3>2. backup'[backupName[file[o]]] = file[o]
      BY <1>1, <1>t, <1>3, <3>1 DEF Slot
    <3> QED
      BY Zenon, <1>0, <1>3, <2>1, <2>2, <3>1, <3>2 DEF FileInv
  <2>3. CASE Current # o
    <3>1. backup'[backupName[file[o]]] = backup[backupName[file[o]]]
      BY Zenon, <1>1, <1>t, <1>2, <1>3, <2>3
    <3> QED
      BY Zenon, <1>0, <2>1, <2>3, <3>1 DEF FileInv
  <2> QED
    BY <2>2, <2>3
<1>4. CASE backup' = [backup EXCEPT ![Slot] = "partial"] /\ Finish("failed")
  <2>1. file[o] \in manifest => backup'[backupName[file[o]]] = backup[backupName[file[o]]]
    <3>1. CASE Current = o
      BY <1>0, <1>1, <3>1 DEF FileInv
    <3>2. CASE Current # o
      BY <1>1, <1>t, <1>2, <1>4, <3>2
    <3> QED
      BY ZenonT(40), <3>1, <3>2
  <2> QED
    BY Zenon, <1>0, <1>4, <2>1, EndOfOpFiles DEF Statuses
<1> QED
  BY Zenon, <1>3, <1>4 DEF SnapshotCopy

\* snapshot_file: the entry in the manifest.
LEMMA SnapshotEntryFiles ==
  ASSUME ApplyInv, SnapshotEntry, NEW o \in Ops, Tracked(o), FileInv(o)
  PROVE  FileInv(o)'
<1>0. /\ Running /\ inner = "copied" /\ UNCHANGED <<content, backup>>
      /\ UNCHANGED <<sorted, phase, file, backupName, rolledBack>>
  BY Zenon DEF SnapshotEntry, runStill, orderVars, planVars
<1>1. Current \in Ops /\ Current \notin Passed
  BY Zenon, <1>0, CurrentType, PassedFacts
<1>2. CASE /\ ~torn /\ manifest' = manifest \cup {Target}
           /\ inner' = "ready" /\ UNCHANGED <<torn, pos>>
  <2>1. Running' /\ Current' = Current /\ Passed' = Passed
    BY Zenon, <1>0, <1>2 DEF Running, Current, Passed
  <2>2. CASE Current = o
    BY ZenonT(40), <1>0, <1>1, <1>2, <2>1, <2>2 DEF FileInv, Target
  <2>3. CASE Current # o
    <3>0. Snapshots(Current)
      BY Zenon, <1>0 DEF ApplyInv, SnapshotListed
    <3>1. Target # file[o]
      BY <1>1, <2>3, <3>0 DEF Target, Tracked, Alone, Snapshots
    <3> QED
      BY <1>0, <1>2, <2>1, <2>3, <3>1 DEF FileInv
  <2> QED
    BY <2>2, <2>3
<1>3. CASE Finish("failed") /\ (UNCHANGED <<manifest, torn>> \/ (manifest' = {} /\ torn' = TRUE))
  BY Zenon, <1>0, <1>3, EndOfOpFiles DEF Statuses
<1> QED
  BY Zenon, <1>2, <1>3 DEF SnapshotEntry

\* A change or a part of one: the file is listed, or is not this operation's.
LEMMA ChangedIsListed ==
  ASSUME ApplyInv, Running, Ready, content' \in Written \cup CutOff,
         NEW o \in Ops, Tracked(o), FileInv(o), content'[file[o]] # content[file[o]]
  PROVE  Current = o /\ file[o] \in manifest /\ ~torn
<1>1. Current \in Ops /\ file[o] \in Files
  BY Zenon, CurrentType DEF ApplyInv, ApplyType
<1>2. /\ file[o] = Target /\ kind[Current] \notin {"command", "registry"}
      /\ (file[o] \in manifest /\ ~torn) \/ kind[Current] = "link" \/ ~Exists(file[o])
  BY Zenon, <1>1, ChangeTouches
<1>3. Current = o
  BY Zenon, <1>1, <1>2 DEF Target, Tracked, Alone
<1>4. content[file[o]] = file[o] /\ kind[Current] # "link"
  BY ZenonT(40), <1>3, TurnIsUntouched DEF Tracked, Snapshots
<1>5. Exists(file[o])
  BY <1>1, <1>4, FilesAssumption DEF Exists, Marks
<1> QED
  BY Zenon, <1>2, <1>3, <1>4, <1>5

\* The change.
LEMMA ChangeFiles ==
  ASSUME ApplyInv, Change, NEW o \in Ops, Tracked(o), FileInv(o)
  PROVE  FileInv(o)'
<1>0. /\ Running /\ Ready /\ content' \in Written \cup CutOff
      /\ UNCHANGED <<backup, manifest, torn, sorted, phase, file, backupName, rolledBack>>
      /\ \E r \in {"applied", "failed"} : Finish(r)
  BY Zenon DEF Change, runStill, orderVars, planVars
<1>1. Passed \cup {Current} \subseteq Passed' /\ inner' = "begin"
  BY <1>0, FinishPasses DEF Statuses
<1>2. content'[file[o]] # content[file[o]] => Current = o /\ file[o] \in manifest
  BY Zenon, <1>0, ChangedIsListed
<1>3. phase = "run" /\ ~rolledBack
  BY <1>0, CurrentType DEF ApplyInv, BeforeRun
<1> QED
  BY <1>0, <1>1, <1>2, <1>3 DEF FileInv

\* The agent dies.
LEMMA CrashFiles ==
  ASSUME ApplyInv, Crash, NEW o \in Ops, Tracked(o), FileInv(o)
  PROVE  FileInv(o)'
<1>0. /\ phase' = "down" /\ UNCHANGED <<file, backupName, rolledBack>> /\ ~rolledBack
      /\ UNCHANGED <<manifest, torn>> \/ (manifest' = {} /\ torn' = TRUE)
  BY Zenon, CrashDisk DEF Crash, planVars, ApplyInv, BeforeRun
<1>t. file[o] \in Files /\ backup \in [Files -> Contents] /\ backupName \in [Files -> Files]
  BY DEF ApplyInv, ApplyType
<1>1. content'[file[o]] # content[file[o]] => file[o] \in manifest
  <2>1. CASE Running /\ Ready /\ content' \in CutOff
    BY Zenon, <2>1, ChangedIsListed
  <2>2. CASE content' \in HalfRestored
    BY Zenon, <2>2, <1>t, RestoredTouches
  <2> QED
    BY Zenon, CrashDisk, <2>1, <2>2
<1>b. file[o] \in manifest => backup'[backupName[file[o]]] = backup[backupName[file[o]]]
  <2>1. CASE UNCHANGED backup
    BY Zenon, <2>1
  <2>2. CASE Copying /\ backup' = [backup EXCEPT ![Slot] = "partial"]
    <3>1. Running /\ inner = "begin" /\ Snapshots(Current)
      BY Zenon, <2>2 DEF Copying
    <3>2. Current \in Ops /\ Target \in Files /\ Current \notin Passed /\ phase = "run"
      BY ZenonT(40), <3>1, CurrentType, PassedFacts
    <3>3. CASE Current = o
      BY <3>1, <3>2, <3>3 DEF FileInv
    <3>4. CASE Current # o
      <4>1. Slot # backupName[file[o]]
        BY <3>1, <3>2, <3>4 DEF Target, Slot, Tracked, Alone, Snapshots
      <4>2. Slot \in Files /\ backupName[file[o]] \in Files
        BY <1>t, <3>2 DEF Slot
      <4> QED
        BY Zenon, <1>t, <2>2, <4>1, <4>2
    <3> QED
      BY Zenon, <3>3, <3>4
  <2> QED
    BY Zenon, CrashDisk, <2>1, <2>2
<1>2. ~Running' /\ phase' \notin {"count", "sort", "run"} /\ ~rolledBack'
  BY <1>0 DEF Running
<1>3. file'[o] \in manifest' => backup'[backupName'[file'[o]]] = file'[o]
  <2>1. file' = file /\ backupName' = backupName /\ (manifest' = manifest \/ manifest' = {})
    BY Zenon, <1>0
  <2> SUFFICES ASSUME file[o] \in manifest' PROVE backup'[backupName[file[o]]] = file[o]
    BY Zenon, <2>1
  <2>2. file[o] \in manifest
    BY <2>1
  <2> QED
    BY Zenon, <2>2, <1>b DEF FileInv
<1>4. file'[o] \notin manifest' /\ ~torn' => content'[file'[o]] = file'[o]
  <2> SUFFICES ASSUME file'[o] \notin manifest', ~torn' PROVE content'[file'[o]] = file'[o]
    BY Zenon
  <2>0. file' = file /\ (UNCHANGED <<manifest, torn>> \/ torn' = TRUE)
    BY Zenon, <1>0
  <2>1. manifest' = manifest /\ ~torn /\ file'[o] = file[o]
    BY <2>0
  <2>2. file[o] \notin manifest
    BY Zenon, <2>1
  <2>3. content[file[o]] = file[o]
    BY Zenon, <2>1, <2>2 DEF FileInv
  <2>4. content'[file[o]] = content[file[o]]
    BY Zenon, <1>1, <2>2
  <2> QED
    BY Zenon, <2>1, <2>3, <2>4
<1> QED
  BY Zenon, <1>2, <1>3, <1>4 DEF FileInv

\* A rollback: a listed file gets its copy, and the others were not changed.
LEMMA RollbackFiles ==
  ASSUME ApplyInv, AutoRollback \/ RollbackRequest, NEW o \in Ops, FileInv(o)
  PROVE  FileInv(o)'
<1>0. /\ Restore /\ phase' \in {"end", "down"} /\ ~rolledBack
      /\ UNCHANGED <<backup, manifest, torn, file, backupName>>
  BY Zenon DEF AutoRollback, RollbackRequest, planVars, ApplyInv, BeforeRun
<1>1. file[o] \in Files /\ content'[file[o]] # content[file[o]] => file[o] \in manifest
  BY <1>0, RestoreTouches
<1>2. file[o] \in Files
  BY DEF ApplyInv, ApplyType
<1>3. rolledBack' => ~torn /\ content' = Restored(manifest)
  BY Zenon, <1>0 DEF Restore
<1>4. rolledBack' => content'[file[o]] = file[o]
  BY <1>2, <1>3 DEF Restored, FileInv
<1> QED
  BY Zenon, <1>0, <1>1, <1>2, <1>4 DEF FileInv, Running

\* Steps before and after the loop that leave the disk alone.
LEMMA OtherFiles ==
  ASSUME ApplyInv,
         \/ (StartSort \/ Pop) /\ UNCHANGED sortStill
         \/ StartRun \/ EndRun \/ PostApply \/ UNCHANGED vars,
         NEW o \in Ops, FileInv(o)
  PROVE  FileInv(o)'
<1>0. UNCHANGED <<content, backup, manifest, torn, file, backupName, rolledBack, pos, inner>>
  BY Zenon DEF StartSort, Pop, sortStill, StartRun, EndRun, PostApply, vars, diskVars, planVars
<1>1. CASE EndRun \/ PostApply
  BY Zenon, <1>0, <1>1 DEF EndRun, PostApply, FileInv, Running
<1>2. CASE ((StartSort \/ Pop) /\ UNCHANGED sortStill) \/ StartRun
  <2>1. phase \in {"count", "sort"} /\ pos = 1 /\ inner = "begin"
    BY Zenon, <1>2 DEF StartSort, Pop, StartRun, ApplyInv, BeforeRun
  <2>2. Passed = {} /\ Passed' = {}
    <3>1. 1 .. pos - 1 = {} /\ pos' = pos
      BY <1>0, <2>1
    <3> QED
      BY Zenon, <3>1 DEF Passed
  <2> QED
    BY Zenon, <1>0, <2>1, <2>2 DEF FileInv
<1>3. CASE UNCHANGED vars
  <2>1. UNCHANGED <<sorted, phase>>
    BY <1>3 DEF vars, orderVars
  <2>2. Passed' = Passed /\ Running' = Running /\ Current' = Current
    BY Zenon, <1>0, <2>1 DEF Passed, Running, Current
  <2> QED
    BY Zenon, <1>0, <2>1, <2>2 DEF FileInv
<1> QED
  BY <1>1, <1>2, <1>3

\* Every step keeps what is known of such a file in the first application.
LEMMA FilesStep ==
  ASSUME ApplyInv, FilesInv, [Next]_vars
  PROVE  FilesInv'
<1>1. CASE Reapply
  <2>1. applies' # 1
    BY <1>1 DEF Reapply, ApplyInv, ApplyType
  <2> QED
    BY Zenon, <2>1 DEF FilesInv
<1>2. CASE ~Reapply
  <2>1. UNCHANGED planVars /\ UNCHANGED applies
    BY Zenon, <1>2 DEF Next, ExecutorStep, vars, sortStill, StartRun, Missing, SnapshotCopy,
                SnapshotEntry, Change, Skip, OpFails, EndRun, AutoRollback, PostApply, Crash,
                RollbackRequest, runStill
  <2> SUFFICES ASSUME applies = 1, NEW o \in Ops, Tracked(o)'
               PROVE  FileInv(o)'
    BY Zenon, <2>1 DEF FilesInv
  <2>2. Tracked(o)
    BY Zenon, <2>1 DEF planVars, Tracked, Alone, Snapshots
  <2>3. FileInv(o)
    BY <2>2 DEF FilesInv
  <2>4. CASE Missing \/ Skip \/ OpFails
    <3>1. /\ Running /\ UNCHANGED <<sorted, phase, file, backupName, content, rolledBack, manifest, torn, backup>>
          /\ \E r \in {"applied", "failed", "skipped"} : Finish(r)
      BY <2>4 DEF Missing, Skip, OpFails, runStill, orderVars, planVars, diskVars
    <3> QED
      BY ZenonT(40), <2>3, <3>1, EndOfOpFiles DEF Statuses
  <2> QED
    BY <1>2, <2>2, <2>3, <2>4, SnapshotCopyFiles, SnapshotEntryFiles, ChangeFiles, CrashFiles,
       RollbackFiles, OtherFiles DEF Next, ExecutorStep
<1> QED
  BY <1>1, <1>2

-----------------------------------------------------------------------------
OutcomeInv == ApplyInv /\ StatusInv /\ FailFastStops /\ FilesInv

\* What is known of outcomes and files, in every reachable state.
THEOREM OutcomeInvariant == Spec => []OutcomeInv
<1>1. Init => OutcomeInv
  <2> SUFFICES ASSUME Init PROVE OutcomeInv
    OBVIOUS
  <2>1. StatusInv /\ FailFastStops
    BY NoStatus DEF Init, OrderInit
  <2>2. FilesInv
    <3>1. \A o \in Ops : inner = "begin" /\ file[o] \in Files /\ content = initial
      BY DEF Init
    <3> QED
      BY <3>1 DEF Init, FilesInv, FileInv, Tracked
  <2> QED
    BY <2>1, <2>2, ApplyInitInv DEF OutcomeInv
<1>2. OutcomeInv /\ [Next]_vars => OutcomeInv'
  BY ApplyInvStep, StatusStep, FilesStep DEF OutcomeInv
<1> QED
  BY <1>1, <1>2, PTL DEF Spec

\* fail_fast: nothing runs after a failure, and an operation runs only after all
\* it depends on went well, for every plan and every graph of dependencies.
THEOREM FailureStopsPlan == Spec => []FailFastStops
<1>1. OutcomeInv => FailFastStops
  BY Zenon DEF OutcomeInv
<1> QED
  BY <1>1, OutcomeInvariant, PTL

\* A rollback that ends without error, requested or automatic, after whatever
\* failed or crashed, restores each file that one operation of the plan changes.
THEOREM RollbackRestores == Spec => []RollbackUndoes
<1>1. OutcomeInv => RollbackUndoes
  BY Zenon DEF OutcomeInv, FilesInv, FileInv, Tracked, RollbackUndoes
<1> QED
  BY <1>1, OutcomeInvariant, PTL

\* snapshot_file: a file that differs from its original is in the manifest, across
\* errors and crashes, with the original under its name as long as no other operation
\* uses that; and a manifest that cannot be parsed stops the changes.
THEOREM UndoIsPossible == Spec => UndoStaysPossible
<1>1. OutcomeInv => ChangesAreKept
  <2> SUFFICES ASSUME OutcomeInv, NEW f \in Files, initial[f] = f, content[f] # f, ~torn,
                      ~ \E o \in Ops : kind[o] = "link" /\ file[o] = f
               PROVE  /\ f \in manifest
                      /\ \A o \in Ops : applies = 1 /\ file[o] = f /\ Snapshots(o) /\ Alone(o)
                           => backup[backupName[f]] = f
    BY Zenon DEF ChangesAreKept
  <2>1. f \in manifest
    BY Zenon DEF OutcomeInv, ApplyInv, ChangesAreListed
  <2>2. ASSUME NEW o \in Ops, applies = 1, file[o] = f, Alone(o), Snapshots(o)
        PROVE  backup[backupName[f]] = f
    BY Zenon, <2>1, <2>2 DEF OutcomeInv, FilesInv, FileInv, Tracked
  <2> QED
    BY <2>1, <2>2
<1>2. ApplyInv /\ [Next]_vars =>
        [torn => \A f \in Files : content'[f] # content[f] =>
           ~Exists(f) \/ \E o \in Ops : file[o] = f /\ ~Snapshots(o)]_vars
  BY Zenon, TornStep
<1> QED
  BY <1>1, <1>2, ApplyInvariant, OutcomeInvariant, PTL DEF Spec, UndoStaysPossible, TornStopsChanges

-----------------------------------------------------------------------------
\* The offline applicator.  A backup of anything but the original image, or one that
\* is cut off, is made only when the original's is there, and past the backup the
\* original's is there unless the image that was opened is cut off.
Kept == {} \in backups \/ (Unknown \in image /\ \E b \in backups : Unknown \in b)

OfflineInv ==
  ~skipBackup /\ ~sameSecond =>
    /\ image # {} => Kept
    /\ \A b \in backups : Unknown \in b \/ {} \in backups
    /\ stage \in {"open", "sort", "loop"} => Kept

\* A copy of the image, or a part of one, under a name of its own.
LEMMA CopyKeeps ==
  ASSUME NEW c \in {image, CutOffImage}, CopyTo(c), ~sameSecond', image' = image,
         image # {} => Kept,
         \A b \in backups : Unknown \in b \/ {} \in backups
  PROVE  /\ image' # {} => Kept'
         /\ \A b \in backups' : Unknown \in b \/ {} \in backups'
         /\ c = image => Kept'
<1>1. backups' = backups \cup {c}
  BY Zenon DEF CopyTo
<1>2. Unknown \in CutOffImage
  BY DEF CutOffImage
<1>3. image = {} \/ {} \in backups \/ Unknown \in image
  BY Zenon DEF Kept
<1> QED
  BY Zenon, <1>1, <1>2, <1>3 DEF Kept

\* Every step of apply, of a death in it and of a rollback keeps OfflineInv.
LEMMA OfflineInvStep ==
  OfflineInv /\ [OfflineNext]_<<orderVars, phase, offlineVars>> => OfflineInv'
<1> SUFFICES ASSUME OfflineInv, [OfflineNext]_<<orderVars, phase, offlineVars>>, ~skipBackup',
                    ~sameSecond'
             PROVE  /\ image' # {} => Kept'
                    /\ \A b \in backups' : Unknown \in b \/ {} \in backups'
                    /\ stage' \in {"open", "sort", "loop"} => Kept'
  BY Zenon DEF OfflineInv
<1>1. skipBackup' = skipBackup /\ (sameSecond' = sameSecond \/ sameSecond' = TRUE)
  BY Zenon DEF OfflineNext, OfflineStep, ValidatePlan, Backup, CopyTo, OpenImage, SortOffline, Operate,
         EndApply, OfflineDies, RollbackImage, ApplyAgain, offlineVars, imageVars
<1>2. /\ image # {} => Kept
      /\ \A b \in backups : Unknown \in b \/ {} \in backups
      /\ stage \in {"open", "sort", "loop"} => Kept
      /\ ~skipBackup
  BY Zenon, <1>1 DEF OfflineInv
<1>3. ASSUME UNCHANGED <<image, backups>>,
             stage' \in {"open", "sort", "loop"} => stage \in {"open", "sort", "loop"}
      PROVE  /\ image' # {} => Kept'
             /\ \A b \in backups' : Unknown \in b \/ {} \in backups'
             /\ stage' \in {"open", "sort", "loop"} => Kept'
  BY Zenon, <1>2, <1>3 DEF Kept
<1>4. CASE ValidatePlan
  BY <1>3, <1>4 DEF ValidatePlan, Stage, Answers, imageVars
<1>5. CASE Backup
  <2>1. image' = image /\ stage' \in {"open", "idle"}
    BY <1>5 DEF Backup, Stage, Answers
  <2>2. CASE stage' = "open" /\ CopyTo(image)
    BY <1>2, <2>1, <2>2, CopyKeeps
  <2>3. CASE stage' = "idle" /\ CopyTo(CutOffImage)
    BY <1>2, <2>1, <2>3, CopyKeeps
  <2>4. CASE stage' = "idle" /\ UNCHANGED backups
    BY <1>3, <2>1, <2>4
  <2> QED
    BY Zenon, <1>2, <1>5, <2>2, <2>3, <2>4 DEF Backup, Stage, Answers
<1>6. CASE OpenImage
  BY <1>3, <1>6 DEF OpenImage, Stage, Answers, imageVars
<1>7. CASE SortOffline
  BY <1>3, <1>7 DEF SortOffline, imageVars
<1>8. CASE Operate
  <2>1. /\ stage' = stage /\ stage = "loop" /\ backups' = backups
        /\ image' \in {image, image \cup {sorted[loopAt]}}
    BY <1>8 DEF Operate
  <2> QED
    BY <1>2, <2>1 DEF Kept
<1>9. CASE EndApply
  BY <1>3, <1>9 DEF EndApply, Answers, imageVars
<1>10. CASE OfflineDies
  <2>1. /\ stage' = "idle"
        /\ backups' = backups \/ (CopyTo(CutOffImage) /\ stage = "backup")
        /\ \/ image' = image
           \/ stage = "loop" /\ image' = image \cup {sorted[loopAt]}
    BY <1>10 DEF OfflineDies
  <2>2. CASE backups' = backups
    BY <1>2, <2>1, <2>2 DEF Kept
  <2>3. CASE CopyTo(CutOffImage) /\ stage = "backup"
    BY <1>2, <2>1, <2>3, CopyKeeps
  <2> QED
    BY Zenon, <2>1, <2>2, <2>3
<1>11. CASE RollbackImage
  <2>1. stage' = "idle" /\ backups' = backups
    BY <1>11 DEF RollbackImage
  <2>2. PICK b \in backups : image' \in {b, CutOffImage}
    BY <1>11 DEF RollbackImage
  <2>3. Unknown \in CutOffImage
    BY DEF CutOffImage
  <2> QED
    BY Zenon, <1>2, <2>1, <2>2, <2>3 DEF Kept
<1>12. CASE ApplyAgain
  BY <1>3, <1>12 DEF ApplyAgain, imageVars
<1>13. CASE UNCHANGED <<orderVars, phase, offlineVars>>
  BY <1>3, <1>13 DEF offlineVars, imageVars
<1> QED
  BY ZenonT(40), <1>4, <1>5, <1>6, <1>7, <1>8, <1>9, <1>10, <1>11, <1>12, <1>13
  DEF OfflineNext, OfflineStep

\* Unless it was skipped there is a complete backup of the original image whenever the
\* image differs from it (create_backup, rollback), but for a cut-off backup restored and
\* for a backup that a second one made in the same second replaced.
THEOREM OfflineKeepsOriginal == OfflineSpec => []OriginalIsKept
<1>1. OfflineInit => OfflineInv
  BY DEF OfflineInit, OfflineInv, Kept
<1>2. OfflineInv => OriginalIsKept
  BY Zenon DEF OfflineInv, Kept, OriginalIsKept
<1> QED
  BY <1>1, <1>2, OfflineInvStep, PTL DEF OfflineSpec

=============================================================================
