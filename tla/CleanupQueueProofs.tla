------------------------- MODULE CleanupQueueProofs -------------------------
(* Safety of the cleanup queue, for every finite set of records, any paths   *)
(* and any limit of retries.                                                 *)
EXTENDS CleanupQueue, WellFoundedInduction, SequenceTheorems, FiniteSetTheorems, TLAPS

USE RecordsAssumption, MaxRetriesAssumption, FileAssumption, CleanupNoneAssumption

\* The records an operation is about to work on, and their stage meanwhile.
Carried(o) ==
    IF o.op \in {"add", "addAll"} THEN ToSet(o.records)
    ELSE IF o.op = "cleanup" THEN {o.record}
    ELSE {}

Due(o) == IF o.op = "cleanup" THEN "fired" ELSE "submitted"

WellFormed(o) == o \in Operations /\ (o.op = "add" => Len(o.records) = 1)

\* A queue q in which every record waits once, in the stages st.
Orderly(q, st) ==
    /\ q \in Seq(Operations)
    /\ \A i \in 1 .. Len(q) : WellFormed(q[i])
    /\ \A i \in 1 .. Len(q) : \A r \in Carried(q[i]) : st[r] = Due(q[i])
    /\ \A i, j \in 1 .. Len(q) : i # j => Carried(q[i]) \intersect Carried(q[j]) = {}

\* An attempt is paid for by a retry, the last one by the end of the record.
Counted ==
    \A r \in Records :
        IF stage[r] = "ended" THEN attempts[r] <= retries[r] + 1
        ELSE attempts[r] = retries[r]

IInv ==
    /\ TypeOK
    /\ NoLostOperation
    /\ TrackedIsLive
    /\ Orderly(pendingOperations, stage)
    /\ Counted

-----------------------------------------------------------------------------
(* Operations.                                                              *)

\* What the fields of an operation are.
LEMMA OperationFacts ==
    ASSUME NEW o \in Operations
    PROVE  /\ o.op \in {"add", "addAll", "cleanup", "cancel", "clear"}
           /\ o.op \in {"add", "addAll"} => o.records \in Seq(Records)
           /\ o.op = "cleanup" => o.record \in Records
           /\ o.op = "cancel" => o.path \in Files
BY DEF Operations

\* The operations the code makes.
LEMMA OperationsMade ==
    /\ \A r \in Records : [op |-> "cleanup", record |-> r] \in Operations
    /\ \A f \in Files : [op |-> "cancel", path |-> f] \in Operations
    /\ [op |-> "clear"] \in Operations
    /\ \A s \in Seq(Records) : [op |-> "add", records |-> s] \in Operations
    /\ \A s \in Seq(Records) : [op |-> "addAll", records |-> s] \in Operations
BY DEF Operations

\* An operation carries records.
LEMMA CarriedRecords ==
    ASSUME NEW o \in Operations
    PROVE  Carried(o) \subseteq Records
BY OperationFacts DEF Carried, ToSet

\* The lists that callers hand to addFiles are sequences of records.
LEMMA ListsAreSequences == SetToAllKPermutations(Records) \subseteq Seq(Records)
<1> SUFFICES ASSUME NEW s \in SUBSET Records, NEW f \in SetToSeqs(s)
             PROVE  f \in Seq(Records)
  BY DEF SetToAllKPermutations
<1>1. Cardinality(s) \in Nat
  BY FS_Subset, FS_CardinalityType
<1>2. f \in [1 .. Cardinality(s) -> Records]
  BY DEF SetToSeqs
<1> QED
  BY <1>1, <1>2

\* A set of positions of a sequence that is not empty has a last one.
LEMMA LastOfSome ==
    ASSUME NEW n \in Nat, NEW S \in SUBSET (1 .. n), S # {}
    PROVE  \E i \in S : \A j \in S : j <= i
<1> DEFINE above(i) == {j \in S : j > i}
           T == {above(i) : i \in S}
<1>1. T \subseteq SUBSET (1 .. n) /\ T # {}
  <2>1. \A i \in S : above(i) \subseteq 1 .. n
    OBVIOUS
  <2> HIDE DEF above
  <2> QED
    BY <2>1
<1>2. IsWellFoundedOn(StrictSubsetOrdering(1 .. n), SUBSET (1 .. n))
  <2>1. IsFiniteSet(1 .. n)
    BY FS_Interval, n \in Int, 1 \in Int
  <2>2. FiniteSubsetsOf(1 .. n) = SUBSET (1 .. n)
    BY <2>1, FS_FiniteSubsetsOfFinite
  <2> QED
    BY <2>2, FS_StrictSubsetOrderingWellFounded
<1>3. PICK x \in T : \A y \in T : <<y, x>> \notin StrictSubsetOrdering(1 .. n)
  <2> HIDE DEF T
  <2> QED
    BY <1>1, <1>2, WFMin, Zenon
<1>4. PICK i \in S : x = above(i)
  OBVIOUS
<1>5. ASSUME NEW j \in S, j > i
      PROVE  FALSE
  <2>1. j \in above(i) /\ j \notin above(j)
    BY <1>5, j \in Int
  <2>2. above(j) \subseteq above(i)
    <3>1. ASSUME NEW k \in S, k > j
          PROVE  k > i
      <4>1. k \in Int /\ j \in Int /\ i \in Int
        OBVIOUS
      <4> QED
        BY <4>1, <3>1, <1>5
    <3> QED
      BY <3>1
  <2>3. above(j) \in SUBSET (1 .. n) /\ above(i) \in SUBSET (1 .. n) /\ above(j) \in T
    OBVIOUS
  <2> HIDE DEF above, T
  <2>4. <<above(j), above(i)>> \in StrictSubsetOrdering(1 .. n)
    BY <2>1, <2>2, <2>3 DEF StrictSubsetOrdering
  <2> QED
    BY <1>3, <1>4, <2>3, <2>4
<1> QED
  BY <1>5

-----------------------------------------------------------------------------
(* One closure o runs, with the others waiting in queue.                    *)

\* What is tracked: the file's record, which is armed, or waits in the queue
\* for its cleanup, or is the one whose cleanup runs now.
Followed(queue, o) ==
    \A f \in Files :
        tasks[f] # None =>
            /\ file[tasks[f]] = f
            /\ \/ stage[tasks[f]] = "armed"
               \/ /\ stage[tasks[f]] = "fired"
                  /\ \/ [op |-> "cleanup", record |-> tasks[f]] \in ToSet(queue)
                     \/ o.op = "cleanup" /\ tasks[f] = o.record

\* What is to be shown of a closure, without the flags of the queue.
Kept ==
    /\ tasks \in [Files -> Records \union {None}]
    /\ retries \in [Records -> 0 .. (MAX_RETRIES - 1)]
    /\ stage \in [Records -> Stages]
    /\ attempts \in [Records -> Nat]
    /\ superseded \subseteq Records
    /\ TrackedIsLive
    /\ Orderly(pendingOperations, stage)
    /\ Counted

\* A queue stays in order when only stages of other records change.
LEMMA OrderlyElsewhere ==
    ASSUME NEW q, NEW st, NEW st2, Orderly(q, st),
           \A i \in 1 .. Len(q) : \A r \in Carried(q[i]) : st2[r] = st[r]
    PROVE  Orderly(q, st2)
BY DEF Orderly

\* An operation that carries nothing may join it.
LEMMA OrderlyAppend ==
    ASSUME NEW q, NEW st, Orderly(q, st), NEW o, WellFormed(o),
           \A r \in Carried(o) : st[r] = Due(o),
           \A i \in 1 .. Len(q) : Carried(q[i]) \intersect Carried(o) = {}
    PROVE  Orderly(Append(q, o), st)
<1>1. q \in Seq(Operations) /\ o \in Operations
  BY DEF Orderly, WellFormed
<1> DEFINE a == Append(q, o)
<1>2. /\ a \in Seq(Operations) /\ Len(a) = Len(q) + 1 /\ Len(q) \in Nat
      /\ \A i \in 1 .. Len(q) : a[i] = q[i]
      /\ a[Len(q) + 1] = o
  BY <1>1, AppendProperties
<1>3. ASSUME NEW i \in 1 .. Len(a)
      PROVE  (i \in 1 .. Len(q) /\ a[i] = q[i]) \/ (i = Len(q) + 1 /\ a[i] = o)
  BY <1>2
<1> HIDE DEF a
<1>4. \A i \in 1 .. Len(a) : WellFormed(a[i])
  BY <1>3 DEF Orderly
<1>5. \A i \in 1 .. Len(a) : \A r \in Carried(a[i]) : st[r] = Due(a[i])
  BY <1>3 DEF Orderly
<1>6. \A i, j \in 1 .. Len(a) : i # j => Carried(a[i]) \intersect Carried(a[j]) = {}
  <2> SUFFICES ASSUME NEW i \in 1 .. Len(a), NEW j \in 1 .. Len(a), i # j
               PROVE  Carried(a[i]) \intersect Carried(a[j]) = {}
    OBVIOUS
  <2>1. CASE i \in 1 .. Len(q) /\ j \in 1 .. Len(q)
    BY <2>1, <1>2 DEF Orderly
  <2>2. CASE i = Len(q) + 1 \/ j = Len(q) + 1
    BY <2>2, <1>2, <1>3
  <2> QED
    BY <2>1, <2>2, <1>3
<1> QED
  BY <1>2, <1>4, <1>5, <1>6 DEF Orderly, a

\* The hypotheses on a closure that is about to run.
Ready(o, queue) ==
    /\ TypeOK
    /\ Counted
    /\ WellFormed(o)
    /\ Orderly(queue, stage)
    /\ \A i \in 1 .. Len(queue) : Carried(queue[i]) \intersect Carried(o) = {}
    /\ \A r \in Carried(o) : stage[r] # "ended"
    /\ Followed(queue, o)

\* A tracked record is one of that path.
LEMMA TrackedHasPath ==
    ASSUME NEW o, NEW queue, Ready(o, queue), NEW g \in Files, tasks[g] # None
    PROVE  tasks[g] \in Records /\ file[tasks[g]] = g
<1>1. tasks[g] \in Records
  BY DEF Ready, TypeOK
<1>2. file[tasks[g]] = g
  BY DEF Ready, Followed
<1> QED
  BY <1>1, <1>2

\* So records tracked for other paths are not disarmed.
LEMMA NotDisarmed ==
    ASSUME NEW o, NEW queue, Ready(o, queue), NEW paths \in SUBSET Files,
           NEW g \in Files \ paths, tasks[g] # None
    PROVE  tasks[g] \notin Disarmed(paths)
<1>1. ASSUME NEW f \in paths, tasks[f] = tasks[g]
      PROVE  FALSE
  <2>1. f \in Files /\ tasks[f] # None
    BY <1>1
  <2>2. file[tasks[f]] = f /\ file[tasks[g]] = g
    BY <2>1, TrackedHasPath, Zenon
  <2> QED
    BY <1>1, <2>2
<1> QED
  BY <1>1 DEF Disarmed

LEMMA RunAddKeeps ==
    ASSUME NEW o, NEW queue, Ready(o, queue), o.op = "add", RunAdd(o.records[1], queue)
    PROVE  Kept'
<1> DEFINE r == o.records[1]
           f == file[r]
           c == [op |-> "cancel", path |-> f]
<1>1. r \in Records /\ r \in Carried(o) /\ f \in Files
  BY OperationFacts DEF Ready, WellFormed, Carried, ToSet
<1>2. /\ pendingOperations' = IF tasks[f] # None THEN Append(queue, c) ELSE queue
      /\ superseded' = superseded \union Disarmed({f})
      /\ tasks' = [tasks EXCEPT ![f] = r]
      /\ stage' = [stage EXCEPT ![r] = "armed"]
      /\ retries' = retries /\ attempts' = attempts
  BY DEF RunAdd
<1>3. /\ tasks' \in [Files -> Records \union {None}]
      /\ retries' \in [Records -> 0 .. (MAX_RETRIES - 1)]
      /\ stage' \in [Records -> Stages]
      /\ attempts' \in [Records -> Nat]
      /\ superseded' \subseteq Records
  BY <1>1, <1>2 DEF Ready, TypeOK, Stages, Disarmed
<1>4. Orderly(queue, stage')
  <2>1. \A i \in 1 .. Len(queue) : \A x \in Carried(queue[i]) : x # r
    BY <1>1 DEF Ready
  <2>2. \A i \in 1 .. Len(queue) : Carried(queue[i]) \subseteq Records
    BY CarriedRecords DEF Ready, Orderly, WellFormed
  <2>3. \A i \in 1 .. Len(queue) : \A x \in Carried(queue[i]) : stage'[x] = stage[x]
    BY <2>1, <2>2, <1>2 DEF Ready, TypeOK
  <2> QED
    BY <2>3, OrderlyElsewhere DEF Ready
<1>5. WellFormed(c) /\ Carried(c) = {}
  BY <1>1, OperationsMade DEF WellFormed, Carried
<1>6. Orderly(pendingOperations', stage')
  BY <1>2, <1>4, <1>5, OrderlyAppend
<1>7. ToSet(queue) \subseteq ToSet(pendingOperations')
  <2>1. CASE pendingOperations' = queue
    BY <2>1
  <2>2. CASE pendingOperations' = Append(queue, c)
    <3>1. queue \in Seq(Operations) /\ c \in Operations
      BY <1>5 DEF Ready, Orderly, WellFormed
    <3>2. \A i \in 1 .. Len(queue) : /\ Append(queue, c)[i] = queue[i]
                                     /\ i \in DOMAIN Append(queue, c)
      BY <3>1, AppendProperties
    <3> QED
      BY <2>2, <3>1, <3>2 DEF ToSet
  <2> QED
    BY <2>1, <2>2, <1>2
<1>8. TrackedIsLive'
  <2> SUFFICES ASSUME NEW g \in Files, tasks'[g] # None
               PROVE  /\ file[tasks'[g]] = g
                      /\ \/ stage'[tasks'[g]] = "armed"
                         \/ /\ stage'[tasks'[g]] = "fired"
                            /\ [op |-> "cleanup", record |-> tasks'[g]]
                                    \in ToSet(pendingOperations')
    BY DEF TrackedIsLive
  <2>1. CASE g = f
    BY <2>1, <1>1, <1>2 DEF Ready, TypeOK
  <2>2. CASE g # f
    <3>1. tasks'[g] = tasks[g] /\ tasks[g] \in Records /\ file[tasks[g]] = g
      BY <2>2, <1>2, ZenonT(40) DEF Ready, TypeOK, Followed
    <3>2. stage'[tasks[g]] = stage[tasks[g]]
      BY <3>1, <2>2, <1>1, <1>2 DEF Ready, TypeOK
    <3> QED
      BY <3>1, <3>2, <1>7 DEF Ready, Followed
  <2> QED
    BY <2>1, <2>2
<1>9. Counted'
  BY <1>1, <1>2 DEF Ready, Counted, TypeOK
<1> QED
  BY <1>3, <1>6, <1>8, <1>9 DEF Kept

\* Clearing timers leaves the waiting records alone, and the queue in order.
LEMMA DisarmKeepsQueue ==
    ASSUME NEW o, NEW queue, Ready(o, queue), NEW paths,
           \A r \in Records \ Carried(o) : stage'[r] = Disarm(paths, stage)[r]
    PROVE  Orderly(queue, stage')
<1>1. ASSUME NEW i \in 1 .. Len(queue), NEW r \in Carried(queue[i])
      PROVE  stage'[r] = stage[r]
  <2>1. r \in Records \ Carried(o)
    BY CarriedRecords DEF Ready, Orderly, WellFormed
  <2>2. stage[r] # "armed"
    BY DEF Ready, Orderly, Due
  <2> QED
    BY <2>1, <2>2 DEF Disarm
<1> QED
  BY <1>1, OrderlyElsewhere DEF Ready

LEMMA RunAddAllKeeps ==
    ASSUME NEW o, NEW queue, Ready(o, queue), o.op = "addAll", RunAddAll(o.records, queue)
    PROVE  Kept'
<1> DEFINE list == o.records
           paths == {file[r] : r \in ToSet(list)}
           Latest(f) == list[CHOOSE i \in DOMAIN list :
                              /\ file[list[i]] = f
                              /\ \A j \in DOMAIN list : file[list[j]] = f => j <= i]
<1>1. list \in Seq(Records) /\ Carried(o) = ToSet(list) /\ ToSet(list) \subseteq Records
  BY OperationFacts DEF Ready, WellFormed, Carried, ToSet
<1>2. /\ pendingOperations' = queue
      /\ superseded' = superseded \union Disarmed(paths)
                       \union {r \in ToSet(list) : r # Latest(file[r])}
      /\ tasks' = [f \in Files |-> IF f \in paths THEN Latest(f) ELSE tasks[f]]
      /\ stage' = [r \in Records |->
                      IF r \notin ToSet(list) THEN Disarm(paths, stage)[r]
                      ELSE IF r = Latest(file[r]) THEN "armed"
                      ELSE "ended"]
      /\ retries' = retries /\ attempts' = attempts
  BY DEF RunAddAll
\* The latest record of a path is in the list and has that path.
<1>3. ASSUME NEW f \in paths
      PROVE  Latest(f) \in ToSet(list) /\ file[Latest(f)] = f
  <2> DEFINE at == {i \in DOMAIN list : file[list[i]] = f}
  <2>1. PICK n \in Nat : DOMAIN list = 1 .. n
    BY <1>1
  <2>2. at \subseteq 1 .. n /\ at # {}
    BY <2>1 DEF ToSet
  <2>5. \E i \in at : \A j \in at : j <= i
    BY <2>1, <2>2, LastOfSome
  <2>6. \E i \in DOMAIN list : /\ file[list[i]] = f
                               /\ \A j \in DOMAIN list : file[list[j]] = f => j <= i
    BY <2>5
  <2> QED
    BY <2>6 DEF ToSet
<1> HIDE DEF Latest
<1>4. \A f \in paths : Latest(f) \in Records /\ f \in Files
  BY <1>1, <1>3
<1>5. /\ tasks' \in [Files -> Records \union {None}]
      /\ retries' \in [Records -> 0 .. (MAX_RETRIES - 1)]
      /\ attempts' \in [Records -> Nat]
      /\ superseded' \subseteq Records
  <2>1. Disarmed(paths) \subseteq Records
    BY <1>1 DEF Disarmed, Ready, TypeOK
  <2> QED
    BY <1>1, <1>2, <1>4, <2>1 DEF Ready, TypeOK
<1>6. stage' \in [Records -> Stages]
  <2>1. \A r \in Records : Disarm(paths, stage)[r] \in Stages
    BY DEF Disarm, Ready, TypeOK, Stages
  <2> QED
    BY <1>2, <2>1 DEF Stages
<1>7. \A r \in Records \ Carried(o) : stage'[r] = Disarm(paths, stage)[r]
  BY <1>1, <1>2
<1>8. Orderly(pendingOperations', stage')
  <2> HIDE DEF paths
  <2> QED
    BY <1>2, <1>7, DisarmKeepsQueue
<1>9. TrackedIsLive'
  <2> SUFFICES ASSUME NEW g \in Files, tasks'[g] # None
               PROVE  /\ file[tasks'[g]] = g
                      /\ \/ stage'[tasks'[g]] = "armed"
                         \/ /\ stage'[tasks'[g]] = "fired"
                            /\ [op |-> "cleanup", record |-> tasks'[g]]
                                    \in ToSet(pendingOperations')
    BY DEF TrackedIsLive
  <2>1. CASE g \in paths
    <3>1. tasks'[g] = Latest(g) /\ Latest(g) \in ToSet(list) /\ file[Latest(g)] = g
      BY <2>1, <1>2, <1>3
    <3>2. stage'[Latest(g)] = "armed"
      BY <3>1, <1>1, <1>2
    <3> QED
      BY <3>1, <3>2
  <2>2. CASE g \notin paths
    <3>1. tasks'[g] = tasks[g] /\ tasks[g] \in Records /\ file[tasks[g]] = g
      BY <2>2, <1>2, ZenonT(40) DEF Ready, TypeOK, Followed
    <3>2. tasks[g] \notin ToSet(list) /\ tasks[g] \notin Disarmed(paths)
      <4>1. tasks[g] \notin ToSet(list)
        BY <3>1, <2>2
      <4>2. paths \in SUBSET Files /\ g \in Files \ paths /\ tasks[g] # None
        BY <1>4, <2>2, <3>1, CleanupNoneAssumption
      <4> HIDE DEF paths
      <4> QED
        BY <4>1, <4>2, NotDisarmed
    <3>3. stage'[tasks[g]] = stage[tasks[g]]
      BY <3>1, <3>2, <1>2 DEF Disarm
    <3> QED
      BY <3>1, <3>3, <1>2 DEF Ready, Followed
  <2> QED
    BY <2>1, <2>2
<1>10. Counted'
  <2> SUFFICES ASSUME NEW r \in Records
               PROVE  IF stage'[r] = "ended" THEN attempts'[r] <= retries'[r] + 1
                      ELSE attempts'[r] = retries'[r]
    BY DEF Counted
  <2>1. attempts'[r] = attempts[r] /\ retries'[r] = retries[r]
        /\ attempts[r] \in Nat /\ retries[r] \in Nat
    BY <1>2 DEF Ready, TypeOK
  <2>2. stage[r] = "ended" => stage'[r] = "ended"
    BY <1>1, <1>2 DEF Ready, Disarm
  <2> QED
    BY <2>1, <2>2 DEF Ready, Counted
<1> QED
  BY <1>5, <1>6, <1>8, <1>9, <1>10 DEF Kept

LEMMA RunDropKeeps ==
    ASSUME NEW o, NEW queue, Ready(o, queue), o.op \in {"cancel", "clear"},
           NEW paths \in SUBSET Files, RunDrop(paths, queue)
    PROVE  Kept'
<1>1. /\ pendingOperations' = queue
      /\ stage' = Disarm(paths, stage)
      /\ tasks' = [f \in Files |-> IF f \in paths THEN None ELSE tasks[f]]
      /\ retries' = retries /\ attempts' = attempts /\ superseded' = superseded
  BY DEF RunDrop
<1>2. /\ tasks' \in [Files -> Records \union {None}]
      /\ retries' \in [Records -> 0 .. (MAX_RETRIES - 1)]
      /\ attempts' \in [Records -> Nat]
      /\ superseded' \subseteq Records
  BY <1>1 DEF Ready, TypeOK
<1>3. stage' \in [Records -> Stages]
  BY <1>1 DEF Disarm, Ready, TypeOK, Stages
<1>4. Orderly(pendingOperations', stage')
  BY <1>1, DisarmKeepsQueue
<1>5. TrackedIsLive'
  <2> SUFFICES ASSUME NEW g \in Files, tasks'[g] # None
               PROVE  /\ file[tasks'[g]] = g
                      /\ \/ stage'[tasks'[g]] = "armed"
                         \/ /\ stage'[tasks'[g]] = "fired"
                            /\ [op |-> "cleanup", record |-> tasks'[g]]
                                    \in ToSet(pendingOperations')
    BY DEF TrackedIsLive
  <2>1. g \notin paths /\ tasks'[g] = tasks[g] /\ tasks[g] \in Records /\ file[tasks[g]] = g
    BY <1>1, ZenonT(40) DEF Ready, TypeOK, Followed
  <2>2. tasks[g] \notin Disarmed(paths)
    BY <2>1, NotDisarmed
  <2>3. stage'[tasks[g]] = stage[tasks[g]]
    BY <2>1, <2>2, <1>1 DEF Disarm
  <2> QED
    BY <2>1, <2>3, <1>1 DEF Ready, Followed
<1>6. Counted'
  <2> SUFFICES ASSUME NEW r \in Records
               PROVE  IF stage'[r] = "ended" THEN attempts'[r] <= retries'[r] + 1
                      ELSE attempts'[r] = retries'[r]
    BY DEF Counted
  <2>1. attempts'[r] = attempts[r] /\ retries'[r] = retries[r]
        /\ attempts[r] \in Nat /\ retries[r] \in Nat
    BY <1>1 DEF Ready, TypeOK
  <2>2. stage[r] = "ended" => stage'[r] = "ended"
    BY <1>1 DEF Disarm
  <2> QED
    BY <2>1, <2>2 DEF Ready, Counted
<1> QED
  BY <1>2, <1>3, <1>4, <1>5, <1>6 DEF Kept

\* cleanupFile: what the file's record becomes, and what is tracked for it.
LEMMA CleanupKeeps ==
    ASSUME NEW o, NEW queue, Ready(o, queue), o.op = "cleanup",
           CleanupDone(o.record, queue) \/ CleanupFailed(o.record, queue)
    PROVE  Kept'
<1> DEFINE r == o.record
<1>1. r \in Records /\ Carried(o) = {r} /\ stage[r] # "ended" /\ file[r] \in Files
  BY OperationFacts DEF Ready, WellFormed, Carried
<1>2. /\ pendingOperations' = queue
      /\ attempts' = [attempts EXCEPT ![r] = @ + 1]
      /\ superseded' = superseded
      /\ \/ /\ stage' = [stage EXCEPT ![r] = "ended"]
            /\ tasks' = [tasks EXCEPT ![file[r]] = None]
            /\ retries' = retries
         \/ /\ stage' = [stage EXCEPT ![r] = "armed"]
            /\ tasks' = [tasks EXCEPT ![file[r]] = r]
            /\ retries[r] < MAX_RETRIES - 1
            /\ retries' = [retries EXCEPT ![r] = @ + 1]
  BY DEF CleanupDone, CleanupFailed
<1>3. /\ tasks' \in [Files -> Records \union {None}]
      /\ retries' \in [Records -> 0 .. (MAX_RETRIES - 1)]
      /\ stage' \in [Records -> Stages]
      /\ attempts' \in [Records -> Nat]
      /\ superseded' \subseteq Records
  <2>1. /\ tasks \in [Files -> Records \union {None}]
        /\ retries \in [Records -> 0 .. (MAX_RETRIES - 1)]
        /\ stage \in [Records -> Stages]
        /\ attempts \in [Records -> Nat]
        /\ superseded \subseteq Records
    BY DEF Ready, TypeOK
  <2>2. tasks' \in [Files -> Records \union {None}]
    BY <1>1, <1>2, <2>1
  <2>3. retries' \in [Records -> 0 .. (MAX_RETRIES - 1)]
    <3>1. CASE retries' = retries
      BY <3>1, <2>1
    <3>2. CASE retries[r] < MAX_RETRIES - 1 /\ retries' = [retries EXCEPT ![r] = @ + 1]
      <4>1. retries[r] + 1 \in 0 .. (MAX_RETRIES - 1)
        BY <1>1, <2>1, <3>2
      <4> QED
        BY <3>2, <2>1, <4>1
    <3> QED
      BY <3>1, <3>2, <1>2
  <2>4. stage' \in [Records -> Stages]
    BY <1>1, <1>2, <2>1 DEF Stages
  <2>5. attempts' \in [Records -> Nat]
    BY <1>1, <1>2, <2>1
  <2> QED
    BY <2>1, <2>2, <2>3, <2>4, <2>5, <1>2
<1>4. \A x \in Records \ {r} : stage'[x] = stage[x]
  BY <1>1, <1>2 DEF Ready, TypeOK
<1>5. Orderly(pendingOperations', stage')
  <2>1. \A i \in 1 .. Len(queue) : \A x \in Carried(queue[i]) : x \in Records \ {r}
    BY <1>1, CarriedRecords DEF Ready, Orderly, WellFormed
  <2> QED
    BY <2>1, <1>2, <1>4, OrderlyElsewhere DEF Ready
<1>6. TrackedIsLive'
  <2> SUFFICES ASSUME NEW g \in Files, tasks'[g] # None
               PROVE  /\ file[tasks'[g]] = g
                      /\ \/ stage'[tasks'[g]] = "armed"
                         \/ /\ stage'[tasks'[g]] = "fired"
                            /\ [op |-> "cleanup", record |-> tasks'[g]]
                                    \in ToSet(pendingOperations')
    BY DEF TrackedIsLive
  <2>1. CASE g = file[r]
    BY <2>1, <1>1, <1>2 DEF Ready, TypeOK
  <2>2. CASE g # file[r]
    <3>1. tasks'[g] = tasks[g] /\ tasks[g] \in Records /\ file[tasks[g]] = g
      <4>1. tasks'[g] = tasks[g]
        BY <2>2, <1>1, <1>2 DEF Ready, TypeOK
      <4> QED
        BY <4>1, TrackedHasPath
    <3>2. tasks[g] # r
      BY <3>1, <2>2
    <3> QED
      BY <3>1, <3>2, <1>2, <1>4 DEF Ready, Followed
  <2> QED
    BY <2>1, <2>2
<1>7. Counted'
  <2> SUFFICES ASSUME NEW x \in Records
               PROVE  IF stage'[x] = "ended" THEN attempts'[x] <= retries'[x] + 1
                      ELSE attempts'[x] = retries'[x]
    BY DEF Counted
  <2>1. CASE x = r
    <3>1. attempts[r] = retries[r] /\ attempts[r] \in Nat /\ retries[r] \in Nat
      BY <1>1 DEF Ready, Counted, TypeOK
    <3>2. attempts'[r] = attempts[r] + 1
      BY <1>1, <1>2 DEF Ready, TypeOK
    <3>3. \/ stage'[r] = "ended" /\ retries'[r] = retries[r]
          \/ stage'[r] = "armed" /\ retries'[r] = retries[r] + 1
      BY <1>1, <1>2 DEF Ready, TypeOK
    <3> QED
      BY <2>1, <3>1, <3>2, <3>3
  <2>2. CASE x # r
    BY <2>2, <1>2, <1>4 DEF Ready, Counted, TypeOK
  <2> QED
    BY <2>1, <2>2
<1> QED
  BY <1>3, <1>5, <1>6, <1>7 DEF Kept

\* A closure that runs keeps what is to be kept.
LEMMA RunKeeps ==
    ASSUME NEW o, NEW queue, Ready(o, queue), Run(o, queue)
    PROVE  Kept'
<1>1. o.op = "cancel" => {o.path} \in SUBSET Files
  BY OperationFacts DEF Ready, WellFormed
<1> QED
  BY <1>1, RunAddKeeps, RunAddAllKeeps, CleanupKeeps, RunDropKeeps DEF Run

-----------------------------------------------------------------------------
(* The turns of the queue.                                                  *)

\* The flags are kept apart from what the closures touch.
LEMMA Assembled ==
    ASSUME Kept', isProcessing' \in BOOLEAN, immediates' \in Nat, NoLostOperation'
    PROVE  IInv'
BY DEF Kept, IInv, TypeOK, Orderly

\* The first closure of the queue can run, and leaves the others in order.
LEMMA HeadIsReady ==
    ASSUME IInv, pendingOperations # <<>>
    PROVE  Ready(Head(pendingOperations), Tail(pendingOperations))
<1> DEFINE q == pendingOperations
           o == Head(q)
           t == Tail(q)
<1>1. q \in Seq(Operations) /\ Orderly(q, stage) /\ TypeOK /\ Counted /\ TrackedIsLive
  BY DEF IInv, TypeOK
<1>2. /\ Len(q) \in Nat \ {0}
      /\ o = q[1]
      /\ t \in Seq(Operations)
      /\ Len(t) = Len(q) - 1
      /\ \A i \in 1 .. Len(t) : t[i] = q[i + 1]
  BY <1>1, HeadTailProperties, EmptySeq
<1> HIDE DEF q, o, t
<1>3. \A i \in 1 .. Len(t) : i + 1 \in 1 .. Len(q) /\ i + 1 # 1 /\ t[i] = q[i + 1]
  BY <1>2
<1>4. 1 \in 1 .. Len(q)
  BY <1>2
<1>5. WellFormed(o)
  BY <1>1, <1>2, <1>4 DEF Orderly
<1>6. Orderly(t, stage)
  <2>1. \A i \in 1 .. Len(t) : WellFormed(t[i])
    BY <1>1, <1>3 DEF Orderly
  <2>2. \A i \in 1 .. Len(t) : \A r \in Carried(t[i]) : stage[r] = Due(t[i])
    BY <1>1, <1>3 DEF Orderly
  <2>3. ASSUME NEW i \in 1 .. Len(t), NEW j \in 1 .. Len(t), i # j
        PROVE  Carried(t[i]) \intersect Carried(t[j]) = {}
    <3>1. i + 1 # j + 1
      BY <2>3
    <3> QED
      BY <1>1, <1>3, <3>1 DEF Orderly
  <2> QED
    BY <1>2, <2>1, <2>2, <2>3 DEF Orderly
<1>7. \A i \in 1 .. Len(t) : Carried(t[i]) \intersect Carried(o) = {}
  BY <1>1, <1>2, <1>3, <1>4 DEF Orderly
<1>8. \A r \in Carried(o) : stage[r] # "ended"
  BY <1>1, <1>2, <1>4 DEF Orderly, Due
<1>9. Followed(t, o)
  <2> SUFFICES ASSUME NEW f \in Files, tasks[f] # None
               PROVE  /\ file[tasks[f]] = f
                      /\ \/ stage[tasks[f]] = "armed"
                         \/ /\ stage[tasks[f]] = "fired"
                            /\ \/ [op |-> "cleanup", record |-> tasks[f]] \in ToSet(t)
                               \/ o.op = "cleanup" /\ tasks[f] = o.record
    BY DEF Followed
  <2> DEFINE cl == [op |-> "cleanup", record |-> tasks[f]]
  <2>1. /\ file[tasks[f]] = f
        /\ stage[tasks[f]] = "armed" \/ (stage[tasks[f]] = "fired" /\ cl \in ToSet(q))
    BY <1>1 DEF TrackedIsLive, q
  <2>2. ASSUME cl \in ToSet(q)
        PROVE  cl \in ToSet(t) \/ (o.op = "cleanup" /\ tasks[f] = o.record)
    <3>1. PICK i \in 1 .. Len(q) : cl = q[i]
      BY <1>1, <2>2 DEF ToSet
    <3>2. CASE i = 1
      BY <3>1, <3>2, <1>2
    <3>3. CASE i # 1
      <4>1. i - 1 \in 1 .. Len(t) /\ (i - 1) + 1 = i
        BY <3>3, <1>2
      <4>2. t[i - 1] = cl
        BY <4>1, <1>3, <3>1
      <4> QED
        BY <1>2, <4>1, <4>2 DEF ToSet
    <3> QED
      BY <3>2, <3>3
  <2> QED
    BY <2>1, <2>2
<1> QED
  BY <1>1, <1>5, <1>6, <1>7, <1>8, <1>9 DEF Ready, q, o, t

\* One setImmediate turn.
LEMMA TurnKeeps ==
    ASSUME IInv, executeNextOperation
    PROVE  IInv'
<1>1. CASE pendingOperations = <<>>
  <2>1. /\ isProcessing' = FALSE /\ immediates' = immediates - 1
        /\ UNCHANGED <<tasks, retries, stage, pendingOperations, attempts, superseded>>
    BY <1>1 DEF executeNextOperation
  <2>2. immediates = 1
    BY DEF IInv, TypeOK, NoLostOperation, executeNextOperation
  <2>3. NoLostOperation' /\ isProcessing' \in BOOLEAN /\ immediates' \in Nat
    <3>1. isProcessing' = FALSE /\ immediates' = 0 /\ pendingOperations' = <<>>
      BY <1>1, <2>1, <2>2
    <3>2. NoLostOperation'
      BY <3>1, Zenon DEF NoLostOperation
    <3> QED
      BY <3>1, <3>2
  <2>4. Kept'
    <3>1. TrackedIsLive' /\ Counted' /\ Orderly(pendingOperations, stage)'
      BY <2>1 DEF IInv, TrackedIsLive, Counted
    <3> QED
      BY <2>1, <3>1 DEF Kept, IInv, TypeOK
  <2> QED
    BY <2>3, <2>4, Assembled
<1>2. CASE pendingOperations # <<>>
  <2>1. PICK o, queue : /\ o = Head(pendingOperations)
                        /\ queue = Tail(pendingOperations)
    OBVIOUS
  <2>2. Run(o, queue) /\ isProcessing' = isProcessing /\ immediates' = immediates
    BY <1>2, <2>1 DEF executeNextOperation
  <2>3. Ready(o, queue)
    BY <1>2, <2>1, HeadIsReady
  <2>4. Kept'
    BY <2>2, <2>3, RunKeeps
  <2>5. isProcessing /\ isProcessing \in BOOLEAN /\ immediates \in Nat
    BY <1>2 DEF IInv, TypeOK, NoLostOperation
  <2>6. NoLostOperation' /\ isProcessing' \in BOOLEAN /\ immediates' \in Nat
    BY <2>2, <2>5 DEF NoLostOperation, IInv
  <2> QED
    BY <2>4, <2>6, Assembled
<1> QED
  BY <1>1, <1>2

-----------------------------------------------------------------------------
(* The calls: o runs at once, or waits with its records in the stages qs.   *)

\* The stage in which a call finds the records it carries.
Before(o) == IF o.op = "cleanup" THEN "armed" ELSE "fresh"

Called(o, qs) ==
    /\ WellFormed(o)
    /\ qs \in [Records -> Stages]
    /\ \A r \in Records \ Carried(o) : qs[r] = stage[r]
    /\ \A r \in Carried(o) : stage[r] = Before(o) /\ qs[r] = Due(o)

\* Nothing is queued for records in these stages.
LEMMA CalledIsNew ==
    ASSUME IInv, NEW o, NEW qs, Called(o, qs)
    PROVE  \A i \in 1 .. Len(pendingOperations) :
               Carried(pendingOperations[i]) \intersect Carried(o) = {}
<1> SUFFICES ASSUME NEW i \in 1 .. Len(pendingOperations),
                    NEW r \in Carried(pendingOperations[i]), r \in Carried(o)
             PROVE  FALSE
  OBVIOUS
<1>1. stage[r] \in {"fired", "submitted"}
  BY DEF IInv, Orderly, Due
<1>2. stage[r] \in {"armed", "fresh"}
  BY DEF Called, Before
<1> QED
  BY <1>1, <1>2

LEMMA WaitsInQueue ==
    ASSUME IInv, NEW o, NEW qs, Called(o, qs), isProcessing,
           pendingOperations' = Append(pendingOperations, o), stage' = qs,
           UNCHANGED <<tasks, retries, isProcessing, immediates, attempts, superseded>>
    PROVE  IInv'
<1>1. pendingOperations \in Seq(Operations) /\ o \in Operations /\ Carried(o) \subseteq Records
  BY CarriedRecords DEF IInv, TypeOK, Called, WellFormed
<1>2. Orderly(pendingOperations', stage')
  <2>1. PICK q, st : q = pendingOperations /\ st = stage
    OBVIOUS
  <2>2. \A i \in 1 .. Len(q) : Carried(q[i]) \intersect Carried(o) = {}
    BY <2>1, CalledIsNew
  <2>3. Orderly(q, st)
    BY <2>1 DEF IInv
  <2>4. \A i \in 1 .. Len(q) : Carried(q[i]) \subseteq Records
    BY <2>3, CarriedRecords DEF Orderly, WellFormed
  <2>5. \A i \in 1 .. Len(q) : \A r \in Carried(q[i]) : qs[r] = st[r]
    BY <2>1, <2>2, <2>4 DEF Called
  <2>6. Orderly(q, qs)
    BY <2>3, <2>5, OrderlyElsewhere
  <2>7. Orderly(Append(q, o), qs)
    BY <2>2, <2>6, OrderlyAppend DEF Called
  <2> QED
    BY <2>1, <2>7
<1>3. ToSet(pendingOperations) \subseteq ToSet(pendingOperations') /\ o \in ToSet(pendingOperations')
  <2>1. /\ \A i \in 1 .. Len(pendingOperations) :
               /\ pendingOperations'[i] = pendingOperations[i]
               /\ i \in DOMAIN pendingOperations'
        /\ pendingOperations'[Len(pendingOperations) + 1] = o
        /\ Len(pendingOperations) + 1 \in DOMAIN pendingOperations'
    BY <1>1, AppendProperties
  <2> QED
    BY <1>1, <2>1 DEF ToSet
<1>4. TrackedIsLive'
  <2> SUFFICES ASSUME NEW g \in Files, tasks[g] # None
               PROVE  /\ file[tasks[g]] = g
                      /\ \/ stage'[tasks[g]] = "armed"
                         \/ /\ stage'[tasks[g]] = "fired"
                            /\ [op |-> "cleanup", record |-> tasks[g]] \in ToSet(pendingOperations')
    BY DEF TrackedIsLive
  <2>1. /\ tasks[g] \in Records
        /\ file[tasks[g]] = g
        /\ \/ stage[tasks[g]] = "armed"
           \/ /\ stage[tasks[g]] = "fired"
              /\ [op |-> "cleanup", record |-> tasks[g]] \in ToSet(pendingOperations)
    BY DEF IInv, TypeOK, TrackedIsLive
  <2>2. CASE tasks[g] \notin Carried(o)
    BY <2>1, <2>2, <1>3 DEF Called
  <2>3. CASE tasks[g] \in Carried(o)
    <3>1. o.op = "cleanup"
      BY <2>1, <2>3 DEF Called, Before
    <3>2. o = [op |-> "cleanup", record |-> tasks[g]]
      BY <3>1, <2>3, <1>1 DEF Carried, Operations
    <3>3. stage'[tasks[g]] = "fired"
      BY <3>1, <2>3 DEF Called, Due
    <3> QED
      BY <2>1, <3>2, <3>3, <1>3
  <2> QED
    BY <2>2, <2>3
<1>5. Counted'
  <2> SUFFICES ASSUME NEW r \in Records
               PROVE  IF stage'[r] = "ended" THEN attempts'[r] <= retries'[r] + 1
                      ELSE attempts'[r] = retries'[r]
    BY DEF Counted
  <2>1. stage'[r] = "ended" <=> stage[r] = "ended"
    BY DEF Called, Before, Due
  <2> QED
    BY <2>1 DEF IInv, Counted
<1>6. NoLostOperation'
  BY DEF IInv, NoLostOperation
<1> QED
  BY <1>2, <1>4, <1>5, <1>6, Assembled DEF IInv, TypeOK, Kept, Called

LEMMA CallKeeps ==
    ASSUME IInv, NEW o, NEW qs, Called(o, qs), safeExecute(o, qs)
    PROVE  IInv'
<1>1. CASE isProcessing
  <2>1. /\ pendingOperations' = Append(pendingOperations, o) /\ stage' = qs
        /\ UNCHANGED <<tasks, retries, isProcessing, immediates, attempts, superseded>>
    BY <1>1 DEF safeExecute
  <2> QED
    BY <1>1, <2>1, WaitsInQueue
<1>2. CASE ~isProcessing
  <2>1. pendingOperations = <<>> /\ immediates = 0
    BY <1>2 DEF IInv, NoLostOperation
  <2>2. o \in Operations
    BY DEF Called, WellFormed
  <2>3. /\ isProcessing' = TRUE /\ immediates' = immediates + 1
        /\ Run(Head(Append(pendingOperations, o)), Tail(Append(pendingOperations, o)))
    BY <1>2 DEF safeExecute
  <2>4. Head(Append(<<>>, o)) = o /\ Tail(Append(<<>>, o)) = <<>>
    BY <2>2
  <2>5. Run(o, <<>>)
    BY <2>1, <2>3, <2>4
  <2>6. Ready(o, <<>>)
    <3>1. Orderly(<<>>, stage)
      BY <2>1 DEF IInv
    <3>2. \A r \in Carried(o) : stage[r] # "ended"
      BY DEF Called, Before
    <3>3. Followed(<<>>, o)
      BY <2>1 DEF IInv, TrackedIsLive, Followed, ToSet
    <3>4. \A i \in 1 .. Len(<<>>) : Carried((<<>>)[i]) \intersect Carried(o) = {}
      OBVIOUS
    <3> QED
      BY <3>1, <3>2, <3>3, <3>4 DEF Ready, IInv, Called
  <2>7. Kept'
    BY <2>5, <2>6, RunKeeps
  <2>8. NoLostOperation' /\ isProcessing' \in BOOLEAN /\ immediates' \in Nat
    <3>1. isProcessing' = TRUE /\ immediates' = 1
      BY <2>1, <2>3
    <3> QED
      BY <3>1 DEF NoLostOperation
  <2> QED
    BY <2>7, <2>8, Assembled
<1> QED
  BY <1>1, <1>2

\* A call of addFile or addFiles, of a list of records nobody handed over yet.
LEMMA AddIsCalled ==
    ASSUME IInv, NEW o, o \in [op : {"add", "addAll"}, records : Seq(Records)],
           o.op = "add" => Len(o.records) = 1, ToSet(o.records) \subseteq Fresh, Submit(o)
    PROVE  IInv'
<1>1. Carried(o) = ToSet(o.records) /\ o.op \in {"add", "addAll"}
  BY DEF Carried
<1>2. WellFormed(o)
  BY DEF WellFormed, Operations
<1>3. PICK qs : qs = Submitted(o)
  OBVIOUS
<1>4. qs = [r \in Records |-> IF r \in ToSet(o.records) THEN "submitted" ELSE stage[r]]
  BY <1>1, <1>3 DEF Submitted
<1>5. stage \in [Records -> Stages]
  BY DEF IInv, TypeOK
<1>6. qs \in [Records -> Stages]
  BY <1>4, <1>5 DEF Stages
<1>7. \A r \in Records \ Carried(o) : qs[r] = stage[r]
  BY <1>1, <1>4
<1>8. \A r \in Carried(o) : stage[r] = Before(o) /\ qs[r] = Due(o)
  BY <1>1, <1>4 DEF Fresh, Before, Due
<1>9. Called(o, qs)
  BY <1>2, <1>6, <1>7, <1>8 DEF Called
<1>10. safeExecute(o, qs)
  BY <1>3 DEF Submit
<1> QED
  BY <1>9, <1>10, CallKeeps

\* A call of cancelCleanup or clearAll.
LEMMA DropIsCalled ==
    ASSUME IInv, NEW o \in Operations, o.op \in {"cancel", "clear"}, Submit(o)
    PROVE  IInv'
<1>1. Carried(o) = {} /\ WellFormed(o)
  BY DEF Carried, WellFormed
<1>2. PICK qs : qs = Submitted(o)
  OBVIOUS
<1>3. qs = stage
  BY <1>2 DEF Submitted
<1>4. Called(o, qs)
  BY <1>1, <1>3 DEF Called, IInv, TypeOK
<1>5. safeExecute(o, qs)
  BY <1>2 DEF Submit
<1> QED
  BY <1>4, <1>5, CallKeeps

\* The timer of a record fires.
LEMMA TimerKeeps ==
    ASSUME IInv, NEW r \in Records, TimerFires(r)
    PROVE  IInv'
<1>1. PICK o, qs : /\ o = [op |-> "cleanup", record |-> r]
                   /\ qs = [stage EXCEPT ![r] = "fired"]
  OBVIOUS
<1>2. o.op = "cleanup" /\ Carried(o) = {r} /\ WellFormed(o)
  BY <1>1, OperationsMade DEF Carried, WellFormed
<1>3. stage \in [Records -> Stages] /\ stage[r] = "armed"
  BY DEF IInv, TypeOK, TimerFires
<1>4. qs \in [Records -> Stages] /\ qs[r] = "fired" /\ \A x \in Records \ {r} : qs[x] = stage[x]
  BY <1>1, <1>3 DEF Stages
<1>5. Called(o, qs)
  BY <1>2, <1>3, <1>4 DEF Called, Before, Due
<1>6. safeExecute(o, qs)
  BY <1>1 DEF TimerFires
<1> QED
  BY <1>5, <1>6, CallKeeps

-----------------------------------------------------------------------------
LEMMA InitIInv == Init => IInv
<1> SUFFICES ASSUME Init PROVE IInv
  OBVIOUS
<1>1. TypeOK
  <2>1. \A r \in Records : 0 \in 0 .. (MAX_RETRIES - 1)
    OBVIOUS
  <2>2. retries \in [Records -> 0 .. (MAX_RETRIES - 1)]
    BY <2>1 DEF Init
  <2>3. tasks \in [Files -> Records \union {None}] /\ attempts \in [Records -> Nat]
    BY DEF Init
  <2>4. stage \in [Records -> Stages]
    BY DEF Init, Stages
  <2>5. pendingOperations \in Seq(Operations)
    BY EmptySeq DEF Init
  <2>6. isProcessing \in BOOLEAN /\ immediates \in Nat /\ superseded \subseteq Records
    BY DEF Init
  <2> QED
    BY <2>2, <2>3, <2>4, <2>5, <2>6 DEF TypeOK
<1>2. Orderly(pendingOperations, stage)
  BY DEF Init, Orderly
<1>3. NoLostOperation /\ TrackedIsLive /\ Counted
  BY DEF Init, NoLostOperation, TrackedIsLive, Counted
<1> QED
  BY <1>1, <1>2, <1>3 DEF IInv

LEMMA StepIInv == IInv /\ [Next]_vars => IInv'
<1> SUFFICES ASSUME IInv, [Next]_vars PROVE IInv'
  OBVIOUS
<1>1. CASE UNCHANGED vars
  BY <1>1 DEF vars, IInv, TypeOK, NoLostOperation, TrackedIsLive, Counted, Orderly
<1>2. ASSUME NEW r \in Records, addFile(r)
      PROVE  IInv'
  <2>1. PICK o : o = [op |-> "add", records |-> <<r>>]
    OBVIOUS
  <2>2. /\ o \in [op : {"add", "addAll"}, records : Seq(Records)]
        /\ Len(o.records) = 1 /\ ToSet(o.records) = {r}
    BY <2>1 DEF ToSet
  <2>3. r \in Fresh /\ Submit(o)
    BY <1>2, <2>1 DEF addFile
  <2> QED
    BY <2>2, <2>3, AddIsCalled
<1>3. ASSUME NEW list \in SetToAllKPermutations(Records), addFiles(list)
      PROVE  IInv'
  <2>1. PICK o : o = [op |-> "addAll", records |-> list]
    OBVIOUS
  <2>2. /\ o \in [op : {"add", "addAll"}, records : Seq(Records)]
        /\ o.op = "addAll" /\ o.records = list
    BY <2>1, ListsAreSequences
  <2>3. ToSet(list) \subseteq Fresh /\ Submit(o)
    BY <1>3, <2>1 DEF addFiles
  <2> QED
    BY <2>2, <2>3, AddIsCalled
<1>4. ASSUME NEW f \in Files, cancelCleanup(f)
      PROVE  IInv'
  <2>1. PICK o : o = [op |-> "cancel", path |-> f]
    OBVIOUS
  <2> QED
    BY <1>4, <2>1, OperationsMade, DropIsCalled DEF cancelCleanup
<1>5. CASE clearAll
  <2>1. PICK o : o = [op |-> "clear"]
    OBVIOUS
  <2> QED
    BY <1>5, <2>1, OperationsMade, DropIsCalled DEF clearAll
<1> QED
  BY <1>1, <1>2, <1>3, <1>4, <1>5, TimerKeeps, TurnKeeps DEF Next

THEOREM QueueIInv == Spec => []IInv
BY InitIInv, StepIInv, PTL DEF Spec

(* The fields of the queue keep their shape, whatever is queued: retries    *)
(* stay below the limit and every queued closure has the records it needs.  *)
THEOREM CleanupTypes == Spec => []TypeOK
BY QueueIInv, PTL DEF IInv

(* safeExecute and executeNextOperation never strand a closure: whenever    *)
(* one is queued, or callers are kept from running theirs, exactly one      *)
(* setImmediate turn is scheduled.                                          *)
THEOREM NothingStranded == Spec => []NoLostOperation
BY QueueIInv, PTL DEF IInv

(* However adds, cancellations, retries and timers interleave, what the     *)
(* task map holds for a path is a record of that path whose timer runs or   *)
(* whose cleanup is queued, so getPendingFiles lists no dead entry.         *)
THEOREM TrackedAlwaysLive == Spec => []TrackedIsLive
BY QueueIInv, PTL DEF IInv

LEMMA CountedBounds == IInv => AttemptsBounded
<1> SUFFICES ASSUME IInv, NEW r \in Records PROVE attempts[r] <= MAX_RETRIES
  BY DEF AttemptsBounded
<1>1. attempts[r] \in Nat /\ retries[r] \in 0 .. (MAX_RETRIES - 1)
  BY DEF IInv, TypeOK
<1>2. attempts[r] <= retries[r] + 1
  BY <1>1 DEF IInv, Counted
<1> QED
  BY <1>1, <1>2

(* The unlink of a record is tried at most MAX_RETRIES times, even when its *)
(* path is cancelled, added again or cleared while a retry is under way.    *)
THEOREM AttemptsAlwaysBounded == Spec => []AttemptsBounded
BY QueueIInv, CountedBounds, PTL

=============================================================================
