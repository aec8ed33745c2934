------------------------- MODULE UploadStreamProofs -------------------------
(* The streamed upload for any set of streams, requests and sizes: its      *)
(* types, its timeouts, the files it saves and the memory it accounts for.  *)
EXTENDS UploadStream, FiniteSetTheorems, WellFoundedInduction, TLAPS

-----------------------------------------------------------------------------
(* Sums over finite sets: what MapThenSumSet computes.  Its fold is a       *)
(* recursive function on the subsets of a set, whose existence and whose    *)
(* values are settled by looking at a smallest set they could fail for.     *)

Picked(s) == CHOOSE x \in s : TRUE

IsSum(w, S, g) ==
    g = [s \in SUBSET S |-> IF s = {} THEN 0 ELSE w[Picked(s)] + g[s \ {Picked(s)}]]

Sum(w, S) == (CHOOSE g : IsSum(w, S, g))[S]

\* Among subsets of a finite set there is a smallest one.
LEMMA SmallestSet ==
    ASSUME NEW S, IsFiniteSet(S), NEW B \in SUBSET SUBSET S, B # {}
    PROVE  \E T \in B : \A U \in B : U \subseteq T => U = T
<1>1. IsWellFoundedOn(StrictSubsetOrdering(S), SUBSET S)
  BY FS_FiniteSubsetsOfFinite, FS_StrictSubsetOrderingWellFounded
<1>2. PICK T \in B : \A U \in B : <<U, T>> \notin StrictSubsetOrdering(S)
  BY <1>1, WFMin, Zenon
<1> QED
  BY <1>2 DEF StrictSubsetOrdering

LEMMA PickedIn ==
    ASSUME NEW s, s # {}
    PROVE  Picked(s) \in s
BY DEF Picked

\* One step of the recursion.
LEMMA SumStep ==
    ASSUME NEW w, NEW S, NEW g, IsSum(w, S, g), NEW s \in SUBSET S
    PROVE  g[s] = IF s = {} THEN 0 ELSE w[Picked(s)] + g[s \ {Picked(s)}]
<1> DEFINE rhs(h, u) == IF u = {} THEN 0 ELSE w[Picked(u)] + h[u \ {Picked(u)}]
<1>1. g = [u \in SUBSET S |-> rhs(g, u)]
  BY DEF IsSum
<1> HIDE DEF rhs
<1>2. g[s] = rhs(g, s)
  BY <1>1
<1> QED
  BY <1>2 DEF rhs

\* Two such functions agree where both are defined.
LEMMA SumUnique ==
    ASSUME NEW w, NEW S, NEW T, NEW g, NEW h, IsSum(w, S, g), IsSum(w, T, h),
           NEW U, U \subseteq S, U \subseteq T, IsFiniteSet(U)
    PROVE  g[U] = h[U]
<1> DEFINE B == {u \in SUBSET U : g[u] # h[u]}
<1>1. SUFFICES ASSUME B # {} PROVE FALSE
  OBVIOUS
<1>2. PICK u \in B : \A v \in B : v \subseteq u => v = u
  <2>1. B \in SUBSET SUBSET U
    OBVIOUS
  <2> HIDE DEF B
  <2> QED
    BY <1>1, <2>1, SmallestSet
<1>3. u \in SUBSET S /\ u \in SUBSET T /\ u \in SUBSET U /\ g[u] # h[u]
  OBVIOUS
<1>4. /\ g[u] = IF u = {} THEN 0 ELSE w[Picked(u)] + g[u \ {Picked(u)}]
      /\ h[u] = IF u = {} THEN 0 ELSE w[Picked(u)] + h[u \ {Picked(u)}]
  <2> HIDE DEF B
  <2> QED
    BY <1>3, SumStep
<1>5. u # {}
  BY <1>3, <1>4
<1>6. u \ {Picked(u)} \notin B
  BY <1>2, <1>5, PickedIn
<1>7. g[u \ {Picked(u)}] = h[u \ {Picked(u)}]
  BY <1>3, <1>6
<1> QED
  BY <1>3, <1>4, <1>5, <1>7

LEMMA SumExists ==
    ASSUME NEW w, NEW S, IsFiniteSet(S)
    PROVE  \E g : IsSum(w, S, g)
<1> DEFINE B == {T \in SUBSET S : ~\E g : IsSum(w, T, g)}
<1>1. SUFFICES ASSUME B # {} PROVE FALSE
  OBVIOUS
<1>2. PICK T \in B : \A U \in B : U \subseteq T => U = T
  <2>1. B \in SUBSET SUBSET S
    OBVIOUS
  <2> HIDE DEF B
  <2> QED
    BY <1>1, <2>1, SmallestSet
<1> DEFINE of(s) == CHOOSE g : IsSum(w, s, g)
           F == [s \in SUBSET T |-> IF s = {} THEN 0 ELSE w[Picked(s)] + Sum(w, s \ {Picked(s)})]
<1>3. T \subseteq S /\ ~\E g : IsSum(w, T, g)
  OBVIOUS
<1>4. ASSUME NEW s, s \subseteq T, s # T
      PROVE  IsSum(w, s, of(s)) /\ IsFiniteSet(s) /\ Sum(w, s) = of(s)[s]
  <2>1. s \notin B /\ s \in SUBSET S
    BY <1>2, <1>3, <1>4
  <2>2. \E g : IsSum(w, s, g)
    BY <2>1
  <2> QED
    BY <1>3, <1>4, <2>2, FS_Subset DEF Sum
<1> HIDE DEF of, B, F
<1>5. ASSUME NEW u, u \subseteq T, u # T
      PROVE  F[u] = Sum(w, u)
  <2>1. F[u] = IF u = {} THEN 0 ELSE w[Picked(u)] + Sum(w, u \ {Picked(u)})
    BY <1>5 DEF F
  <2>2. IsSum(w, u, of(u)) /\ Sum(w, u) = of(u)[u] /\ u \in SUBSET u
    BY <1>4, <1>5
  <2>3. Sum(w, u) = IF u = {} THEN 0 ELSE w[Picked(u)] + of(u)[u \ {Picked(u)}]
    BY <2>2, SumStep
  <2>4. CASE u = {}
    BY <2>1, <2>3, <2>4
  <2>5. CASE u # {}
    <3>1. PICK v : v = u \ {Picked(u)}
      OBVIOUS
    <3>2. v \subseteq u /\ v \subseteq v /\ v \subseteq T /\ v # T
      BY <3>1, <1>5
    <3>3. IsSum(w, v, of(v)) /\ Sum(w, v) = of(v)[v] /\ IsFiniteSet(v)
      BY <1>4, <3>2
    <3>4. of(u)[v] = of(v)[v]
      BY <2>2, <3>2, <3>3, SumUnique
    <3> QED
      BY <2>1, <2>3, <2>5, <3>1, <3>3, <3>4
  <2> QED
    BY <2>4, <2>5
<1>6. ASSUME NEW s \in SUBSET T, s # {}
      PROVE  Sum(w, s \ {Picked(s)}) = F[s \ {Picked(s)}]
  BY <1>5, <1>6, PickedIn
<1>7. IsSum(w, T, F)
  <2>1. F = [s \in SUBSET T |-> IF s = {} THEN 0 ELSE w[Picked(s)] + F[s \ {Picked(s)}]]
    <3> DEFINE lhs(s) == IF s = {} THEN 0 ELSE w[Picked(s)] + Sum(w, s \ {Picked(s)})
               rhs(s) == IF s = {} THEN 0 ELSE w[Picked(s)] + F[s \ {Picked(s)}]
    <3>1. \A s \in SUBSET T : lhs(s) = rhs(s)
      BY <1>6
    <3>2. F = [s \in SUBSET T |-> lhs(s)]
      BY DEF F
    <3> HIDE DEF lhs, rhs
    <3>3. F = [s \in SUBSET T |-> rhs(s)]
      BY <3>1, <3>2
    <3> QED
      BY <3>3 DEF rhs
  <2> QED
    BY <2>1 DEF IsSum
<1> QED
  BY <1>3, <1>7

\* The value of a sum, one element at a time.
LEMMA SumPicked ==
    ASSUME NEW w, NEW S, IsFiniteSet(S)
    PROVE  Sum(w, S) = IF S = {} THEN 0 ELSE w[Picked(S)] + Sum(w, S \ {Picked(S)})
<1> DEFINE g == CHOOSE f : IsSum(w, S, f)
           R == S \ {Picked(S)}
           h == CHOOSE f : IsSum(w, R, f)
<1>1. IsFiniteSet(R) /\ R \subseteq S
  BY FS_Subset
<1> HIDE DEF R
<1>2. IsSum(w, S, g) /\ IsSum(w, R, h)
  BY <1>1, SumExists
<1>3. Sum(w, S) = g[S] /\ Sum(w, R) = h[R]
  BY DEF Sum
<1> HIDE DEF g, h
<1>4. g[R] = h[R]
  BY <1>1, <1>2, SumUnique
<1>5. g[S] = IF S = {} THEN 0 ELSE w[Picked(S)] + g[S \ {Picked(S)}]
  <2>1. S \in SUBSET S
    OBVIOUS
  <2>2. IsSum(w, S, g)
    BY <1>2
  <2> QED
    BY <2>1, <2>2, SumStep
<1> QED
  BY <1>3, <1>4, <1>5 DEF R

LEMMA SumType ==
    ASSUME NEW D, NEW w \in [D -> Int], NEW S \in SUBSET D, IsFiniteSet(S)
    PROVE  Sum(w, S) \in Int
<1> DEFINE B == {T \in SUBSET S : Sum(w, T) \notin Int}
<1>1. SUFFICES ASSUME B # {} PROVE FALSE
  OBVIOUS
<1>2. PICK T \in B : \A U \in B : U \subseteq T => U = T
  <2>1. B \in SUBSET SUBSET S
    OBVIOUS
  <2> HIDE DEF B
  <2> QED
    BY <1>1, <2>1, SmallestSet
<1>3. T \subseteq S /\ Sum(w, T) \notin Int
  OBVIOUS
<1>4. IsFiniteSet(T)
  BY <1>3, FS_Subset
<1>5. Sum(w, T) = IF T = {} THEN 0 ELSE w[Picked(T)] + Sum(w, T \ {Picked(T)})
  BY <1>4, SumPicked
<1>6. T # {}
  BY <1>3, <1>5
<1>7. Picked(T) \in T
  BY <1>6, PickedIn
<1>8. T \ {Picked(T)} \notin B
  BY <1>2, <1>7
<1>9. Sum(w, T \ {Picked(T)}) \in Int /\ w[Picked(T)] \in Int
  BY <1>3, <1>7, <1>8
<1> QED
  BY <1>3, <1>5, <1>6, <1>9

\* Any element may be taken first.
LEMMA SumWithout ==
    ASSUME NEW D, NEW w \in [D -> Int], NEW S \in SUBSET D, IsFiniteSet(S), NEW x \in S
    PROVE  Sum(w, S) = w[x] + Sum(w, S \ {x})
<1> DEFINE B == {T \in SUBSET S : \E y \in T : Sum(w, T) # w[y] + Sum(w, T \ {y})}
<1>1. SUFFICES ASSUME B # {} PROVE FALSE
  <2>1. S \in SUBSET S
    OBVIOUS
  <2> QED
    BY <2>1
<1>2. PICK T \in B : \A U \in B : U \subseteq T => U = T
  <2>1. B \in SUBSET SUBSET S
    OBVIOUS
  <2> HIDE DEF B
  <2> QED
    BY <1>1, <2>1, SmallestSet
<1>3. T \subseteq S
  OBVIOUS
<1>4. PICK y \in T : Sum(w, T) # w[y] + Sum(w, T \ {y})
  OBVIOUS
<1>5. PICK p : p = Picked(T)
  OBVIOUS
<1>6. IsFiniteSet(T) /\ p \in T /\ y \in D /\ p \in D
  BY <1>3, <1>4, <1>5, FS_Subset, PickedIn
<1>7. Sum(w, T) = w[p] + Sum(w, T \ {p})
  BY <1>5, <1>6, SumPicked
<1>8. y # p
  BY <1>4, <1>7
<1>9. T \ {p} \notin B /\ T \ {y} \notin B /\ y \in T \ {p} /\ p \in T \ {y}
  BY <1>2, <1>4, <1>6, <1>8
<1>10. /\ Sum(w, T \ {p}) = w[y] + Sum(w, (T \ {p}) \ {y})
       /\ Sum(w, T \ {y}) = w[p] + Sum(w, (T \ {y}) \ {p})
  BY <1>3, <1>9
<1>11. PICK rest : rest = (T \ {p}) \ {y} /\ rest = (T \ {y}) \ {p}
  OBVIOUS
<1>12. IsFiniteSet(rest) /\ rest \in SUBSET D
  BY <1>3, <1>6, <1>11, FS_Subset
<1>13. Sum(w, rest) \in Int /\ w[p] \in Int /\ w[y] \in Int
  BY <1>6, <1>12, SumType
<1>14. Sum(w, T \ {p}) = w[y] + Sum(w, rest) /\ Sum(w, T \ {y}) = w[p] + Sum(w, rest)
  BY <1>10, <1>11
<1>15. w[p] + (w[y] + Sum(w, rest)) = w[y] + (w[p] + Sum(w, rest))
  BY <1>13
<1> QED
  BY <1>4, <1>7, <1>14, <1>15

LEMMA SumNonnegative ==
    ASSUME NEW D, NEW w \in [D -> Int], NEW S \in SUBSET D, IsFiniteSet(S),
           \A x \in S : w[x] >= 0
    PROVE  Sum(w, S) \in Nat
<1> DEFINE B == {T \in SUBSET S : Sum(w, T) \notin Nat}
<1>1. SUFFICES ASSUME B # {} PROVE FALSE
  OBVIOUS
<1>2. PICK T \in B : \A U \in B : U \subseteq T => U = T
  <2>1. B \in SUBSET SUBSET S
    OBVIOUS
  <2> HIDE DEF B
  <2> QED
    BY <1>1, <2>1, SmallestSet
<1>3. T \subseteq S /\ Sum(w, T) \notin Nat
  OBVIOUS
<1>4. IsFiniteSet(T)
  BY <1>3, FS_Subset
<1>5. Sum(w, T) = IF T = {} THEN 0 ELSE w[Picked(T)] + Sum(w, T \ {Picked(T)})
  BY <1>4, SumPicked
<1>6. T # {}
  BY <1>3, <1>5
<1>7. Picked(T) \in T
  BY <1>6, PickedIn
<1>8. T \ {Picked(T)} \notin B
  BY <1>2, <1>7
<1>9. Sum(w, T \ {Picked(T)}) \in Nat /\ w[Picked(T)] \in Int /\ w[Picked(T)] >= 0
  BY <1>3, <1>7, <1>8
<1> QED
  BY <1>3, <1>5, <1>6, <1>9

LEMMA SumIsMapThenSum ==
    ASSUME NEW S
    PROVE  MapThenSumSet(LAMBDA l : fileSize[l], S) = Sum(fileSize, S)
BY DEF MapThenSumSet, MapThenFoldSet, Sum, IsSum, Picked

-----------------------------------------------------------------------------
LEMMA UseMemoryType == useMemory \in [Lives -> BOOLEAN]
BY DEF useMemory

USE UploadNoneAssumption, TotalChunksAssumption, SizesAssumption, KindsAssumption, UseMemoryType

\* The map holds a stream under its own id.
OwnId ==
    /\ streams \in [Ids -> Lives \union {None}]
    /\ \A i \in Ids : streams[i] # None => id[streams[i]] = i

Tracked == OwnId /\ TimersMatchStreams

CallType == {Idle} \union ChunkCalls \union MergeCalls \union SaveCalls

\* A suspended request works for a stream that was created; a merge has read
\* fewer chunks than there are.
Suspended(cs) ==
    /\ cs \in [Calls -> CallType]
    /\ \A c \in Calls :
          cs[c] # Idle =>
              /\ cs[c].life \in created
              /\ cs[c].op = "merge" => Len(cs[c].got) < totalChunks[cs[c].life]

FieldsOK ==
    /\ missingChunks \in [Lives -> SUBSET Chunks]
    /\ receivedChunks \in [Lives -> Nat]
    /\ memoryChunks \in [Lives -> SUBSET Chunks]

DiskOK ==
    /\ tempDirs \subseteq Ids
    /\ chunkFiles \in [Ids -> [Chunks -> Contents \union {None}]]

HistoryOK ==
    /\ timers \subseteq created
    /\ created \subseteq Lives
    /\ late \subseteq created
    /\ disturbed \subseteq Lives

FinalsOK ==
    /\ finalFiles \in [FileNames -> Contents \union {None}]
    /\ handles \in [Calls -> Handles]
    /\ kept \subseteq Lives

AccountOK ==
    /\ memoryUsage \in Int
    /\ skews \subseteq {"negative", "clamped"}

IInv ==
    /\ Tracked
    /\ AccountOK
    /\ FinalsOK
    /\ FieldsOK
    /\ DiskOK
    /\ Suspended(calls)
    /\ HistoryOK

-----------------------------------------------------------------------------
\* cleanupStream keeps both, whatever timer its caller has used up before.
LEMMA CleanupKeeps ==
    ASSUME Tracked, NEW i \in Ids, NEW cs, NEW ts \in SUBSET timers,
           \A l \in timers \ ts : id[l] = i,
           cleanupStream(i, cs, ts), late' = late
    PROVE  Tracked'
<1>1. \A l \in Lives : id[l] \in Ids
  BY DEF Ids
<1>2. CASE streams[i] = None
  <2>1. timers' = ts /\ streams' = streams
    BY <1>2 DEF cleanupStream, table
  <2>2. \A l \in Lives : Live(l) => id[l] # i
    BY <1>2 DEF Live
  <2>3. \A l \in Lives : Live(l) => l \in ts
    BY <2>2 DEF Tracked, TimersMatchStreams
  <2> QED
    BY <2>1, <2>3 DEF Tracked, OwnId, TimersMatchStreams, Live
<1>3. CASE streams[i] # None
  <2>1. PICK l : l = streams[i]
    OBVIOUS
  <2>2. l \in Lives /\ id[l] = i
    BY <1>3, <2>1 DEF Tracked, OwnId
  <2>3. streams' = [streams EXCEPT ![i] = None] /\ timers' = ts \ {l}
    BY <1>3, <2>1 DEF cleanupStream, Cleared
  <2>4. OwnId'
    BY <2>3 DEF Tracked, OwnId
  <2>5. ASSUME NEW m \in Lives
        PROVE  /\ Live(m)' <=> (Live(m) /\ id[m] # i)
               /\ Live(m) /\ id[m] = i => m = l
    BY <1>1, <2>1, <2>3 DEF Tracked, OwnId, Live
  <2>6. TimersMatchStreams'
    <3> SUFFICES ASSUME NEW m \in Lives
                 PROVE  /\ Live(m)' => m \in timers'
                        /\ m \in timers' => Live(m)' \/ m \in late'
      BY DEF TimersMatchStreams
    <3>1. ASSUME Live(m)'
          PROVE  m \in timers'
      <4>1. Live(m) /\ id[m] # i
        BY <2>5, <3>1
      <4>2. m \in timers
        BY <4>1 DEF Tracked, TimersMatchStreams
      <4> QED
        BY <2>2, <2>3, <4>1, <4>2
    <3>2. ASSUME m \in timers', m \notin late'
          PROVE  Live(m)'
      <4>1. m \in timers /\ m # l /\ m \notin late
        BY <2>3, <3>2
      <4>2. Live(m)
        BY <4>1 DEF Tracked, TimersMatchStreams
      <4> QED
        BY <2>5, <4>1, <4>2
    <3> QED
      BY <3>1, <3>2
  <2> QED
    BY <2>4, <2>6 DEF Tracked
<1> QED
  BY <1>2, <1>3

\* A counted chunk starts a timer, and its stream is late if it is gone.
LEMMA ReceivedKeeps ==
    ASSUME Tracked, NEW l \in Lives, NEW k, Received(l, k), streams' = streams
    PROVE  Tracked'
<1>1. timers' = timers \union {l} /\ late' = IF Live(l) THEN late ELSE late \union {l}
  BY DEF Received
<1>2. \A m \in Lives : Live(m)' <=> Live(m)
  BY DEF Live
<1>3. TimersMatchStreams'
  <2> SUFFICES ASSUME NEW m \in Lives
               PROVE  /\ Live(m)' => m \in timers'
                      /\ m \in timers' => Live(m)' \/ m \in late'
    BY DEF TimersMatchStreams
  <2> QED
    BY <1>1, <1>2 DEF Tracked, TimersMatchStreams
<1> QED
  BY <1>3 DEF Tracked, OwnId

\* Steps that touch neither the map, nor a timer, nor a removed stream.
LEMMA OtherKeeps ==
    ASSUME Tracked, streams' = streams, timers' = timers, late' = late
    PROVE  Tracked'
BY DEF Tracked, OwnId, TimersMatchStreams, Live

LEMMA CreateKeeps ==
    ASSUME Tracked, NEW l \in Lives, createStream(l)
    PROVE  Tracked'
<1>1. /\ streams[id[l]] = None /\ streams' = [streams EXCEPT ![id[l]] = l]
      /\ timers' = timers \union {l} /\ late' = late /\ id[l] \in Ids
  BY DEF createStream, Ids
<1>2. OwnId'
  BY <1>1 DEF Tracked, OwnId
<1>3. \A m \in Lives : /\ id[m] \in Ids
                       /\ Live(m)' <=> (m = l \/ Live(m))
  BY <1>1 DEF Tracked, OwnId, Live, Ids
<1>4. TimersMatchStreams'
  <2> SUFFICES ASSUME NEW m \in Lives
               PROVE  /\ Live(m)' => m \in timers'
                      /\ m \in timers' => Live(m)' \/ m \in late'
    BY DEF TimersMatchStreams
  <2> QED
    BY <1>1, <1>3 DEF Tracked, TimersMatchStreams
<1> QED
  BY <1>2, <1>4 DEF Tracked

-----------------------------------------------------------------------------
(* Types.                                                                   *)

\* What the fields of a suspended request are.
LEMMA CallFacts ==
    ASSUME NEW r \in CallType
    PROVE  /\ r.op = "idle" <=> r = Idle
           /\ r.op = "chunk" => r \in ChunkCalls
           /\ r.op = "merge" => r \in MergeCalls
           /\ r.op = "save" => r \in SaveCalls
           /\ r.op \in {"idle", "chunk", "merge", "save"}
           /\ r # Idle => r.life \in Lives
BY DEF CallType, Idle, ChunkCalls, MergeCalls, SaveCalls

LEMMA ChunksAreChunks ==
    ASSUME NEW l \in Lives
    PROVE  /\ ChunksOf(l) \subseteq Chunks /\ id[l] \in Ids /\ 0 \in ChunksOf(l)
           /\ filename[l] \in FileNames
BY DEF Chunks, ChunksOf, Ids, FileNames

\* Most steps leave the final files alone; a cleanup may remove one.
LEMMA FinalsStay ==
    ASSUME FinalsOK, UNCHANGED finals
    PROVE  FinalsOK'
BY DEF FinalsOK, finals

LEMMA DeletedFinals ==
    ASSUME FinalsOK, NEW i, deleteFinalFile(i)
    PROVE  FinalsOK'
<1>1. ASSUME NEW f, Unlink(f)
      PROVE  FinalsOK'
  BY <1>1 DEF FinalsOK, Unlink, Hit, Handles
<1>2. UNCHANGED finals \/ \E f : Unlink(f)
  BY DEF deleteFinalFile
<1> QED
  BY <1>1, <1>2, FinalsStay

\* A request that is answered leaves the others as they are.
LEMMA AnswerKeeps ==
    ASSUME Suspended(calls), NEW c \in Calls, NEW cs, cs = [calls EXCEPT ![c] = Idle]
    PROVE  Suspended(cs)
BY DEF Suspended, CallType

\* So does one that goes on, as r.
LEMMA GoOnKeeps ==
    ASSUME Suspended(calls), NEW c \in Calls, NEW r \in CallType, r.life \in created,
           r.op = "merge" => Len(r.got) < totalChunks[r.life],
           NEW cs, cs = [calls EXCEPT ![c] = r]
    PROVE  Suspended(cs)
BY DEF Suspended

\* Removing a directory changes only where chunk requests are.
LEMMA UnlinkedKeeps ==
    ASSUME NEW cs, Suspended(cs), NEW i
    PROVE  Suspended(Unlinked(cs, i))
<1> DEFINE us == Unlinked(cs, i)
<1>1. ASSUME NEW c \in Calls
      PROVE  /\ us[c] \in CallType
             /\ us[c] # Idle =>
                    /\ us[c].life \in created
                    /\ us[c].op = "merge" => Len(us[c].got) < totalChunks[us[c].life]
  <2>1. cs[c] \in CallType
    BY DEF Suspended
  <2>2. CASE cs[c].op = "chunk" /\ cs[c].at = "write" /\ id[cs[c].life] = i
    <3>1. us[c] = [cs[c] EXCEPT !.at = "unlinked"]
      BY <2>2 DEF Unlinked
    <3>2. cs[c] \in ChunkCalls /\ cs[c] # Idle
      BY <2>1, <2>2, CallFacts
    <3>3. us[c] \in ChunkCalls /\ us[c].life = cs[c].life /\ us[c].op = "chunk"
      BY <3>1, <3>2 DEF ChunkCalls
    <3> QED
      BY <3>2, <3>3 DEF Suspended, CallType
  <2>3. CASE ~(cs[c].op = "chunk" /\ cs[c].at = "write" /\ id[cs[c].life] = i)
    <3>1. us[c] = cs[c]
      BY <2>3 DEF Unlinked
    <3> QED
      BY <2>1, <3>1 DEF Suspended
  <2> QED
    BY <2>2, <2>3
<1>2. us \in [Calls -> CallType]
  BY <1>1 DEF Unlinked
<1> QED
  BY <1>1, <1>2 DEF Suspended

\* What is given back leaves a number.
LEMMA GivenBack ==
    ASSUME NEW m \in Int, NEW n \in Int
    PROVE  Max({0, m - n}) = IF m < n THEN 0 ELSE m - n
<1>1. CASE m - n >= 0
  <2>1. \A x \in {0, m - n} : (\A y \in {0, m - n} : x >= y) <=> x = m - n
    BY <1>1
  <2> QED
    BY <1>1, <2>1 DEF Max
<1>2. CASE m - n < 0
  <2>1. \A x \in {0, m - n} : (\A y \in {0, m - n} : x >= y) <=> x = 0
    BY <1>2
  <2> QED
    BY <1>2, <2>1 DEF Max
<1> QED
  BY <1>1, <1>2

LEMMA CleanupTypes ==
    ASSUME IInv, NEW i \in Ids, NEW cs, Suspended(cs), NEW ts, cleanupStream(i, cs, ts)
    PROVE  /\ AccountOK'
           /\ memoryChunks' \in [Lives -> SUBSET Chunks]
           /\ DiskOK'
           /\ timers' \subseteq ts
           /\ calls' \in {cs, Unlinked(cs, i)}
<1>1. CASE streams[i] = None
  BY <1>1 DEF cleanupStream, KeepDirectory, disk, table, IInv, FieldsOK, DiskOK, AccountOK
<1>2. CASE streams[i] # None
  <2>1. PICK l \in Lives : l = streams[i]
    BY <1>2 DEF IInv, Tracked, OwnId
  <2>2. /\ timers' = ts \ {l}
        /\ GiveBack(l)
        /\ memoryChunks' = [memoryChunks EXCEPT ![l] = {}]
        /\ RemoveDirectory(i, cs) \/ KeepDirectory(cs)
    BY <1>2, <2>1 DEF cleanupStream, Cleared
  <2>3. AccountOK'
    <3>1. PICK m, n : m = memoryUsage /\ n = fileSize[l] /\ m \in Int /\ n \in Int
      BY DEF IInv, AccountOK
    <3>2. Max({0, m - n}) \in Int
      BY <3>1, GivenBack
    <3>3. memoryUsage' \in {m, Max({0, m - n})} /\ skews' \in {skews, skews \union {"clamped"}}
      BY <2>2, <3>1 DEF GiveBack
    <3> QED
      BY <3>1, <3>2, <3>3 DEF IInv, AccountOK
  <2>4. memoryChunks' \in [Lives -> SUBSET Chunks]
    BY <2>2 DEF IInv, FieldsOK
  <2>5. DiskOK' /\ calls' \in {cs, Unlinked(cs, i)}
    <3>1. CASE RemoveDirectory(i, cs)
      BY <3>1 DEF RemoveDirectory, IInv, DiskOK
    <3>2. CASE KeepDirectory(cs)
      BY <3>2 DEF KeepDirectory, disk, IInv, DiskOK
    <3> QED
      BY <2>2, <3>1, <3>2
  <2> QED
    BY <2>2, <2>3, <2>4, <2>5
<1> QED
  BY <1>1, <1>2

\* The calls after a cleanup are suspended as those before it.
LEMMA CleanupCalls ==
    ASSUME IInv, NEW i \in Ids, NEW cs, Suspended(cs), NEW ts, cleanupStream(i, cs, ts),
           created' = created
    PROVE  Suspended(calls)'
<1>1. PICK us : us = calls'
  OBVIOUS
<1>2. Suspended(us)
  BY <1>1, CleanupTypes, UnlinkedKeeps
<1> QED
  BY <1>1, <1>2 DEF Suspended

\* A cleanup whose caller leaves the calls cs and the timers ts.
LEMMA CleanupIInv ==
    ASSUME IInv, NEW i \in Ids, NEW cs, Suspended(cs), NEW ts \in SUBSET timers,
           \A l \in timers \ ts : id[l] = i, cleanupStream(i, cs, ts),
           UNCHANGED <<missingChunks, receivedChunks, created, late, disturbed>>,
           FinalsOK'
    PROVE  IInv'
<1>1. Tracked'
  BY CleanupKeeps DEF IInv
<1>2. Suspended(calls)'
  BY CleanupCalls
<1>3. AccountOK' /\ FieldsOK' /\ DiskOK'
  BY CleanupTypes DEF IInv, FieldsOK
<1>4. HistoryOK'
  BY CleanupTypes DEF IInv, HistoryOK
<1> QED
  BY <1>1, <1>2, <1>3, <1>4 DEF IInv

\* A chunk of a created stream is counted, the calls are then as in cs.
LEMMA ReceivedIInv ==
    ASSUME IInv, NEW l \in created, NEW k, Received(l, k), UNCHANGED <<table, created>>,
           NEW cs, Suspended(cs), calls' = cs,
           memoryChunks' \in [Lives -> SUBSET Chunks], DiskOK',
           UNCHANGED <<finals, disturbed>>
    PROVE  IInv'
<1>1. l \in Lives
  BY DEF IInv, HistoryOK
<1>2. Tracked'
  BY <1>1, ReceivedKeeps DEF IInv, table
<1>3. FieldsOK'
  <2>1. missingChunks[l] \ {k} \in SUBSET Chunks /\ receivedChunks[l] + 1 \in Nat
    BY <1>1 DEF IInv, FieldsOK
  <2>2. /\ missingChunks' = [missingChunks EXCEPT ![l] = @ \ {k}]
        /\ receivedChunks' = [receivedChunks EXCEPT ![l] = @ + 1]
    BY DEF Received
  <2>3. missingChunks' \in [Lives -> SUBSET Chunks]
    BY <1>1, <2>1, <2>2 DEF IInv, FieldsOK
  <2>4. receivedChunks' \in [Lives -> Nat]
    BY <1>1, <2>1, <2>2 DEF IInv, FieldsOK
  <2> QED
    BY <2>3, <2>4 DEF FieldsOK
<1>4. HistoryOK'
  BY <1>1 DEF IInv, HistoryOK, Received
<1>5. Suspended(calls)'
  BY DEF Suspended
<1>6. FinalsOK'
  BY FinalsStay DEF IInv
<1> QED
  BY <1>2, <1>3, <1>4, <1>5, <1>6 DEF IInv, AccountOK, table

\* A step of a request that touches neither the map, nor the fields, nor a timer.
LEMMA RequestIInv ==
    ASSUME IInv, NEW cs, Suspended(cs), calls' = cs, DiskOK', FinalsOK',
           disturbed' \subseteq Lives, UNCHANGED <<table, fields, timers, created, late>>
    PROVE  IInv'
<1>1. Tracked'
  BY OtherKeeps DEF IInv, table
<1>2. Suspended(calls)'
  BY DEF Suspended
<1> QED
  BY <1>1, <1>2 DEF IInv, FieldsOK, HistoryOK, AccountOK, table, fields

-----------------------------------------------------------------------------
(* The actions.                                                             *)

LEMMA InitIInv == Init => IInv
<1> SUFFICES ASSUME Init PROVE IInv
  OBVIOUS
<1>1. Tracked
  BY DEF Init, Tracked, OwnId, TimersMatchStreams, Live, Ids
<1>2. FieldsOK
  BY ChunksAreChunks DEF Init, FieldsOK
<1>3. DiskOK
  BY DEF Init, DiskOK
<1>4. Suspended(calls)
  BY DEF Init, Suspended, CallType
<1>5. HistoryOK /\ AccountOK
  BY DEF Init, HistoryOK, AccountOK
<1>6. FinalsOK
  BY DEF Init, FinalsOK, Handles
<1> QED
  BY <1>1, <1>2, <1>3, <1>4, <1>5, <1>6 DEF IInv

LEMMA ResetIInv ==
    ASSUME IInv, NEW i \in Ids, Reset(i)
    PROVE  IInv'
<1>1. PICK cs, ts : cs = calls /\ ts = timers
  OBVIOUS
<1>2. /\ cleanupStream(i, cs, ts) /\ deleteFinalFile(i)
      /\ UNCHANGED <<missingChunks, receivedChunks, created, late, disturbed>>
  BY <1>1 DEF Reset
<1>3. Suspended(cs) /\ FinalsOK'
  BY <1>1, <1>2, DeletedFinals DEF IInv
<1> QED
  BY <1>1, <1>2, <1>3, CleanupIInv

LEMMA TimeoutIInv ==
    ASSUME IInv, NEW l \in Lives, Timeout(l)
    PROVE  IInv'
<1>1. PICK cs, ts, i : cs = calls /\ ts = timers \ {l} /\ i = id[l]
  OBVIOUS
<1>2. /\ cleanupStream(i, cs, ts) /\ deleteFinalFile(i)
      /\ UNCHANGED <<missingChunks, receivedChunks, created, late, disturbed>>
  BY <1>1 DEF Timeout
<1>3. Suspended(cs) /\ FinalsOK' /\ i \in Ids
  BY <1>1, <1>2, ChunksAreChunks, DeletedFinals DEF IInv
<1> QED
  BY <1>1, <1>2, <1>3, CleanupIInv

LEMMA SavedIInv ==
    ASSUME IInv, NEW c \in Calls, Saved(c)
    PROVE  IInv'
<1>1. PICK call : call = calls[c]
  OBVIOUS
<1>2. calls[c] \in CallType /\ call.op = "save" /\ call.life \in Lives
  BY <1>1, CallFacts DEF IInv, Suspended, Saved
<1>3. PICK cs, ts, i : cs = [calls EXCEPT ![c] = Idle] /\ ts = timers /\ i = id[call.life]
  OBVIOUS
<1>4. /\ cleanupStream(i, cs, ts)
      /\ UNCHANGED <<missingChunks, receivedChunks, created, late, disturbed>>
  BY <1>1, <1>3 DEF Saved
<1>5. Suspended(cs) /\ i \in Ids
  BY <1>2, <1>3, AnswerKeeps, ChunksAreChunks DEF IInv
<1>6. FinalsOK'
  <2>1. Final(c) \in Contents /\ filename[call.life] \in FileNames
    BY <1>1, <1>2, ChunksAreChunks DEF Final, Contents
  <2>2. /\ handles' = [handles EXCEPT ![c] = "closed"]
        /\ finalFiles' \in {finalFiles, [finalFiles EXCEPT ![filename[call.life]] = Final(c)]}
        /\ kept' \in {kept, kept \union {call.life}}
    BY <1>1 DEF Saved
  <2> QED
    BY <1>2, <2>1, <2>2 DEF IInv, FinalsOK, Handles
<1> QED
  BY <1>3, <1>4, <1>5, <1>6, CleanupIInv

LEMMA CreateIInv ==
    ASSUME IInv, NEW l \in Lives, createStream(l)
    PROVE  IInv'
<1>1. /\ ~OverLimit(l)
      /\ created' = created \union {l}
      /\ timers' = timers \union {l}
      /\ \/ /\ memoryUsage' = memoryUsage + fileSize[l]
            /\ skews' \in {skews, skews \union {"negative"}}
            /\ UNCHANGED tempDirs
         \/ tempDirs' = tempDirs \union {id[l]} /\ UNCHANGED <<memoryUsage, skews>>
      /\ disturbed' \in {disturbed, disturbed \union {l}}
      /\ UNCHANGED <<fields, chunkFiles, calls, late, finals>>
  BY DEF createStream
<1>2. Tracked'
  BY CreateKeeps DEF IInv
<1>3. AccountOK'
  <2>1. memoryUsage \in Int /\ fileSize[l] \in Int /\ skews \subseteq {"negative", "clamped"}
    BY DEF IInv, AccountOK
  <2>2. PICK n \in Int : n = memoryUsage + fileSize[l]
    BY <2>1
  <2> QED
    BY <1>1, <2>1, <2>2 DEF AccountOK
<1>4. DiskOK'
  BY <1>1, ChunksAreChunks DEF IInv, DiskOK
<1>5. Suspended(calls)'
  BY <1>1 DEF IInv, Suspended
<1>6. FinalsOK'
  BY <1>1, FinalsStay DEF IInv
<1> QED
  BY <1>1, <1>2, <1>3, <1>4, <1>5, <1>6 DEF IInv, FieldsOK, HistoryOK, fields

LEMMA CreateFailsIInv ==
    ASSUME IInv, NEW l \in Lives, createStreamFails(l)
    PROVE  IInv'
<1>1. /\ created' = created \union {l}
      /\ UNCHANGED <<table, fields, timers, disk, calls, late, disturbed, finals>>
  BY DEF createStreamFails
<1>2. Tracked'
  BY <1>1, OtherKeeps DEF IInv, table
<1>3. Suspended(calls)'
  BY <1>1 DEF IInv, Suspended
<1>4. FinalsOK'
  BY <1>1, FinalsStay DEF IInv
<1> QED
  BY <1>1, <1>2, <1>3, <1>4 DEF IInv, FieldsOK, HistoryOK, DiskOK, AccountOK, table, fields, disk

\* A stream in the map was created.
LEMMA LiveIsCreated ==
    ASSUME IInv, NEW l \in Lives, Live(l)
    PROVE  l \in created
BY DEF IInv, Tracked, TimersMatchStreams, HistoryOK

LEMMA MemoryChunkIInv ==
    ASSUME IInv, NEW l \in Lives, NEW k \in Chunks, MemoryChunk(l, k)
    PROVE  IInv'
<1>1. PICK cs : cs = calls
  OBVIOUS
<1>2. memoryChunks' \in [Lives -> SUBSET Chunks]
  <2>1. memoryChunks[l] \union {k} \in SUBSET Chunks
    BY DEF IInv, FieldsOK
  <2> QED
    BY <2>1 DEF MemoryChunk, IInv, FieldsOK
<1>3. l \in created /\ Received(l, k) /\ DiskOK' /\ Suspended(cs)
  BY <1>1, LiveIsCreated DEF MemoryChunk, IInv, DiskOK, disk
<1> QED
  BY <1>1, <1>2, <1>3, ReceivedIInv DEF MemoryChunk

LEMMA StartChunkIInv ==
    ASSUME IInv, NEW c \in Calls, NEW l \in Lives, NEW k \in Chunks, StartChunk(c, l, k)
    PROVE  IInv'
<1>1. PICK r, cs : /\ r = [op |-> "chunk", life |-> l, chunk |-> k, at |-> "open"]
                   /\ cs = [calls EXCEPT ![c] = r]
  OBVIOUS
<1>2. r \in CallType /\ r.life \in created /\ r.op = "chunk"
  BY <1>1, LiveIsCreated DEF StartChunk, CallType, ChunkCalls
<1>3. Suspended(cs)
  BY <1>1, <1>2, GoOnKeeps DEF IInv
<1>4. FinalsOK'
  BY FinalsStay DEF StartChunk, IInv
<1> QED
  BY <1>1, <1>3, <1>4, RequestIInv DEF StartChunk, IInv, DiskOK, HistoryOK, disk

LEMMA OpenChunkIInv ==
    ASSUME IInv, NEW c \in Calls, OpenChunk(c)
    PROVE  IInv'
<1>1. PICK call : call = calls[c]
  OBVIOUS
<1>2. call \in ChunkCalls /\ call # Idle
  BY <1>1, CallFacts DEF OpenChunk, IInv, Suspended, Idle
<1>3. PICK r, cs : /\ r = [call EXCEPT !.at = "write"]
                   /\ cs = [calls EXCEPT ![c] = r]
  OBVIOUS
<1>4. r \in CallType /\ r.op = "chunk" /\ r.life = call.life
  BY <1>2, <1>3 DEF ChunkCalls, CallType
<1>5. Suspended(cs)
  BY <1>1, <1>2, <1>3, <1>4, GoOnKeeps DEF IInv, Suspended
<1>6. /\ calls' = cs
      /\ chunkFiles' = [chunkFiles EXCEPT ![id[call.life]][call.chunk] = Partial]
      /\ disturbed' = disturbed \union Touched(id[call.life], {call.life})
      /\ UNCHANGED <<table, fields, timers, tempDirs, created, late, finals>>
  BY <1>1, <1>3 DEF OpenChunk
<1>7. DiskOK' /\ FinalsOK'
  BY <1>2, <1>6, ChunksAreChunks, FinalsStay DEF ChunkCalls, IInv, DiskOK, Contents
<1>8. disturbed' \subseteq Lives
  BY <1>6 DEF Touched, IInv, HistoryOK
<1> QED
  BY <1>5, <1>6, <1>7, <1>8, RequestIInv

LEMMA WriteChunkIInv ==
    ASSUME IInv, NEW c \in Calls, WriteChunk(c)
    PROVE  IInv'
<1>1. PICK call : call = calls[c]
  OBVIOUS
<1>2. call \in ChunkCalls /\ call.life \in created
  BY <1>1, CallFacts DEF WriteChunk, IInv, Suspended, Idle
<1>3. PICK cs : cs = [calls EXCEPT ![c] = Idle]
  OBVIOUS
<1>4. Suspended(cs)
  BY <1>3, AnswerKeeps DEF IInv
<1>5. /\ calls' = cs
      /\ Received(call.life, call.chunk)
      /\ \/ chunkFiles' = [chunkFiles EXCEPT ![id[call.life]][call.chunk] = Written(c)]
         \/ chunkFiles' = chunkFiles
      /\ UNCHANGED <<table, memoryChunks, tempDirs, created, disturbed, finals>>
  BY <1>1, <1>3 DEF WriteChunk
<1>6. DiskOK'
  <2>1. Written(c) \in Contents
    BY <1>1, <1>2 DEF Written, Contents, ChunkCalls
  <2>2. call.life \in Lives /\ call.chunk \in Chunks /\ id[call.life] \in Ids
    BY <1>2, ChunksAreChunks DEF ChunkCalls
  <2>3. PICK w \in Contents : w = Written(c)
    BY <2>1
  <2>4. CASE chunkFiles' = [chunkFiles EXCEPT ![id[call.life]][call.chunk] = w]
    BY <2>2, <2>4, <1>5 DEF IInv, DiskOK
  <2>5. CASE chunkFiles' = chunkFiles
    BY <2>5, <1>5 DEF IInv, DiskOK
  <2> QED
    BY <2>3, <2>4, <2>5, <1>5
<1>7. memoryChunks' \in [Lives -> SUBSET Chunks]
  BY <1>5 DEF IInv, FieldsOK
<1> QED
  BY <1>2, <1>4, <1>5, <1>6, <1>7, ReceivedIInv

LEMMA ChunkFailsIInv ==
    ASSUME IInv, NEW c \in Calls, ChunkFails(c) \/ CompleteFails(c)
    PROVE  IInv'
<1>1. PICK cs : cs = [calls EXCEPT ![c] = Idle]
  OBVIOUS
<1>2. Suspended(cs)
  BY <1>1, AnswerKeeps DEF IInv
<1>3. disturbed' \subseteq Lives
  BY DEF ChunkFails, CompleteFails, Touched, IInv, HistoryOK
<1>4. calls' = cs /\ UNCHANGED <<table, fields, timers, disk, created, late>>
  BY <1>1 DEF ChunkFails, CompleteFails
<1>5. FinalsOK'
  BY FinalsStay DEF ChunkFails, CompleteFails, IInv, FinalsOK, Handles
<1> QED
  BY <1>2, <1>3, <1>4, <1>5, RequestIInv DEF IInv, DiskOK, disk

LEMMA OpenFinalIInv ==
    ASSUME IInv, NEW c \in Calls, OpenFinal(c)
    PROVE  IInv'
<1>1. PICK f : f = filename[calls[c].life]
  OBVIOUS
<1>2. /\ finalFiles' = [finalFiles EXCEPT ![f] = Partial]
      /\ kept' \subseteq kept
      /\ UNCHANGED <<table, fields, timers, disk, calls, created, late, disturbed>>
  BY <1>1 DEF OpenFinal, Hit
<1>3. handles' \in [Calls -> Handles]
  <2>1. \A d \in Calls : (IF d \in Writers(f) THEN "mixed"
                         ELSE IF d = c THEN IF Writers(f) = {} THEN "open" ELSE "mixed"
                         ELSE handles[d]) \in Handles
    BY DEF IInv, FinalsOK, Handles
  <2> QED
    BY <1>1, <2>1 DEF OpenFinal
<1>4. FinalsOK'
  BY <1>2, <1>3 DEF IInv, FinalsOK, Contents
<1>5. PICK cs : cs = calls /\ Suspended(cs) /\ calls' = cs
  BY <1>2 DEF IInv
<1>6. DiskOK' /\ disturbed' \subseteq Lives
  BY <1>2 DEF IInv, DiskOK, HistoryOK, disk
<1> QED
  BY <1>2, <1>4, <1>5, <1>6, RequestIInv

\* What Save leaves of a finished merge.
LEMMA SaveKeeps ==
    ASSUME Suspended(calls), NEW c \in Calls, NEW l \in Lives, l \in created,
           NEW content \in Seq(Contents), Save(c, l, content)
    PROVE  \E cs : Suspended(cs) /\ calls' = cs
<1>1. CASE calls' = [calls EXCEPT ![c] = Idle]
  <2>1. PICK cs : cs = [calls EXCEPT ![c] = Idle]
    OBVIOUS
  <2> QED
    BY <1>1, <2>1, AnswerKeeps
<1>2. CASE calls' = [calls EXCEPT ![c] = [op |-> "save", life |-> l, content |-> content]]
  <2>1. PICK r, cs : /\ r = [op |-> "save", life |-> l, content |-> content]
                     /\ cs = [calls EXCEPT ![c] = r]
    OBVIOUS
  <2>2. r \in CallType /\ r.op = "save" /\ r.life = l
    BY <2>1 DEF CallType, SaveCalls
  <2>3. Suspended(cs)
    BY <2>1, <2>2, GoOnKeeps
  <2> QED
    BY <1>2, <2>1, <2>3
<1> QED
  BY <1>1, <1>2 DEF Save

LEMMA MergeChunkIInv ==
    ASSUME IInv, NEW c \in Calls, MergeChunk(c)
    PROVE  IInv'
<1>1. PICK call, l, n, got :
         /\ call = calls[c]
         /\ l = call.life
         /\ n = Len(call.got)
         /\ got = Append(call.got, chunkFiles[id[call.life]][n])
  OBVIOUS
<1>2. call \in MergeCalls /\ l \in Lives /\ l \in created /\ n < totalChunks[l]
  BY <1>1, CallFacts DEF MergeChunk, IInv, Suspended, Idle, MergeCalls
<1>3. /\ chunkFiles[id[l]][n] # None
      /\ \/ n + 1 = totalChunks[l] /\ Save(c, l, got)
         \/ n + 1 # totalChunks[l] /\ calls' = [calls EXCEPT ![c] = [call EXCEPT !.got = got]]
         \/ calls' = [calls EXCEPT ![c] = Idle]
      /\ UNCHANGED <<table, fields, timers, disk, created, late, disturbed, finals>>
  BY <1>1 DEF MergeChunk
<1>4. call.got \in Seq(Contents) /\ n \in Nat
  BY <1>1, <1>2 DEF MergeCalls
<1>5. chunkFiles[id[l]][n] \in Contents
  <2>1. n \in Chunks /\ id[l] \in Ids
    <3>1. n \in ChunksOf(l)
      BY <1>2, <1>4 DEF ChunksOf
    <3> QED
      BY <1>2, <3>1, ChunksAreChunks
  <2> QED
    BY <2>1, <1>3 DEF IInv, DiskOK
<1>6. got \in Seq(Contents) /\ Len(got) = n + 1
  BY <1>1, <1>4, <1>5
<1>7. \E cs : Suspended(cs) /\ calls' = cs
  <2>1. CASE Save(c, l, got)
    BY <2>1, <1>2, <1>6, SaveKeeps DEF IInv
  <2>2. CASE n + 1 # totalChunks[l] /\ calls' = [calls EXCEPT ![c] = [call EXCEPT !.got = got]]
    <3>1. PICK r, cs : r = [call EXCEPT !.got = got] /\ cs = [calls EXCEPT ![c] = r]
      OBVIOUS
    <3>2. r \in CallType /\ r.life = l /\ r.got = got
      BY <3>1, <1>1, <1>2, <1>6 DEF MergeCalls, CallType
    <3>3. Len(r.got) < totalChunks[r.life]
      BY <3>2, <2>2, <1>2, <1>4, <1>6
    <3>4. Suspended(cs)
      BY <3>1, <3>2, <3>3, <1>2, GoOnKeeps DEF IInv
    <3> QED
      BY <2>2, <3>1, <3>4
  <2>3. CASE calls' = [calls EXCEPT ![c] = Idle]
    <3>1. PICK cs : cs = [calls EXCEPT ![c] = Idle]
      OBVIOUS
    <3> QED
      BY <2>3, <3>1, AnswerKeeps DEF IInv
  <2> QED
    BY <1>3, <2>1, <2>2, <2>3
<1>8. DiskOK' /\ FinalsOK' /\ disturbed' \subseteq Lives
  BY <1>3, FinalsStay DEF IInv, DiskOK, HistoryOK, disk
<1> QED
  BY <1>3, <1>7, <1>8, RequestIInv

LEMMA CompleteMemoryIInv ==
    ASSUME IInv, NEW c \in Calls, NEW l \in Lives, NEW isComplete,
           CompleteMemory(c, l, isComplete)
    PROVE  IInv'
<1>1. l \in created
  BY LiveIsCreated DEF CompleteMemory, Asked
<1>2. Own(l) \in Seq(Contents)
  <2>1. totalChunks[l] \in Nat /\ \A n \in 1 .. totalChunks[l] : l \in Contents
    BY DEF Contents
  <2>2. PICK own, t : own = Own(l) /\ t = totalChunks[l]
    OBVIOUS
  <2>3. own \in [1 .. t -> Contents] /\ t \in Nat
    BY <2>1, <2>2 DEF Own
  <2>4. own \in Seq(Contents)
    BY <2>3
  <2> QED
    BY <2>2, <2>4
<1>3. PICK content : content = Own(l)
  OBVIOUS
<1>4. Save(c, l, content) /\ UNCHANGED <<table, fields, timers, disk, created, late, disturbed, finals>>
  BY <1>3 DEF CompleteMemory
<1>5. \E cs : Suspended(cs) /\ calls' = cs
  BY <1>1, <1>2, <1>3, <1>4, SaveKeeps DEF IInv
<1>6. DiskOK' /\ FinalsOK' /\ disturbed' \subseteq Lives
  BY <1>4, FinalsStay DEF IInv, DiskOK, HistoryOK, disk
<1> QED
  BY <1>4, <1>5, <1>6, RequestIInv

LEMMA CompleteDiskIInv ==
    ASSUME IInv, NEW c \in Calls, NEW l \in Lives, NEW isComplete,
           CompleteDisk(c, l, isComplete)
    PROVE  IInv'
<1>1. l \in created
  BY LiveIsCreated DEF CompleteDisk, Asked
<1>2. PICK r, cs : /\ r = [op |-> "merge", life |-> l, got |-> <<>>]
                   /\ cs = [calls EXCEPT ![c] = r]
  OBVIOUS
<1>3. r \in CallType /\ r.life = l /\ Len(r.got) = 0
  BY <1>2 DEF CallType, MergeCalls
<1>4. Len(r.got) < totalChunks[r.life]
  BY <1>3
<1>5. Suspended(cs)
  BY <1>1, <1>2, <1>3, <1>4, GoOnKeeps DEF IInv
<1>6. /\ calls' = cs
      /\ disturbed' \in {disturbed, disturbed \union {l}}
      /\ UNCHANGED <<table, fields, timers, disk, created, late, finals>>
  BY <1>2 DEF CompleteDisk
<1>7. DiskOK' /\ FinalsOK' /\ disturbed' \subseteq Lives
  BY <1>6, FinalsStay DEF IInv, DiskOK, HistoryOK, disk
<1> QED
  BY <1>5, <1>6, <1>7, RequestIInv

-----------------------------------------------------------------------------
LEMMA StepIInv == IInv /\ [Next]_vars => IInv'
<1> SUFFICES ASSUME IInv, [Next]_vars PROVE IInv'
  OBVIOUS
<1>1. CASE UNCHANGED vars
  <2>1. Tracked'
    BY <1>1, OtherKeeps DEF IInv, vars, table
  <2>2. Suspended(calls)'
    BY <1>1 DEF IInv, Suspended, vars
  <2> QED
    BY <1>1, <2>1, <2>2 DEF vars, IInv, FieldsOK, DiskOK, HistoryOK, AccountOK, FinalsOK
<1>2. ASSUME NEW c \in Calls,
             \/ OpenChunk(c) \/ WriteChunk(c) \/ ChunkFails(c)
             \/ MergeChunk(c) \/ OpenFinal(c) \/ Saved(c) \/ CompleteFails(c)
             \/ \E l \in Lives, isComplete \in BOOLEAN :
                   CompleteMemory(c, l, isComplete) \/ CompleteDisk(c, l, isComplete)
      PROVE  IInv'
  BY <1>2, OpenChunkIInv, WriteChunkIInv, ChunkFailsIInv, MergeChunkIInv, OpenFinalIInv,
     SavedIInv, CompleteMemoryIInv, CompleteDiskIInv
<1>3. ASSUME NEW l \in Lives, createStream(l) \/ createStreamFails(l) \/ Timeout(l)
      PROVE  IInv'
  BY <1>3, CreateIInv, CreateFailsIInv, TimeoutIInv
<1> QED
  BY <1>1, <1>2, <1>3, ResetIInv, MemoryChunkIInv, StartChunkIInv DEF Next

LEMMA TypesFollow == IInv => TypeOK
<1>1. Suspended(calls) => calls \in [Calls -> {Idle} \union ChunkCalls \union MergeCalls \union SaveCalls]
  BY DEF Suspended, CallType
<1> QED
  BY <1>1 DEF IInv, Tracked, OwnId, FieldsOK, DiskOK, HistoryOK, AccountOK, FinalsOK, TypeOK

THEOREM UploadIInv == Spec => []IInv
BY InitIInv, StepIInv, PTL DEF Spec

(* Whatever requests are suspended while streams are reset, time out and    *)
(* are created again, the map files each stream under its own id, and every *)
(* timer, file and suspended request is one of a stream that was created.   *)
(* (Of memoryUsage it says nothing: see MemoryAlwaysAccounted.)             *)
THEOREM UploadTypes == Spec => []TypeOK
BY UploadIInv, TypesFollow, PTL

(* A stream in the map always has its timeout running, so none can leak;    *)
(* and a removed stream has one only if a chunk of it was counted after     *)
(* its removal, by a request that was suspended when it was removed.        *)
THEOREM TimersAlwaysMatch == Spec => []TimersMatchStreams
BY UploadIInv, PTL DEF IInv, Tracked

-----------------------------------------------------------------------------
(* Saved files.  A life is undisturbed as long as nobody else has opened a  *)
(* chunk file in its directory: its files are then its own.                 *)

\* The request r has a chunk file of directory i open.
AtWrite(r, i) == r.op = "chunk" /\ r.at = "write" /\ id[r.life] = i

\* A directory that does not exist holds nothing, and nobody writes in it.
DirsOK ==
    /\ \A i \in Ids \ tempDirs, k \in Chunks : chunkFiles[i][k] = None
    /\ \A i \in Ids, c \in Calls : AtWrite(calls[c], i) => i \in tempDirs

\* The files of an undisturbed stream in the map, all but those being written.
LiveOK(l) ==
    /\ \A c \in Calls : AtWrite(calls[c], id[l]) => calls[c].life = l
    /\ \A k \in Chunks :
          \/ chunkFiles[id[l]][k] \in {None, l}
          \/ \E c \in Calls : AtWrite(calls[c], id[l]) /\ calls[c].chunk = k

LiveFiles == \A l \in Lives : Live(l) /\ ~useMemory[l] /\ l \notin disturbed => LiveOK(l)

\* Those of an undisturbed stream being merged, and what was read of them.
MergedOK(l, got) ==
    /\ \A c \in Calls : ~AtWrite(calls[c], id[l])
    /\ \A k \in Chunks : chunkFiles[id[l]][k] \in {None, l}
    /\ \A n \in 1 .. Len(got) : got[n] = l

MergeGood(r) == r.op = "merge" /\ r.life \notin disturbed => MergedOK(r.life, r.got)

\* A file that is not whole is saved for a disturbed stream without a checksum.
SaveGood(r) ==
    r.op = "save" /\ r.content # Own(r.life)
    => r.life \in disturbed /\ ~expectsSha256[r.life]

FInv ==
    /\ DirsOK
    /\ LiveFiles
    /\ \A c \in Calls : MergeGood(calls[c]) /\ SaveGood(calls[c])

\* Steps that leave the chunk files and who writes them alone: a stream that
\* enters the map finds no directory or is disturbed, and the requests that
\* go on are good.
LEMMA QuietKeeps ==
    ASSUME IInv, FInv, chunkFiles' = chunkFiles, tempDirs \subseteq tempDirs',
           disturbed \subseteq disturbed',
           \A l \in Lives : Live(l)' /\ ~useMemory[l] /\ l \notin disturbed'
                               => Live(l) \/ id[l] \notin tempDirs,
           \A c \in Calls : \/ calls'[c] = calls[c]
                            \/ /\ \A i \in Ids : ~AtWrite(calls[c], i) /\ ~AtWrite(calls'[c], i)
                               /\ calls'[c].op \in {"merge", "save"} => calls'[c].life \in Lives
                               /\ calls'[c].op = "merge" /\ calls'[c].life \notin disturbed'
                                    => MergedOK(calls'[c].life, calls'[c].got)
                               /\ SaveGood(calls[c])'
    PROVE  FInv'
<1>1. \A c \in Calls, i \in Ids :
         /\ AtWrite(calls[c], i)' <=> AtWrite(calls[c], i)
         /\ AtWrite(calls[c], i) => calls'[c] = calls[c]
  BY DEF AtWrite
<1>2. DirsOK'
  BY <1>1 DEF FInv, DirsOK
<1>3. ASSUME NEW l \in Lives, LiveOK(l)
      PROVE  LiveOK(l)'
  BY <1>1, <1>3, ChunksAreChunks DEF LiveOK
<1>4. ASSUME NEW l \in Lives, id[l] \notin tempDirs
      PROVE  LiveOK(l)
  BY <1>4, ChunksAreChunks DEF LiveOK, FInv, DirsOK
<1>5. LiveFiles'
  BY <1>3, <1>4 DEF FInv, LiveFiles
<1>6. ASSUME NEW l \in Lives, NEW got, MergedOK(l, got)
      PROVE  /\ \A c \in Calls : ~AtWrite(calls[c], id[l])'
             /\ \A k \in Chunks : chunkFiles'[id[l]][k] \in {None, l}
             /\ \A n \in 1 .. Len(got) : got[n] = l
  BY <1>1, <1>6, ChunksAreChunks DEF MergedOK
<1>7. ASSUME NEW c \in Calls
      PROVE  (MergeGood(calls[c]) /\ SaveGood(calls[c]))'
  <2>1. SaveGood(calls[c])'
    BY DEF FInv, SaveGood
  <2>2. ASSUME calls'[c].op = "merge", calls'[c].life \notin disturbed'
        PROVE  MergedOK(calls[c].life, calls[c].got)'
    <3>1. PICK l, got : l = calls'[c].life /\ got = calls'[c].got
      OBVIOUS
    <3>2. l \in Lives
      <4>1. calls[c] \in CallType
        BY DEF IInv, Suspended
      <4> QED
        BY <2>2, <3>1, <4>1, CallFacts DEF Idle
    <3>3. MergedOK(l, got)
      BY <2>2, <3>1 DEF FInv, MergeGood
    <3>4. /\ \A d \in Calls : ~AtWrite(calls[d], id[l])'
          /\ \A k \in Chunks : chunkFiles'[id[l]][k] \in {None, l}
          /\ \A n \in 1 .. Len(got) : got[n] = l
      BY <3>2, <3>3, <1>6
    <3> QED
      BY <3>1, <3>4 DEF MergedOK, AtWrite
  <2> QED
    BY <2>1, <2>2 DEF MergeGood
<1> QED
  BY <1>2, <1>5, <1>7 DEF FInv

\* A directory is removed together with the stream that has its id.
LEMMA RemovedKeeps ==
    ASSUME IInv, FInv, NEW i \in Ids, NEW cs, RemoveDirectory(i, cs),
           \A c \in Calls : cs[c] = calls[c] \/ (cs[c] = Idle /\ calls[c].op = "save"),
           disturbed' = disturbed,
           \A l \in Lives : Live(l)' => Live(l) /\ id[l] # i
    PROVE  FInv'
<1>1. /\ tempDirs' = tempDirs \ {i}
      /\ chunkFiles' = [chunkFiles EXCEPT ![i] = [k \in Chunks |-> None]]
      /\ calls' = Unlinked(cs, i)
  BY DEF RemoveDirectory
<1>2. /\ \A k \in Chunks : chunkFiles'[i][k] = None
      /\ \A j \in Ids \ {i} : chunkFiles'[j] = chunkFiles[j]
  BY <1>1 DEF IInv, DiskOK
<1>3. ASSUME NEW c \in Calls
      PROVE  /\ \A j \in Ids : AtWrite(calls[c], j)' <=> AtWrite(calls[c], j) /\ j # i
             /\ \A j \in Ids : AtWrite(calls[c], j) /\ j # i => calls'[c] = calls[c]
             /\ calls'[c].op \in {"merge", "save"} => calls'[c] = calls[c]
  <2>1. calls[c] \in CallType /\ Idle.op = "idle" /\ cs[c] \in CallType
    BY DEF IInv, Suspended, Idle, CallType
  <2>2. CASE AtWrite(cs[c], i)
    <3>1. calls'[c] = [cs[c] EXCEPT !.at = "unlinked"] /\ cs[c] \in ChunkCalls
      BY <1>1, <2>1, <2>2, CallFacts DEF Unlinked, AtWrite
    <3>2. calls'[c].op = "chunk" /\ calls'[c].at = "unlinked"
      BY <3>1, <2>2 DEF ChunkCalls, AtWrite
    <3>3. cs[c] = calls[c]
      BY <2>1, <2>2 DEF AtWrite
    <3> QED
      BY <2>2, <3>2, <3>3 DEF AtWrite
  <2>3. CASE ~AtWrite(cs[c], i)
    <3>1. calls'[c] = cs[c]
      BY <1>1, <2>3 DEF Unlinked, AtWrite
    <3>2. CASE cs[c] = calls[c]
      BY <2>3, <3>1, <3>2 DEF AtWrite
    <3>3. CASE cs[c] = Idle /\ calls[c].op = "save"
      BY <2>1, <3>1, <3>3 DEF AtWrite
    <3> QED
      BY <3>2, <3>3
  <2> QED
    BY <2>2, <2>3
<1>4. DirsOK'
  BY <1>1, <1>2, <1>3 DEF FInv, DirsOK
<1>5. ASSUME NEW l \in Lives, LiveOK(l), id[l] # i
      PROVE  LiveOK(l)'
  <2>1. id[l] \in Ids \ {i}
    BY <1>5, ChunksAreChunks
  <2>2. \A c \in Calls : AtWrite(calls[c], id[l])' => calls'[c].life = l
    BY <2>1, <1>3, <1>5 DEF LiveOK
  <2>3. ASSUME NEW k \in Chunks
        PROVE  \/ chunkFiles'[id[l]][k] \in {None, l}
               \/ \E c \in Calls : AtWrite(calls[c], id[l])' /\ calls'[c].chunk = k
    BY <2>1, <1>2, <1>3, <1>5 DEF LiveOK
  <2> QED
    BY <2>2, <2>3 DEF LiveOK
<1>6. LiveFiles'
  BY <1>5 DEF FInv, LiveFiles
<1>7. ASSUME NEW l \in Lives, NEW got, MergedOK(l, got)
      PROVE  /\ \A c \in Calls : ~AtWrite(calls[c], id[l])'
             /\ \A k \in Chunks : chunkFiles'[id[l]][k] \in {None, l}
             /\ \A n \in 1 .. Len(got) : got[n] = l
  BY <1>2, <1>3, <1>7, ChunksAreChunks DEF MergedOK
<1>8. ASSUME NEW c \in Calls
      PROVE  (MergeGood(calls[c]) /\ SaveGood(calls[c]))'
  <2>1. calls[c] \in CallType /\ MergeGood(calls[c]) /\ SaveGood(calls[c])
    BY DEF FInv, IInv, Suspended
  <2>2. SaveGood(calls[c])'
    BY <2>1, <1>3 DEF SaveGood
  <2>3. ASSUME calls'[c].op = "merge", calls'[c].life \notin disturbed'
        PROVE  MergedOK(calls[c].life, calls[c].got)'
    <3>1. PICK l, got : l = calls'[c].life /\ got = calls'[c].got
      OBVIOUS
    <3>2. calls'[c] = calls[c] /\ l \in Lives /\ MergedOK(l, got)
      BY <2>1, <2>3, <3>1, <1>3, CallFacts DEF MergeGood, Idle
    <3>3. /\ \A d \in Calls : ~AtWrite(calls[d], id[l])'
          /\ \A k \in Chunks : chunkFiles'[id[l]][k] \in {None, l}
          /\ \A n \in 1 .. Len(got) : got[n] = l
      BY <3>2, <1>7
    <3> QED
      BY <3>1, <3>3 DEF MergedOK, AtWrite
  <2> QED
    BY <2>2, <2>3 DEF MergeGood
<1> QED
  BY <1>4, <1>6, <1>8 DEF FInv

\* cleanupStream, which may fail to remove the directory.
LEMMA CleanupFInv ==
    ASSUME IInv, FInv, NEW i \in Ids, NEW cs, NEW ts, cleanupStream(i, cs, ts),
           cs \in [Calls -> CallType],
           \A c \in Calls : cs[c] = calls[c] \/ (cs[c] = Idle /\ calls[c].op = "save"),
           disturbed' = disturbed
    PROVE  FInv'
<1>1. \/ /\ KeepDirectory(cs)
         /\ streams' \in {streams, [streams EXCEPT ![i] = None]}
      \/ /\ RemoveDirectory(i, cs)
         /\ streams' = [streams EXCEPT ![i] = None]
  BY DEF cleanupStream, table
<1>2. \A l \in Lives : id[l] \in Ids /\ l # None /\ (Live(l)' => Live(l))
  BY <1>1, ChunksAreChunks DEF Live, IInv, Tracked, OwnId
<1>3. CASE RemoveDirectory(i, cs) /\ streams' = [streams EXCEPT ![i] = None]
  <2>1. \A l \in Lives : Live(l)' => id[l] # i
    BY <1>2, <1>3 DEF Live, IInv, Tracked, OwnId
  <2> QED
    BY <1>2, <1>3, <2>1, RemovedKeeps
<1>4. CASE KeepDirectory(cs)
  <2>1. calls' = cs /\ tempDirs' = tempDirs /\ chunkFiles' = chunkFiles
    BY <1>4 DEF KeepDirectory, disk
  <2>2. ASSUME NEW c \in Calls, calls[c].op = "save", calls'[c] = Idle
        PROVE  /\ \A j \in Ids : ~AtWrite(calls[c], j) /\ ~AtWrite(calls'[c], j)
               /\ calls'[c].op \notin {"merge", "save"}
    BY <2>2 DEF AtWrite, Idle
  <2>3. ASSUME NEW c \in Calls
        PROVE  \/ calls'[c] = calls[c]
               \/ /\ \A j \in Ids : ~AtWrite(calls[c], j) /\ ~AtWrite(calls'[c], j)
                  /\ calls'[c].op \notin {"merge", "save"}
    BY <2>1, <2>2
  <2>4. \A c \in Calls : calls'[c].op \notin {"merge", "save"} => SaveGood(calls[c])'
    BY DEF SaveGood
  <2> QED
    BY <1>2, <2>1, <2>3, <2>4, QuietKeeps
<1> QED
  BY <1>1, <1>3, <1>4

\* One request goes on as r, with no chunk file open before and after.
LEMMA OneCallFInv ==
    ASSUME IInv, FInv, NEW c \in Calls, NEW r, calls' = [calls EXCEPT ![c] = r],
           UNCHANGED <<table, disk>>, disturbed \subseteq disturbed',
           calls[c].op = "chunk" => calls[c].at # "write",
           r.op = "chunk" => r.at # "write",
           r.op \in {"merge", "save"} => r.life \in Lives,
           r.op = "merge" /\ r.life \notin disturbed' => MergedOK(r.life, r.got),
           r.op = "save" /\ r.content # Own(r.life)
              => r.life \in disturbed' /\ ~expectsSha256[r.life]
    PROVE  FInv'
<1>1. /\ calls'[c] = r /\ \A d \in Calls : d # c => calls'[d] = calls[d]
      /\ streams' = streams /\ tempDirs' = tempDirs /\ chunkFiles' = chunkFiles
  BY DEF IInv, Suspended, table, disk
<1>2. \A i \in Ids : ~AtWrite(calls[c], i) /\ ~AtWrite(calls'[c], i)
  BY <1>1 DEF AtWrite
<1>3. SaveGood(calls[c])'
  BY <1>1 DEF SaveGood
<1>4. \A l \in Lives : Live(l)' => Live(l)
  BY <1>1 DEF Live
<1> QED
  BY <1>1, <1>2, <1>3, <1>4, QuietKeeps

-----------------------------------------------------------------------------
LEMMA CleanersFInv ==
    ASSUME IInv, FInv,
           \/ \E i \in Ids : Reset(i)
           \/ \E l \in Lives : Timeout(l)
           \/ \E c \in Calls : Saved(c)
    PROVE  FInv'
<1>0. PICK same : same = calls
  OBVIOUS
<1>1. same \in [Calls -> CallType]
  BY <1>0 DEF IInv, Suspended
<1>2. ASSUME NEW i \in Ids, Reset(i)
      PROVE  FInv'
  <2>1. PICK ts : ts = timers
    OBVIOUS
  <2>2. cleanupStream(i, same, ts) /\ disturbed' = disturbed
    BY <1>0, <1>2, <2>1 DEF Reset
  <2> QED
    BY <1>0, <1>1, <2>2, CleanupFInv
<1>3. ASSUME NEW l \in Lives, Timeout(l)
      PROVE  FInv'
  <2>1. PICK ts, i : ts = timers \ {l} /\ i = id[l]
    OBVIOUS
  <2>2. cleanupStream(i, same, ts) /\ disturbed' = disturbed
    BY <1>0, <1>3, <2>1 DEF Timeout
  <2> QED
    BY <1>0, <1>1, <2>1, <2>2, CleanupFInv, ChunksAreChunks
<1>4. ASSUME NEW c \in Calls, Saved(c)
      PROVE  FInv'
  <2>1. PICK call, cs, ts, i : /\ call = calls[c]
                               /\ cs = [calls EXCEPT ![c] = Idle]
                               /\ ts = timers
                               /\ i = id[call.life]
    OBVIOUS
  <2>2. /\ call.op = "save" /\ cleanupStream(i, cs, ts) /\ disturbed' = disturbed
    BY <1>4, <2>1 DEF Saved
  <2>3. call \in CallType /\ call.life \in Lives
    <3>1. call \in CallType
      BY <2>1 DEF IInv, Suspended
    <3> QED
      BY <2>2, <3>1, CallFacts DEF Idle
  <2>4. /\ cs \in [Calls -> CallType]
        /\ \A d \in Calls : cs[d] = calls[d] \/ (cs[d] = Idle /\ calls[d].op = "save")
    BY <1>0, <1>1, <2>1, <2>2 DEF CallType
  <2> QED
    BY <2>1, <2>2, <2>3, <2>4, CleanupFInv, ChunksAreChunks
<1> QED
  BY <1>2, <1>3, <1>4

\* A stream whose creation finds a directory is disturbed from the start.
LEMMA CreateFInv ==
    ASSUME IInv, FInv, NEW l \in Lives, createStream(l) \/ createStreamFails(l)
    PROVE  FInv'
<1>1. /\ calls' = calls /\ chunkFiles' = chunkFiles
      /\ tempDirs \subseteq tempDirs' /\ disturbed \subseteq disturbed'
  BY DEF createStream, createStreamFails, disk
<1>2. ASSUME NEW m \in Lives, Live(m)', ~useMemory[m], m \notin disturbed', ~Live(m)
      PROVE  id[m] \notin tempDirs
  <2>1. createStream(l) /\ m = l
    BY <1>2, ChunksAreChunks DEF createStream, createStreamFails, table, Live, IInv, Tracked, OwnId
  <2> QED
    BY <1>2, <2>1 DEF createStream
<1> QED
  BY <1>1, <1>2, QuietKeeps

LEMMA MemoryChunkFInv ==
    ASSUME IInv, FInv, NEW l \in Lives, NEW k \in Chunks, MemoryChunk(l, k)
    PROVE  FInv'
<1>1. UNCHANGED <<streams, tempDirs, chunkFiles, calls, disturbed>>
  BY DEF MemoryChunk, table, disk
<1>2. \A m \in Lives : Live(m)' => Live(m)
  BY <1>1 DEF Live
<1> QED
  BY <1>1, <1>2, QuietKeeps

LEMMA StartChunkFInv ==
    ASSUME IInv, FInv, NEW c \in Calls, NEW l \in Lives, NEW k \in Chunks, StartChunk(c, l, k)
    PROVE  FInv'
<1>1. PICK r : r = [op |-> "chunk", life |-> l, chunk |-> k, at |-> "open"]
  OBVIOUS
<1>2. /\ calls[c] = Idle /\ calls' = [calls EXCEPT ![c] = r]
      /\ UNCHANGED <<table, disk, disturbed>>
  BY <1>1 DEF StartChunk
<1>3. r.op = "chunk" /\ r.at = "open" /\ calls[c].op = "idle"
  BY <1>1, <1>2 DEF Idle
<1> QED
  BY <1>2, <1>3, OneCallFInv

LEMMA CompleteFailsFInv ==
    ASSUME IInv, FInv, NEW c \in Calls, CompleteFails(c)
    PROVE  FInv'
<1>1. /\ calls[c].op \in {"merge", "save"} /\ calls' = [calls EXCEPT ![c] = Idle]
      /\ UNCHANGED <<table, disk, disturbed>> /\ Idle.op = "idle"
  BY DEF CompleteFails, Idle
<1> QED
  BY <1>1, OneCallFInv

LEMMA OpenFinalFInv ==
    ASSUME IInv, FInv, NEW c \in Calls, OpenFinal(c)
    PROVE  FInv'
<1>1. UNCHANGED <<streams, tempDirs, chunkFiles, calls, disturbed>>
  BY DEF OpenFinal, table, disk
<1>2. \A m \in Lives : Live(m)' => Live(m)
  BY <1>1 DEF Live
<1> QED
  BY <1>1, <1>2, QuietKeeps

\* A chunk request changes a file of one directory, which no undisturbed merge
\* reads and where the undisturbed stream in the map is well afterwards.
LEMMA OneDirectoryFInv ==
    ASSUME IInv, FInv, NEW c \in Calls, NEW i \in tempDirs, NEW r, calls' = [calls EXCEPT ![c] = r],
           \A j \in Ids \ {i} : ~AtWrite(calls[c], j) /\ ~AtWrite(r, j),
           r.op \notin {"merge", "save"},
           \A j \in Ids \ {i} : chunkFiles'[j] = chunkFiles[j],
           UNCHANGED <<table, tempDirs>>, disturbed \subseteq disturbed',
           \A l \in Lives : id[l] = i /\ Merging(l) => l \in disturbed',
           \A l \in Lives : id[l] = i /\ Live(l) /\ ~useMemory[l] /\ l \notin disturbed'
                                => LiveOK(l)'
    PROVE  FInv'
<1>1. /\ calls'[c] = r /\ \A d \in Calls : d # c => calls'[d] = calls[d]
      /\ streams' = streams /\ tempDirs' = tempDirs /\ i \in Ids
  BY DEF IInv, Suspended, DiskOK, table
<1>2. \A d \in Calls, j \in Ids \ {i} :
         /\ AtWrite(calls[d], j)' <=> AtWrite(calls[d], j)
         /\ AtWrite(calls[d], j) => calls'[d] = calls[d]
  BY <1>1 DEF AtWrite
<1>3. DirsOK'
  <2>1. \A j \in Ids \ tempDirs', k \in Chunks : chunkFiles'[j][k] = None
    BY <1>1 DEF FInv, DirsOK
  <2>2. \A j \in Ids, d \in Calls : AtWrite(calls[d], j)' => j \in tempDirs'
    BY <1>1, <1>2 DEF FInv, DirsOK
  <2> QED
    BY <2>1, <2>2 DEF DirsOK
<1>4. ASSUME NEW l \in Lives, LiveOK(l), id[l] # i
      PROVE  LiveOK(l)'
  <2>1. id[l] \in Ids \ {i}
    BY <1>4, ChunksAreChunks
  <2>2. \A d \in Calls : AtWrite(calls[d], id[l])' => calls'[d].life = l
    BY <2>1, <1>2, <1>4 DEF LiveOK
  <2>3. ASSUME NEW k \in Chunks
        PROVE  \/ chunkFiles'[id[l]][k] \in {None, l}
               \/ \E d \in Calls : AtWrite(calls[d], id[l])' /\ calls'[d].chunk = k
    BY <2>1, <1>2, <1>4 DEF LiveOK
  <2> QED
    BY <2>2, <2>3 DEF LiveOK
<1>5. LiveFiles'
  <2> SUFFICES ASSUME NEW l \in Lives, Live(l)', ~useMemory[l], l \notin disturbed'
               PROVE  LiveOK(l)'
    BY DEF LiveFiles
  <2>1. Live(l)
    BY <1>1 DEF Live
  <2> QED
    BY <2>1, <1>4 DEF FInv, LiveFiles
<1>6. ASSUME NEW d \in Calls
      PROVE  (MergeGood(calls[d]) /\ SaveGood(calls[d]))'
  <2>1. calls[d] \in CallType /\ MergeGood(calls[d]) /\ SaveGood(calls[d])
    BY DEF FInv, IInv, Suspended
  <2>2. SaveGood(calls[d])'
    BY <2>1, <1>1 DEF SaveGood
  <2>3. ASSUME calls'[d].op = "merge", calls'[d].life \notin disturbed'
        PROVE  MergedOK(calls[d].life, calls[d].got)'
    <3>1. PICK l, got : l = calls'[d].life /\ got = calls'[d].got
      OBVIOUS
    <3>2. calls'[d] = calls[d] /\ l \in Lives /\ MergedOK(l, got) /\ Merging(l)
      BY <2>1, <2>3, <3>1, <1>1, CallFacts DEF MergeGood, Idle, Merging
    <3>3. id[l] \in Ids \ {i}
      BY <2>3, <3>1, <3>2, ChunksAreChunks
    <3>4. /\ \A e \in Calls : ~AtWrite(calls[e], id[l])'
          /\ \A k \in Chunks : chunkFiles'[id[l]][k] \in {None, l}
          /\ \A n \in 1 .. Len(got) : got[n] = l
      BY <3>2, <3>3, <1>2 DEF MergedOK
    <3> QED
      BY <3>1, <3>4 DEF MergedOK, AtWrite
  <2> QED
    BY <2>2, <2>3 DEF MergeGood
<1> QED
  BY <1>3, <1>5, <1>6 DEF FInv

LEMMA OpenChunkFInv ==
    ASSUME IInv, FInv, NEW c \in Calls, OpenChunk(c)
    PROVE  FInv'
<1>1. PICK call, r, i : call = calls[c] /\ r = [call EXCEPT !.at = "write"] /\ i = id[call.life]
  OBVIOUS
<1>2. call \in ChunkCalls
  BY <1>1, CallFacts DEF OpenChunk, IInv, Suspended
<1>3. r \in ChunkCalls /\ r.life = call.life /\ r.chunk = call.chunk /\ r.at = "write"
  BY <1>1, <1>2 DEF ChunkCalls
<1>4. /\ call.at = "open" /\ i \in tempDirs
      /\ chunkFiles' = [chunkFiles EXCEPT ![i][call.chunk] = Partial]
      /\ calls' = [calls EXCEPT ![c] = r]
      /\ disturbed' = disturbed \union Touched(i, {call.life})
      /\ UNCHANGED <<table, tempDirs>>
  BY <1>1 DEF OpenChunk
<1>5. /\ call.life \in Lives /\ call.chunk \in Chunks /\ i \in Ids
      /\ calls'[c] = r /\ \A d \in Calls : d # c => calls'[d] = calls[d]
      /\ \A k \in Chunks : k # call.chunk => chunkFiles'[i][k] = chunkFiles[i][k]
      /\ \A j \in Ids \ {i} : chunkFiles'[j] = chunkFiles[j]
  BY <1>1, <1>2, <1>4, ChunksAreChunks DEF ChunkCalls, IInv, DiskOK, Suspended
<1>6. \A j \in Ids \ {i} : ~AtWrite(calls[c], j) /\ ~AtWrite(r, j)
  BY <1>1, <1>3, <1>4 DEF AtWrite
<1>7. r.op \notin {"merge", "save"} /\ r.op = "chunk"
  BY <1>3 DEF ChunkCalls
<1>8. \A l \in Lives : id[l] = i /\ Merging(l) => l \in disturbed'
  BY <1>4 DEF Touched
<1>9. ASSUME NEW l \in Lives, id[l] = i, Live(l), ~useMemory[l], l \notin disturbed'
      PROVE  LiveOK(l)'
  <2>1. l = call.life
    BY <1>4, <1>9 DEF Touched
  <2>2. LiveOK(l)
    BY <1>4, <1>9 DEF FInv, LiveFiles
  <2>3. AtWrite(calls[c], i)' /\ calls'[c].life = l /\ calls'[c].chunk = call.chunk
    BY <1>1, <1>3, <1>5, <1>7, <2>1 DEF AtWrite
  <2>4. \A d \in Calls : d # c => (AtWrite(calls[d], i)' <=> AtWrite(calls[d], i))
    BY <1>5 DEF AtWrite
  <2>5. \A d \in Calls : AtWrite(calls[d], i)' => calls'[d].life = l
    BY <1>5, <1>9, <2>2, <2>3, <2>4 DEF LiveOK
  <2>6. ASSUME NEW k \in Chunks
        PROVE  \/ chunkFiles'[i][k] \in {None, l}
               \/ \E d \in Calls : AtWrite(calls[d], i)' /\ calls'[d].chunk = k
    <3>1. CASE k = call.chunk
      BY <2>3, <3>1
    <3>2. CASE k # call.chunk
      <4>1. CASE chunkFiles[i][k] \in {None, l}
        BY <1>5, <3>2, <4>1
      <4>2. CASE \E d \in Calls : AtWrite(calls[d], i) /\ calls[d].chunk = k
        <5>1. PICK d \in Calls : AtWrite(calls[d], i) /\ calls[d].chunk = k
          BY <4>2
        <5>2. d # c
          BY <1>1, <3>2, <5>1
        <5> QED
          BY <1>5, <2>4, <5>1, <5>2
      <4> QED
        BY <1>9, <2>2, <4>1, <4>2 DEF LiveOK
    <3> QED
      BY <3>1, <3>2
  <2> QED
    BY <1>9, <2>5, <2>6 DEF LiveOK
<1>10. /\ i \in tempDirs /\ calls' = [calls EXCEPT ![c] = r]
       /\ \A j \in Ids \ {i} : chunkFiles'[j] = chunkFiles[j]
       /\ UNCHANGED <<table, tempDirs>> /\ disturbed \subseteq disturbed'
  BY <1>4, <1>5
<1> QED
  BY <1>6, <1>7, <1>8, <1>9, <1>10, OneDirectoryFInv

\* A chunk request that had no file open ends: nothing changes on the disk.
LEMMA AnsweredFInv ==
    ASSUME IInv, FInv, NEW c \in Calls, calls[c].op = "chunk", calls[c].at # "write",
           calls' = [calls EXCEPT ![c] = Idle], UNCHANGED <<table, disk>>,
           disturbed' = disturbed
    PROVE  FInv'
<1>1. Idle.op = "idle"
  BY DEF Idle
<1> QED
  BY <1>1, OneCallFInv

LEMMA WriteChunkFInv ==
    ASSUME IInv, FInv, NEW c \in Calls, WriteChunk(c)
    PROVE  FInv'
<1>1. PICK call, i, w : call = calls[c] /\ i = id[call.life] /\ w = Written(c)
  OBVIOUS
<1>2. call \in ChunkCalls /\ call.op = "chunk" /\ call.life \in Lives /\ call.chunk \in Chunks
  BY <1>1, CallFacts DEF WriteChunk, IInv, Suspended, ChunkCalls
<1>3. /\ chunkFiles' = IF call.at = "write" THEN [chunkFiles EXCEPT ![i][call.chunk] = w]
                       ELSE chunkFiles
      /\ calls' = [calls EXCEPT ![c] = Idle]
      /\ UNCHANGED <<table, tempDirs, disturbed>>
  BY <1>1 DEF WriteChunk
<1>4. CASE call.at # "write"
  BY <1>1, <1>2, <1>3, <1>4, AnsweredFInv DEF disk
<1>5. CASE call.at = "write"
  <2>1. i \in Ids /\ AtWrite(calls[c], i) /\ i \in tempDirs
    BY <1>1, <1>2, <1>5, ChunksAreChunks DEF AtWrite, FInv, DirsOK
  <2>2. /\ calls'[c] = Idle /\ \A d \in Calls : d # c => calls'[d] = calls[d]
        /\ \A k \in Chunks : chunkFiles'[i][k] = IF k = call.chunk THEN w ELSE chunkFiles[i][k]
        /\ \A j \in Ids \ {i} : chunkFiles'[j] = chunkFiles[j]
        /\ Idle.op = "idle"
    BY <1>2, <1>3, <1>5, <2>1 DEF IInv, DiskOK, Suspended, Idle
  <2>3. \A j \in Ids \ {i} : ~AtWrite(calls[c], j) /\ ~AtWrite(Idle, j)
    BY <1>1, <2>2 DEF AtWrite
  <2>4. ASSUME NEW l \in Lives, id[l] = i, Merging(l), l \notin disturbed'
        PROVE  FALSE
    <3>1. PICK d \in Calls : calls[d].op = "merge" /\ calls[d].life = l
      BY <2>4 DEF Merging
    <3>2. MergedOK(l, calls[d].got)
      BY <1>3, <2>4, <3>1 DEF FInv, MergeGood
    <3> QED
      BY <2>1, <2>4, <3>2 DEF MergedOK
  <2>5. ASSUME NEW l \in Lives, id[l] = i, Live(l), ~useMemory[l], l \notin disturbed'
        PROVE  LiveOK(l)'
    <3>1. LiveOK(l)
      BY <1>3, <2>5 DEF FInv, LiveFiles
    <3>2. l = call.life
      BY <1>1, <2>1, <2>5, <3>1 DEF LiveOK
    <3>3. \A d \in Calls : AtWrite(calls[d], i)' <=> d # c /\ AtWrite(calls[d], i)
      BY <2>2 DEF AtWrite
    <3>4. \A d \in Calls : AtWrite(calls[d], i)' => calls'[d].life = l
      BY <2>2, <2>5, <3>1, <3>3 DEF LiveOK
    <3>5. ASSUME NEW k \in Chunks
          PROVE  \/ chunkFiles'[i][k] \in {None, l}
                 \/ \E d \in Calls : AtWrite(calls[d], i)' /\ calls'[d].chunk = k
      <4>1. CASE k = call.chunk
        <5>1. w = l \/ \E d \in Calls : d # c /\ AtWrite(calls[d], i) /\ calls[d].chunk = k
          BY <1>1, <3>2, <4>1 DEF Written, Writing, AtWrite
        <5> QED
          BY <2>2, <3>3, <4>1, <5>1
      <4>2. CASE k # call.chunk
        <5>1. CASE chunkFiles[i][k] \in {None, l}
          BY <2>2, <4>2, <5>1
        <5>2. CASE \E d \in Calls : AtWrite(calls[d], i) /\ calls[d].chunk = k
          <6>1. PICK d \in Calls : AtWrite(calls[d], i) /\ calls[d].chunk = k
            BY <5>2
          <6>2. d # c
            BY <1>1, <4>2, <6>1
          <6> QED
            BY <2>2, <3>3, <6>1, <6>2
        <5> QED
          BY <2>5, <3>1, <5>1, <5>2 DEF LiveOK
      <4> QED
        BY <4>1, <4>2
    <3> QED
      BY <2>5, <3>4, <3>5 DEF LiveOK
  <2>6. /\ UNCHANGED <<table, tempDirs>> /\ disturbed \subseteq disturbed'
        /\ calls' = [calls EXCEPT ![c] = Idle]
        /\ \A j \in Ids \ {i} : chunkFiles'[j] = chunkFiles[j]
        /\ Idle.op \notin {"merge", "save"}
    BY <1>3, <2>2
  <2> QED
    BY <2>1, <2>3, <2>4, <2>5, <2>6, OneDirectoryFInv
<1> QED
  BY <1>4, <1>5

LEMMA ChunkFailsFInv ==
    ASSUME IInv, FInv, NEW c \in Calls, ChunkFails(c)
    PROVE  FInv'
<1>1. PICK call, i : call = calls[c] /\ i = id[call.life]
  OBVIOUS
<1>2. call \in ChunkCalls /\ call.op = "chunk" /\ call.life \in Lives
  BY <1>1, CallFacts DEF ChunkFails, IInv, Suspended, ChunkCalls
<1>3. /\ calls' = [calls EXCEPT ![c] = Idle]
      /\ disturbed' = IF call.at = "write" THEN disturbed \union Touched(i, {}) ELSE disturbed
      /\ UNCHANGED <<table, disk>> /\ Idle.op = "idle"
  BY <1>1 DEF ChunkFails, Idle
<1>4. CASE call.at # "write"
  BY <1>1, <1>2, <1>3, <1>4, AnsweredFInv
<1>5. CASE call.at = "write"
  <2>1. i \in Ids /\ i \in tempDirs
    BY <1>1, <1>2, <1>5, ChunksAreChunks DEF AtWrite, FInv, DirsOK
  <2>2. \A j \in Ids \ {i} : ~AtWrite(calls[c], j) /\ ~AtWrite(Idle, j)
    BY <1>1, <1>3 DEF AtWrite
  <2>3. \A l \in Lives : id[l] = i /\ (Live(l) \/ Merging(l)) => l \in disturbed'
    BY <1>3, <1>5 DEF Touched
  <2>4. chunkFiles' = chunkFiles /\ UNCHANGED <<table, tempDirs>>
        /\ disturbed \subseteq disturbed'
    BY <1>3 DEF disk
  <2> QED
    BY <1>3, <2>1, <2>2, <2>3, <2>4, OneDirectoryFInv
<1> QED
  BY <1>4, <1>5

-----------------------------------------------------------------------------
\* What Save goes on with.
LEMMA SaveFInv ==
    ASSUME IInv, FInv, NEW c \in Calls, NEW l \in Lives, NEW content, Save(c, l, content),
           calls[c].op # "chunk", UNCHANGED <<table, disk, disturbed>>,
           content = Own(l) \/ l \in disturbed
    PROVE  FInv'
<1>1. CASE calls' = [calls EXCEPT ![c] = Idle]
  <2>1. Idle.op = "idle"
    BY DEF Idle
  <2> QED
    BY <1>1, <2>1, OneCallFInv
<1>2. CASE /\ ~(expectsSha256[l] /\ content # Own(l))
           /\ calls' = [calls EXCEPT ![c] = [op |-> "save", life |-> l, content |-> content]]
  <2>1. PICK r : r = [op |-> "save", life |-> l, content |-> content]
    OBVIOUS
  <2>2. r.op = "save" /\ r.life = l /\ r.content = content
    BY <2>1
  <2>3. calls' = [calls EXCEPT ![c] = r]
    BY <1>2, <2>1
  <2>4. r.content # Own(r.life) => r.life \in disturbed' /\ ~expectsSha256[r.life]
    BY <1>2, <2>2
  <2> QED
    BY <2>2, <2>3, <2>4, OneCallFInv
<1> QED
  BY <1>1, <1>2 DEF Save

LEMMA CompleteMemoryFInv ==
    ASSUME IInv, FInv, NEW c \in Calls, NEW l \in Lives, NEW isComplete,
           CompleteMemory(c, l, isComplete)
    PROVE  FInv'
<1>1. PICK content : content = Own(l)
  OBVIOUS
<1>2. /\ Save(c, l, content) /\ calls[c].op # "chunk"
      /\ UNCHANGED <<table, disk, disturbed>>
  BY <1>1 DEF CompleteMemory, Asked, Idle
<1> QED
  BY <1>1, <1>2, SaveFInv

\* Nobody writes the files of an undisturbed stream when its merge starts.
LEMMA CompleteDiskFInv ==
    ASSUME IInv, FInv, NEW c \in Calls, NEW l \in Lives, NEW isComplete,
           CompleteDisk(c, l, isComplete)
    PROVE  FInv'
<1>1. PICK r : r = [op |-> "merge", life |-> l, got |-> <<>>]
  OBVIOUS
<1>2. /\ calls[c] = Idle /\ Live(l) /\ ~useMemory[l]
      /\ calls' = [calls EXCEPT ![c] = r]
      /\ disturbed' = IF Writing(id[l]) # {} THEN disturbed \union {l} ELSE disturbed
      /\ UNCHANGED <<table, disk>>
  BY <1>1 DEF CompleteDisk, Asked
<1>3. r.op = "merge" /\ r.life = l /\ r.got = <<>> /\ calls[c].op = "idle" /\ Len(r.got) = 0
  BY <1>1, <1>2 DEF Idle
<1>4. ASSUME l \notin disturbed'
      PROVE  MergedOK(l, r.got)
  <2>1. l \notin disturbed /\ Writing(id[l]) = {}
    BY <1>2, <1>4
  <2>2. \A d \in Calls : ~AtWrite(calls[d], id[l])
    BY <2>1 DEF Writing, AtWrite
  <2>3. LiveOK(l)
    BY <1>2, <2>1 DEF FInv, LiveFiles
  <2> QED
    BY <1>3, <2>2, <2>3 DEF LiveOK, MergedOK
<1> QED
  BY <1>2, <1>3, <1>4, OneCallFInv

LEMMA AppendFacts ==
    ASSUME NEW S, NEW s \in Seq(S), NEW x \in S
    PROVE  /\ Append(s, x) \in Seq(S) /\ Len(Append(s, x)) = Len(s) + 1
           /\ \A m \in 1 .. Len(s) : Append(s, x)[m] = s[m]
           /\ Append(s, x)[Len(s) + 1] = x
OBVIOUS

LEMMA MergeChunkFInv ==
    ASSUME IInv, FInv, NEW c \in Calls, MergeChunk(c)
    PROVE  FInv'
<1>1. PICK call, l, n, got :
         /\ call = calls[c]
         /\ l = call.life
         /\ n = Len(call.got)
         /\ got = Append(call.got, chunkFiles[id[call.life]][n])
  OBVIOUS
<1>2. /\ call \in MergeCalls /\ call.op = "merge" /\ l \in Lives /\ n < totalChunks[l]
      /\ call.got \in Seq(Contents) /\ n \in Nat
  BY <1>1, CallFacts DEF MergeChunk, IInv, Suspended, Idle, MergeCalls
<1>3. /\ chunkFiles[id[l]][n] # None
      /\ \/ n + 1 = totalChunks[l] /\ Save(c, l, got)
         \/ n + 1 # totalChunks[l] /\ calls' = [calls EXCEPT ![c] = [call EXCEPT !.got = got]]
         \/ calls' = [calls EXCEPT ![c] = Idle]
      /\ UNCHANGED <<table, disk, disturbed>>
  BY <1>1 DEF MergeChunk
<1>4. n \in Chunks /\ chunkFiles[id[l]][n] \in Contents
  <2>1. n \in Chunks /\ id[l] \in Ids
    <3>1. n \in ChunksOf(l)
      BY <1>2 DEF ChunksOf
    <3> QED
      BY <1>2, <3>1, ChunksAreChunks
  <2> QED
    BY <2>1, <1>3 DEF IInv, DiskOK
<1>5. /\ got \in Seq(Contents) /\ Len(got) = n + 1
      /\ \A m \in 1 .. n : got[m] = call.got[m]
      /\ got[n + 1] = chunkFiles[id[l]][n]
  <2>1. PICK s, x : s = call.got /\ x = chunkFiles[id[l]][n]
    OBVIOUS
  <2>2. s \in Seq(Contents) /\ x \in Contents /\ got = Append(s, x) /\ Len(s) = n
    BY <1>1, <1>2, <1>4, <2>1
  <2>3. /\ got \in Seq(Contents) /\ Len(got) = n + 1
        /\ \A m \in 1 .. n : got[m] = s[m]
        /\ got[n + 1] = x
    BY <2>2, AppendFacts
  <2> QED
    BY <2>1, <2>3
<1>6. ASSUME l \notin disturbed
      PROVE  MergedOK(l, got)
  <2>1. MergedOK(l, call.got)
    BY <1>1, <1>2, <1>6 DEF FInv, MergeGood
  <2>2. chunkFiles[id[l]][n] = l
    BY <1>3, <1>4, <2>1 DEF MergedOK
  <2>3. ASSUME NEW m \in 1 .. n + 1
        PROVE  got[m] = l
    <3>1. CASE m = n + 1
      BY <1>5, <2>2, <3>1
    <3>2. CASE m # n + 1
      <4>1. m \in 1 .. n
        BY <1>2, <3>2
      <4>2. call.got[m] = l
        BY <1>1, <2>1, <4>1 DEF MergedOK
      <4> QED
        BY <1>5, <4>1, <4>2
    <3> QED
      BY <3>1, <3>2
  <2> QED
    BY <1>5, <2>1, <2>3 DEF MergedOK
<1>7. CASE n + 1 = totalChunks[l] /\ Save(c, l, got)
  <2>1. got = Own(l) \/ l \in disturbed
    <3> SUFFICES ASSUME l \notin disturbed PROVE got = Own(l)
      OBVIOUS
    <3>1. \A m \in 1 .. Len(got) : got[m] = l
      BY <1>6 DEF MergedOK
    <3>2. DOMAIN got = 1 .. totalChunks[l] /\ got = [m \in DOMAIN got |-> got[m]]
      BY <1>5, <1>7
    <3> QED
      BY <3>1, <3>2, <1>5, <1>7 DEF Own
  <2> QED
    BY <2>1, <1>1, <1>2, <1>3, <1>7, SaveFInv
<1>8. CASE calls' = [calls EXCEPT ![c] = [call EXCEPT !.got = got]]
  <2>1. PICK r : r = [call EXCEPT !.got = got]
    OBVIOUS
  <2>2. r.op = "merge" /\ r.life = l /\ r.got = got
    BY <1>1, <1>2, <2>1 DEF MergeCalls
  <2>3. r.life \notin disturbed' => MergedOK(r.life, r.got)
    BY <1>3, <1>6, <2>2
  <2>4. /\ calls' = [calls EXCEPT ![c] = r] /\ disturbed \subseteq disturbed'
        /\ UNCHANGED <<table, disk>> /\ calls[c].op = "merge" /\ r.life \in Lives
    BY <1>1, <1>2, <1>3, <1>8, <2>1, <2>2
  <2> QED
    BY <2>2, <2>3, <2>4, OneCallFInv
<1>9. CASE calls' = [calls EXCEPT ![c] = Idle]
  <2>1. Idle.op = "idle"
    BY DEF Idle
  <2> QED
    BY <1>1, <1>2, <1>3, <1>9, <2>1, OneCallFInv
<1> QED
  BY <1>3, <1>7, <1>8, <1>9

LEMMA InitFInv == Init => FInv
<1> SUFFICES ASSUME Init PROVE FInv
  OBVIOUS
<1>1. \A c \in Calls : calls[c].op = "idle"
  BY DEF Init, Idle
<1>2. DirsOK /\ LiveFiles
  BY <1>1, ChunksAreChunks DEF Init, DirsOK, LiveFiles, Live, AtWrite
<1> QED
  BY <1>1, <1>2 DEF FInv, Init, MergeGood, SaveGood

LEMMA StepFInv == IInv /\ FInv /\ [Next]_vars => FInv'
<1> SUFFICES ASSUME IInv, FInv, [Next]_vars PROVE FInv'
  OBVIOUS
<1>1. CASE UNCHANGED vars
  <2>1. UNCHANGED <<streams, tempDirs, chunkFiles, calls, disturbed>>
    BY <1>1 DEF vars
  <2>2. \A l \in Lives : Live(l)' => Live(l)
    BY <2>1 DEF Live
  <2> QED
    BY <2>1, <2>2, QuietKeeps
<1>2. ASSUME NEW c \in Calls,
             \/ OpenChunk(c) \/ WriteChunk(c) \/ ChunkFails(c)
             \/ MergeChunk(c) \/ OpenFinal(c) \/ Saved(c) \/ CompleteFails(c)
             \/ \E l \in Lives, isComplete \in BOOLEAN :
                   CompleteMemory(c, l, isComplete) \/ CompleteDisk(c, l, isComplete)
      PROVE  FInv'
  BY <1>2, OpenChunkFInv, WriteChunkFInv, ChunkFailsFInv, MergeChunkFInv, OpenFinalFInv,
     CleanersFInv, CompleteFailsFInv, CompleteMemoryFInv, CompleteDiskFInv
<1>3. ASSUME NEW l \in Lives, createStream(l) \/ createStreamFails(l) \/ Timeout(l)
      PROVE  FInv'
  BY <1>3, CreateFInv, CleanersFInv
<1> QED
  BY <1>1, <1>2, <1>3, CleanersFInv, MemoryChunkFInv, StartChunkFInv DEF Next

-----------------------------------------------------------------------------
(* The final files.  A save whose handle is "open" is alone with its file,  *)
(* which is then not kept of anyone; a kept file is as its save left it.    *)

Alone(c) == \A d \in Writers(filename[calls[c].life]) : d = c

GInv ==
    /\ \A c \in Calls : handles[c] # "closed" => calls[c].op = "save"
    /\ \A c \in Calls : handles[c] = "open" => Alone(c)
    /\ \A c \in Calls : handles[c] \in {"open", "mixed"} =>
          \A l \in kept : filename[l] # filename[calls[c].life]
    /\ SavedFilesAreWhole

\* Steps on requests that have no final file open, of which one may remove a
\* final file.
LEMMA OtherGInv ==
    ASSUME IInv, GInv, disturbed \subseteq disturbed',
           \A c \in Calls : handles[c] # "closed" => calls'[c] = calls[c],
           UNCHANGED finals \/ \E f : Unlink(f)
    PROVE  GInv'
<1>1. CASE UNCHANGED finals
  <2>1. finalFiles' = finalFiles /\ handles' = handles /\ kept' = kept
    BY <1>1 DEF finals
  <2>2. \A f : Writers(f)' = Writers(f)
    BY <2>1 DEF Writers
  <2>3. \A c \in Calls : handles'[c] = "open" => Alone(c)'
    BY <2>1, <2>2 DEF GInv, Alone
  <2> QED
    BY <2>1, <2>3 DEF GInv, SavedFilesAreWhole
<1>2. ASSUME NEW f, Unlink(f)
      PROVE  GInv'
  <2>1. /\ finalFiles' = [finalFiles EXCEPT ![f] = None]
        /\ handles' = [c \in Calls |-> IF c \in Writers(f) THEN "unlinked" ELSE handles[c]]
        /\ kept' = {l \in kept : filename[l] # f}
    BY <1>2 DEF Unlink, Hit
  <2>2. ASSUME NEW c \in Calls
        PROVE  /\ handles'[c] # "closed" => handles[c] # "closed"
               /\ handles'[c] \in {"open", "mixed"} => handles'[c] = handles[c]
    BY <2>1 DEF Writers
  <2>3. \A g, c : c \in Writers(g)' => c \in Writers(g)
    BY <2>2 DEF Writers
  <2>4. \A c \in Calls : handles'[c] = "open" => Alone(c)'
    BY <2>2, <2>3 DEF GInv, Alone
  <2>5. SavedFilesAreWhole'
    <3> SUFFICES ASSUME NEW l \in kept', finalFiles'[filename[l]] # l
                 PROVE  l \in disturbed' /\ ~expectsSha256[l]
      BY DEF SavedFilesAreWhole
    <3>1. l \in kept /\ filename[l] # f /\ filename[l] \in FileNames
      BY <2>1, ChunksAreChunks DEF IInv, FinalsOK
    <3>2. finalFiles'[filename[l]] = finalFiles[filename[l]]
      BY <2>1, <3>1 DEF IInv, FinalsOK
    <3> QED
      BY <3>1, <3>2 DEF GInv, SavedFilesAreWhole
  <2>6. \A c \in Calls : handles'[c] \in {"open", "mixed"} =>
          \A l \in kept' : filename[l] # filename[calls'[c].life]
    BY <2>1, <2>2 DEF GInv
  <2>7. \A c \in Calls : handles'[c] # "closed" => calls'[c].op = "save"
    BY <2>2 DEF GInv
  <2> QED
    BY <2>4, <2>5, <2>6, <2>7 DEF GInv
<1> QED
  BY <1>1, <1>2

\* What a cleanup does to the calls cs its caller leaves.
LEMMA CleanupSaves ==
    ASSUME NEW i, NEW cs, NEW ts, cleanupStream(i, cs, ts), cs \in [Calls -> CallType]
    PROVE  \A c \in Calls : cs[c].op = "save" => calls'[c] = cs[c]
BY DEF cleanupStream, KeepDirectory, RemoveDirectory, Unlinked

LEMMA CleanersGInv ==
    ASSUME IInv, GInv,
           \/ \E i \in Ids : Reset(i)
           \/ \E l \in Lives : Timeout(l)
    PROVE  GInv'
<1>1. PICK i, ts, cs : /\ cs = calls /\ cleanupStream(i, cs, ts) /\ deleteFinalFile(i)
                       /\ disturbed' = disturbed
  BY DEF Reset, Timeout
<1>2. \A c \in Calls : handles[c] # "closed" => calls'[c] = calls[c]
  BY <1>1, CleanupSaves DEF GInv, IInv, Suspended
<1>3. UNCHANGED finals \/ \E f : Unlink(f)
  BY <1>1 DEF deleteFinalFile
<1> QED
  BY <1>1, <1>2, <1>3, OtherGInv

LEMMA OneCallGInv ==
    ASSUME IInv, GInv, NEW c \in Calls, calls[c].op # "save", NEW r,
           calls' = [calls EXCEPT ![c] = r],
           UNCHANGED finals, disturbed \subseteq disturbed'
    PROVE  GInv'
<1>1. \A d \in Calls : handles[d] # "closed" => calls'[d] = calls[d]
  BY DEF GInv, IInv, Suspended
<1> QED
  BY <1>1, OtherGInv

LEMMA RequestsGInv ==
    ASSUME IInv, GInv, NEW c \in Calls,
           \/ \E l \in Lives, k \in Chunks : StartChunk(c, l, k)
           \/ OpenChunk(c) \/ WriteChunk(c) \/ ChunkFails(c) \/ MergeChunk(c)
           \/ \E l \in Lives, isComplete \in BOOLEAN :
                 CompleteMemory(c, l, isComplete) \/ CompleteDisk(c, l, isComplete)
    PROVE  GInv'
<1>1. UNCHANGED finals
  BY DEF StartChunk, OpenChunk, WriteChunk, ChunkFails, MergeChunk, CompleteMemory, CompleteDisk
<1>2. disturbed \subseteq disturbed'
  <2>1. CASE OpenChunk(c) \/ ChunkFails(c)
    BY <2>1 DEF OpenChunk, ChunkFails
  <2>2. CASE \E l \in Lives, isComplete \in BOOLEAN : CompleteDisk(c, l, isComplete)
    BY <2>2 DEF CompleteDisk
  <2>3. CASE WriteChunk(c) \/ MergeChunk(c)
    BY <2>3 DEF WriteChunk, MergeChunk
  <2>4. CASE \/ \E l \in Lives, k \in Chunks : StartChunk(c, l, k)
             \/ \E l \in Lives, isComplete \in BOOLEAN : CompleteMemory(c, l, isComplete)
    BY <2>4 DEF StartChunk, CompleteMemory
  <2> QED
    BY <2>1, <2>2, <2>3, <2>4
<1>3. calls[c].op # "save"
  <2>1. CASE OpenChunk(c) \/ WriteChunk(c) \/ ChunkFails(c) \/ MergeChunk(c)
    <3>1. calls[c].op \in {"chunk", "merge"}
      BY <2>1 DEF OpenChunk, WriteChunk, ChunkFails, MergeChunk
    <3> QED
      BY <3>1
  <2>2. CASE \/ \E l \in Lives, k \in Chunks : StartChunk(c, l, k)
             \/ \E l \in Lives, isComplete \in BOOLEAN :
                   CompleteMemory(c, l, isComplete) \/ CompleteDisk(c, l, isComplete)
    <3>1. calls[c] = Idle
      BY <2>2 DEF StartChunk, CompleteMemory, CompleteDisk, Asked
    <3> QED
      BY <3>1 DEF Idle
  <2> QED
    BY <2>1, <2>2
<1>4. \E r : calls' = [calls EXCEPT ![c] = r]
  BY DEF StartChunk, OpenChunk, WriteChunk, ChunkFails, MergeChunk, CompleteMemory, CompleteDisk,
         Save
<1> QED
  BY <1>1, <1>2, <1>3, <1>4, OneCallGInv

LEMMA StreamsGInv ==
    ASSUME IInv, GInv,
           \/ \E l \in Lives : createStream(l) \/ createStreamFails(l)
           \/ \E l \in Lives, k \in Chunks : MemoryChunk(l, k)
           \/ UNCHANGED vars
    PROVE  GInv'
<1>1. UNCHANGED finals /\ disturbed \subseteq disturbed' /\ calls' = calls
  BY DEF createStream, createStreamFails, MemoryChunk, vars, finals
<1> QED
  BY <1>1, OtherGInv

\* Opening a file ends what was kept of it, and nobody who writes it is alone
\* any more.
LEMMA OpenFinalGInv ==
    ASSUME IInv, GInv, NEW c \in Calls, OpenFinal(c)
    PROVE  GInv'
<1>1. PICK f : f = filename[calls[c].life]
  OBVIOUS
<1>2. /\ calls[c].op = "save" /\ handles[c] = "closed"
      /\ finalFiles' = [finalFiles EXCEPT ![f] = Partial]
      /\ kept' = {l \in kept : filename[l] # f}
      /\ calls' = calls /\ disturbed' = disturbed
  BY <1>1 DEF OpenFinal, Hit
<1>3. handles' = [d \in Calls |-> IF d \in Writers(f) THEN "mixed"
                                 ELSE IF d = c THEN IF Writers(f) = {} THEN "open" ELSE "mixed"
                                 ELSE handles[d]]
  BY <1>1 DEF OpenFinal
<1>4. ASSUME NEW d \in Calls
      PROVE  /\ d \in Writers(f) => handles'[d] = "mixed"
             /\ d = c => handles'[d] = IF Writers(f) = {} THEN "open" ELSE "mixed"
             /\ d # c /\ d \notin Writers(f) => handles'[d] = handles[d]
  BY <1>2, <1>3 DEF Writers
<1>5. \A d \in Calls : handles'[d] # "closed" => calls'[d].op = "save"
  BY <1>2, <1>4 DEF GInv, Writers
<1>6. ASSUME NEW d \in Calls, handles'[d] = "open"
      PROVE  Alone(d)'
  <2> SUFFICES ASSUME NEW e \in Calls, handles'[e] \in {"open", "mixed"},
                      filename[calls[e].life] = filename[calls[d].life]
               PROVE  e = d
    BY <1>2 DEF Alone, Writers
  <2>1. CASE d = c
    BY <1>1, <1>4, <1>6, <2>1 DEF Writers
  <2>2. CASE d # c
    <3>1. d \notin Writers(f) /\ handles[d] = "open"
      BY <1>4, <1>6, <2>2
    <3>2. filename[calls[d].life] # f
      BY <3>1 DEF Writers
    <3>3. e # c /\ e \notin Writers(f) /\ handles[e] \in {"open", "mixed"}
      BY <1>1, <1>4, <3>2 DEF Writers
    <3> QED
      BY <3>1, <3>3 DEF GInv, Alone, Writers
  <2> QED
    BY <2>1, <2>2
<1>7. ASSUME NEW d \in Calls, handles'[d] \in {"open", "mixed"}, NEW l \in kept'
      PROVE  filename[l] # filename[calls'[d].life]
  BY <1>1, <1>2, <1>4, <1>7 DEF GInv, Writers
<1>8. SavedFilesAreWhole'
  <2> SUFFICES ASSUME NEW l \in kept', finalFiles'[filename[l]] # l
               PROVE  l \in disturbed' /\ ~expectsSha256[l]
    BY DEF SavedFilesAreWhole
  <2>1. l \in kept /\ filename[l] # f /\ filename[l] \in FileNames
    BY <1>2, ChunksAreChunks DEF IInv, FinalsOK
  <2>2. finalFiles'[filename[l]] = finalFiles[filename[l]]
    BY <1>2, <2>1 DEF IInv, FinalsOK
  <2> QED
    BY <1>2, <2>1, <2>2 DEF GInv, SavedFilesAreWhole
<1> QED
  BY <1>5, <1>6, <1>7, <1>8 DEF GInv

\* A request that closes its file takes nothing from the others.
LEMMA ClosedGInv ==
    ASSUME IInv, GInv, NEW c \in Calls, handles' = [handles EXCEPT ![c] = "closed"],
           \A d \in Calls : d # c /\ handles[d] # "closed" => calls'[d] = calls[d]
    PROVE  /\ \A d \in Calls : handles'[d] # "closed" =>
                  d # c /\ handles'[d] = handles[d] /\ calls'[d] = calls[d]
           /\ \A d \in Calls : handles'[d] # "closed" => calls'[d].op = "save"
           /\ \A d \in Calls : handles'[d] = "open" => Alone(d)'
<1>1. \A d \in Calls : handles'[d] # "closed" =>
          d # c /\ handles'[d] = handles[d] /\ calls'[d] = calls[d]
  BY DEF IInv, FinalsOK
<1>2. \A g : Writers(g)' \subseteq Writers(g)
  BY <1>1 DEF Writers
<1> QED
  BY <1>1, <1>2 DEF GInv, Alone

LEMMA CompleteFailsGInv ==
    ASSUME IInv, GInv, NEW c \in Calls, CompleteFails(c)
    PROVE  GInv'
<1>1. /\ handles' = [handles EXCEPT ![c] = "closed"]
      /\ \A d \in Calls : d # c => calls'[d] = calls[d]
      /\ disturbed' = disturbed /\ finalFiles' = finalFiles /\ kept' = kept
  BY DEF CompleteFails, IInv, Suspended
<1>2. /\ \A d \in Calls : handles'[d] # "closed" => handles'[d] = handles[d] /\ calls'[d] = calls[d]
      /\ \A d \in Calls : handles'[d] # "closed" => calls'[d].op = "save"
      /\ \A d \in Calls : handles'[d] = "open" => Alone(d)'
  BY <1>1, ClosedGInv
<1>3. ASSUME NEW d \in Calls, handles'[d] \in {"open", "mixed"}, NEW l \in kept'
      PROVE  filename[l] # filename[calls'[d].life]
  BY <1>1, <1>2, <1>3 DEF GInv
<1>4. SavedFilesAreWhole'
  BY <1>1 DEF GInv, SavedFilesAreWhole
<1> QED
  BY <1>2, <1>3, <1>4 DEF GInv

\* A save that was alone with its file all the time leaves it whole, unless its
\* stream was disturbed.
LEMMA SavedGInv ==
    ASSUME IInv, FInv, GInv, NEW c \in Calls, Saved(c)
    PROVE  GInv'
<1>1. PICK l, f, cs : l = calls[c].life /\ f = filename[l] /\ cs = [calls EXCEPT ![c] = Idle]
  OBVIOUS
<1>2. /\ calls[c].op = "save" /\ handles[c] # "closed"
      /\ handles' = [handles EXCEPT ![c] = "closed"]
      /\ finalFiles' = IF handles[c] = "unlinked" THEN finalFiles
                       ELSE [finalFiles EXCEPT ![f] = Final(c)]
      /\ kept' = IF handles[c] = "open" THEN kept \union {l} ELSE kept
      /\ disturbed' = disturbed
  BY <1>1 DEF Saved
<1>3. l \in Lives /\ f \in FileNames /\ handles[c] \in Handles
  <2>1. calls[c] \in CallType
    BY DEF IInv, Suspended
  <2> QED
    BY <1>1, <1>2, <2>1, CallFacts, ChunksAreChunks DEF Idle, IInv, FinalsOK
<1>4. \A d \in Calls : d # c /\ handles[d] # "closed" => calls'[d] = calls[d]
  <2>1. cs \in [Calls -> CallType] /\ \A d \in Calls : d # c => cs[d] = calls[d]
    BY <1>1 DEF IInv, Suspended, CallType
  <2>2. \E i, ts : cleanupStream(i, cs, ts)
    BY <1>1 DEF Saved
  <2> QED
    BY <2>1, <2>2, CleanupSaves DEF GInv
<1>5. /\ \A d \in Calls : handles'[d] # "closed" =>
            d # c /\ handles'[d] = handles[d] /\ calls'[d] = calls[d]
      /\ \A d \in Calls : handles'[d] # "closed" => calls'[d].op = "save"
      /\ \A d \in Calls : handles'[d] = "open" => Alone(d)'
  BY <1>2, <1>4, ClosedGInv
<1>6. ASSUME NEW d \in Calls, handles'[d] \in {"open", "mixed"}, NEW m \in kept'
      PROVE  filename[m] # filename[calls'[d].life]
  <2>1. d # c /\ handles[d] \in {"open", "mixed"} /\ calls'[d] = calls[d]
    BY <1>5, <1>6
  <2>2. CASE m \in kept
    BY <2>1, <2>2 DEF GInv
  <2>3. CASE m \notin kept
    <3>1. handles[c] = "open" /\ m = l
      BY <1>2, <1>6, <2>3
    <3>2. d \notin Writers(f)
      BY <1>1, <2>1, <3>1 DEF GInv, Alone
    <3> QED
      BY <1>1, <2>1, <3>1, <3>2 DEF Writers
  <2> QED
    BY <2>2, <2>3
<1>7. SavedFilesAreWhole'
  <2> SUFFICES ASSUME NEW m \in kept', finalFiles'[filename[m]] # m
               PROVE  m \in disturbed' /\ ~expectsSha256[m]
    BY DEF SavedFilesAreWhole
  <2>1. CASE m \in kept
    <3>1. handles[c] = "unlinked" \/ filename[m] # f
      BY <1>1, <1>2, <1>3, <2>1 DEF GInv, Handles
    <3>2. finalFiles'[filename[m]] = finalFiles[filename[m]]
      BY <1>2, <3>1 DEF IInv, FinalsOK
    <3> QED
      BY <1>2, <2>1, <3>2 DEF GInv, SavedFilesAreWhole
  <2>2. CASE m \notin kept
    <3>1. handles[c] = "open" /\ m = l
      BY <1>2, <2>2
    <3>2. finalFiles'[f] = Final(c)
      BY <1>2, <1>3, <3>1 DEF IInv, FinalsOK
    <3>3. calls[c].content # Own(l)
      BY <1>1, <3>1, <3>2 DEF Final
    <3> QED
      BY <1>1, <1>2, <3>1, <3>3 DEF FInv, SaveGood
  <2> QED
    BY <2>1, <2>2
<1> QED
  BY <1>5, <1>6, <1>7 DEF GInv

LEMMA InitGInv == Init => GInv
BY DEF Init, GInv, SavedFilesAreWhole

LEMMA StepGInv == IInv /\ FInv /\ GInv /\ [Next]_vars => GInv'
<1> SUFFICES ASSUME IInv, FInv, GInv, [Next]_vars PROVE GInv'
  OBVIOUS
<1>1. ASSUME NEW c \in Calls,
             \/ OpenChunk(c) \/ WriteChunk(c) \/ ChunkFails(c)
             \/ MergeChunk(c) \/ OpenFinal(c) \/ Saved(c) \/ CompleteFails(c)
             \/ \E l \in Lives, isComplete \in BOOLEAN :
                   CompleteMemory(c, l, isComplete) \/ CompleteDisk(c, l, isComplete)
      PROVE  GInv'
  BY <1>1, RequestsGInv, OpenFinalGInv, SavedGInv, CompleteFailsGInv
<1>2. ASSUME NEW l \in Lives, createStream(l) \/ createStreamFails(l) \/ Timeout(l)
      PROVE  GInv'
  BY <1>2, StreamsGInv, CleanersGInv
<1>3. ASSUME NEW l \in Lives, NEW k \in Chunks,
             MemoryChunk(l, k) \/ \E c \in Calls : StartChunk(c, l, k)
      PROVE  GInv'
  BY <1>3, StreamsGInv, RequestsGInv
<1> QED
  BY <1>1, <1>2, <1>3, StreamsGInv, CleanersGInv DEF Next

(* Whatever is counted twice, retried, reset or removed while requests wait *)
(* for the disk, a file that was reported complete is there and consists of *)
(* the whole chunks of its stream, unless that stream has no checksum and   *)
(* its chunk files were open to another write, and until the final file is  *)
(* opened by another save or removed with a stream of its name: the theorem *)
(* promises nothing to streams that share a file name at the same time.     *)
THEOREM SavedFilesAlwaysWhole == Spec => []SavedFilesAreWhole
<1>1. IInv /\ FInv /\ GInv /\ [Next]_vars => (IInv /\ FInv /\ GInv)'
  BY StepIInv, StepFInv, StepGInv
<1>2. GInv => SavedFilesAreWhole
  BY DEF GInv
<1> QED
  BY <1>1, <1>2, InitIInv, InitFInv, InitGInv, PTL DEF Spec

-----------------------------------------------------------------------------
(* The account of memory.                                                   *)

\* The memory streams in the map.
Kept == {l \in Lives : Live(l) /\ useMemory[l]}

\* There are finitely many, and memoryUsage is what they announced as long as
\* the clamp had nothing to do; which is so as long as no size is negative.
MInv ==
    /\ IsFiniteSet(Kept)
    /\ "clamped" \notin skews => memoryUsage = Sum(fileSize, Kept)
    /\ "negative" \notin skews =>
          /\ "clamped" \notin skews
          /\ memoryUsage <= MEMORY_LIMIT
          /\ \A l \in Kept : fileSize[l] >= 0

LEMMA InitMInv == Init => MInv
<1> SUFFICES ASSUME Init PROVE MInv
  OBVIOUS
<1>1. Kept = {}
  <2>1. ASSUME NEW l \in Lives PROVE ~Live(l)
    <3>1. id[l] \in Ids /\ l # None
      BY ChunksAreChunks
    <3> QED
      BY <3>1 DEF Init, Live
  <2> QED
    BY <2>1 DEF Kept
<1>2. IsFiniteSet(Kept)
  BY <1>1, FS_EmptySet
<1>3. Sum(fileSize, Kept) = 0
  BY <1>1, <1>2, SumPicked
<1> QED
  BY <1>1, <1>2, <1>3, SizesAssumption DEF Init, MInv

\* A stream leaves, and gives back what it took.
LEMMA CleanupMInv ==
    ASSUME IInv, MInv, NEW i \in Ids, NEW cs, NEW ts, cleanupStream(i, cs, ts)
    PROVE  MInv'
<1>1. \A m \in Lives : id[m] \in Ids /\ m # None
  BY ChunksAreChunks
<1>2. CASE streams[i] = None
  BY <1>2 DEF cleanupStream, table, MInv, Kept, Live
<1>3. CASE streams[i] # None
  <2>1. PICK l \in Lives : l = streams[i] /\ id[l] = i
    BY <1>3 DEF IInv, Tracked, OwnId
  <2>2. streams' = [streams EXCEPT ![i] = None] /\ GiveBack(l)
    BY <1>3, <2>1 DEF cleanupStream
  <2>3. \A m \in Lives : Live(m)' <=> Live(m) /\ m # l
    BY <1>1, <2>1, <2>2 DEF Live, IInv, Tracked, OwnId
  <2>4. Kept' = Kept \ {l}
    BY <2>3 DEF Kept
  <2>5. CASE ~useMemory[l]
    <3>1. Kept' = Kept /\ memoryUsage' = memoryUsage /\ skews' = skews
      BY <2>2, <2>4, <2>5 DEF Kept, GiveBack
    <3> QED
      BY <3>1 DEF MInv
  <2>6. CASE useMemory[l]
    <3>1. l \in Kept /\ Kept \subseteq Lives /\ IsFiniteSet(Kept \ {l})
      BY <2>1, <2>6, FS_Subset DEF Kept, Live, MInv
    <3>2. PICK m, f, rest : m = memoryUsage /\ f = fileSize[l] /\ rest = Sum(fileSize, Kept \ {l})
      OBVIOUS
    <3>3. m \in Int /\ f \in Int /\ rest \in Int
      BY <3>1, <3>2, SumType DEF IInv, AccountOK
    <3>4. "clamped" \notin skews => m = f + rest
      BY <3>1, <3>2, SumWithout DEF MInv
    <3>5. "negative" \notin skews => rest >= 0 /\ f >= 0
      <4>1. ASSUME \A x \in Kept : fileSize[x] >= 0
            PROVE  rest >= 0 /\ f >= 0
        <5>1. rest \in Nat
          BY <3>1, <3>2, <4>1, SumNonnegative
        <5> QED
          BY <3>1, <3>2, <4>1, <5>1
      <4> QED
        BY <4>1 DEF MInv
    <3>6. /\ memoryUsage' = IF f = 0 THEN m ELSE IF m < f THEN 0 ELSE m - f
          /\ skews' = IF f # 0 /\ m < f THEN skews \union {"clamped"} ELSE skews
      BY <2>2, <2>6, <3>2, <3>3, GivenBack DEF GiveBack
    <3>7. "clamped" \notin skews' => "clamped" \notin skews /\ memoryUsage' = rest
      BY <3>3, <3>4, <3>6
    <3>8. ASSUME "negative" \notin skews'
          PROVE  "clamped" \notin skews' /\ memoryUsage' <= MEMORY_LIMIT
      <4>1. "negative" \notin skews /\ "clamped" \notin skews /\ m <= MEMORY_LIMIT
        BY <3>2, <3>6, <3>8 DEF MInv
      <4>2. m = f + rest /\ rest >= 0 /\ f >= 0
        BY <3>4, <3>5, <4>1
      <4> QED
        BY <3>3, <3>6, <4>1, <4>2
    <3>9. "negative" \notin skews' => \A x \in Kept' : fileSize[x] >= 0
      BY <2>4, <3>6 DEF MInv
    <3> QED
      BY <2>4, <3>1, <3>2, <3>7, <3>8, <3>9 DEF MInv
  <2> QED
    BY <2>5, <2>6
<1> QED
  BY <1>2, <1>3

\* A stream enters, and takes what it announced.
LEMMA CreateMInv ==
    ASSUME IInv, MInv, NEW l \in Lives, createStream(l)
    PROVE  MInv'
<1>1. /\ streams[id[l]] = None /\ streams' = [streams EXCEPT ![id[l]] = l]
      /\ ~useMemory[l] => UNCHANGED <<memoryUsage, skews>>
      /\ useMemory[l] =>
            /\ memoryUsage' = memoryUsage + fileSize[l]
            /\ skews' = IF fileSize[l] < 0 THEN skews \union {"negative"} ELSE skews
            /\ fileSize[l] = 0 \/ ~(memoryUsage + fileSize[l] > MEMORY_LIMIT)
  BY DEF createStream, OverLimit
<1>2. \A m \in Lives : id[m] \in Ids /\ m # None
  BY ChunksAreChunks
<1>3. \A m \in Lives : Live(m)' <=> Live(m) \/ m = l
  BY <1>1, <1>2 DEF Live, IInv, Tracked, OwnId
<1>4. CASE ~useMemory[l]
  <2>1. Kept' = Kept /\ memoryUsage' = memoryUsage /\ skews' = skews
    BY <1>1, <1>3, <1>4 DEF Kept
  <2> QED
    BY <2>1 DEF MInv
<1>5. CASE useMemory[l]
  <2>1. l \notin Kept /\ Kept' = Kept \union {l} /\ Kept \subseteq Lives
    BY <1>1, <1>2, <1>3, <1>5 DEF Kept, Live
  <2>2. PICK now : now = Kept \union {l}
    OBVIOUS
  <2>3. IsFiniteSet(now) /\ now \in SUBSET Lives /\ l \in now /\ now \ {l} = Kept
    BY <2>1, <2>2, FS_AddElement DEF MInv
  <2>4. Sum(fileSize, now) = fileSize[l] + Sum(fileSize, Kept)
    <3>1. fileSize \in [Lives -> Int]
      OBVIOUS
    <3> HIDE DEF Kept
    <3>2. Sum(fileSize, now) = fileSize[l] + Sum(fileSize, now \ {l})
      BY <2>3, <3>1, SumWithout
    <3> QED
      BY <2>3, <3>2, Zenon
  <2>5. PICK m, f, s : m = memoryUsage /\ f = fileSize[l] /\ s = Sum(fileSize, Kept)
    OBVIOUS
  <2>6. m \in Int /\ f \in Int /\ s \in Int
    BY <2>1, <2>5, SumType DEF MInv, IInv, AccountOK
  <2>7. /\ memoryUsage' = m + f
        /\ skews' = IF f < 0 THEN skews \union {"negative"} ELSE skews
        /\ f = 0 \/ ~(m + f > MEMORY_LIMIT)
    BY <1>1, <1>5, <2>5
  <2>8. "clamped" \notin skews' => memoryUsage' = Sum(fileSize, now)
    <3>1. "clamped" \notin skews' => m = s
      BY <2>5, <2>7 DEF MInv
    <3>2. Sum(fileSize, now) = f + s
      BY <2>4, <2>5, Zenon
    <3> QED
      BY <2>6, <2>7, <3>1, <3>2
  <2>9. ASSUME "negative" \notin skews'
        PROVE  "clamped" \notin skews' /\ memoryUsage' <= MEMORY_LIMIT /\ f >= 0
    <3>1. "negative" \notin skews /\ f >= 0 /\ skews' = skews
      BY <2>6, <2>7, <2>9
    <3>2. "clamped" \notin skews /\ m <= MEMORY_LIMIT
      BY <2>5, <3>1 DEF MInv
    <3> QED
      BY <2>6, <2>7, <3>1, <3>2
  <2>10. "negative" \notin skews' => \A x \in Kept' : fileSize[x] >= 0
    BY <2>1, <2>5, <2>7, <2>9 DEF MInv
  <2> QED
    BY <2>1, <2>2, <2>3, <2>8, <2>9, <2>10 DEF MInv
<1> QED
  BY <1>4, <1>5

LEMMA StepMInv == IInv /\ MInv /\ [Next]_vars => MInv'
<1> SUFFICES ASSUME IInv, MInv, [Next]_vars PROVE MInv'
  OBVIOUS
<1>1. ASSUME streams' = streams, memoryUsage' = memoryUsage, skews' = skews
      PROVE  MInv'
  BY <1>1 DEF MInv, Kept, Live
<1>2. ASSUME NEW i \in Ids, Reset(i)
      PROVE  MInv'
  <2>1. PICK cs, ts : cleanupStream(i, cs, ts)
    BY <1>2 DEF Reset
  <2> QED
    BY <2>1, CleanupMInv
<1>3. ASSUME NEW l \in Lives, Timeout(l)
      PROVE  MInv'
  <2>1. PICK i, cs, ts : i = id[l] /\ cleanupStream(i, cs, ts)
    BY <1>3 DEF Timeout
  <2> QED
    BY <2>1, CleanupMInv, ChunksAreChunks
<1>4. ASSUME NEW c \in Calls, Saved(c)
      PROVE  MInv'
  <2>1. calls[c].life \in Lives
    BY <1>4, CallFacts DEF Saved, IInv, Suspended, Idle
  <2>2. PICK i, cs, ts : i = id[calls[c].life] /\ cleanupStream(i, cs, ts)
    BY <1>4 DEF Saved
  <2> QED
    BY <2>1, <2>2, CleanupMInv, ChunksAreChunks
<1>5. ASSUME NEW l \in Lives, NEW k, MemoryChunk(l, k) \/ createStreamFails(l)
      PROVE  MInv'
  BY <1>1, <1>5 DEF MemoryChunk, createStreamFails, table
<1>6. ASSUME NEW c \in Calls,
             \/ \E l \in Lives, k \in Chunks : StartChunk(c, l, k)
             \/ OpenChunk(c) \/ WriteChunk(c) \/ ChunkFails(c)
             \/ MergeChunk(c) \/ OpenFinal(c) \/ CompleteFails(c)
             \/ \E l \in Lives, isComplete \in BOOLEAN :
                   CompleteMemory(c, l, isComplete) \/ CompleteDisk(c, l, isComplete)
      PROVE  MInv'
  <2>1. UNCHANGED table
    BY <1>6 DEF StartChunk, OpenChunk, WriteChunk, ChunkFails, MergeChunk, OpenFinal,
                CompleteFails, CompleteMemory, CompleteDisk
  <2> QED
    BY <1>1, <2>1 DEF table
<1>7. CASE UNCHANGED vars
  BY <1>1, <1>7 DEF vars
<1> QED
  BY <1>2, <1>3, <1>4, <1>5, <1>6, <1>7, CreateMInv DEF Next

(* Through every completion, reset and timeout memoryUsage is the sum of    *)
(* what the memory streams in the map announced, until the clamp at zero in *)
(* cleanupStream changes it; and as long as no announced size is negative   *)
(* it is never clamped and never over the limit.                            *)
THEOREM MemoryAlwaysAccounted == Spec => []MemoryAccounted
<1>1. ASSUME IInv, MInv PROVE MemoryAccounted
  <2>1. MapThenSumSet(LAMBDA l : fileSize[l], Kept) = Sum(fileSize, Kept)
    BY SumIsMapThenSum
  <2>2. "clamped" \notin skews => memoryUsage = Sum(fileSize, Kept)
    BY <1>1 DEF MInv
  <2>3. ASSUME "negative" \notin skews
        PROVE  "clamped" \notin skews /\ memoryUsage \in 0 .. MEMORY_LIMIT
    <3>1. /\ "clamped" \notin skews /\ memoryUsage <= MEMORY_LIMIT
          /\ IsFiniteSet(Kept) /\ \A l \in Kept : fileSize[l] >= 0
      BY <1>1, <2>3 DEF MInv
    <3>2. Kept \in SUBSET Lives
      BY DEF Kept
    <3>3. Sum(fileSize, Kept) \in Nat
      BY <3>1, <3>2, SumNonnegative
    <3> QED
      BY <2>2, <3>1, <3>3
  <2> QED
    BY <2>1, <2>2, <2>3 DEF MemoryAccounted, Kept
<1>2. IInv /\ MInv /\ [Next]_vars => (IInv /\ MInv)'
  BY StepIInv, StepMInv
<1> QED
  BY <1>1, <1>2, InitIInv, InitMInv, PTL DEF Spec

=============================================================================
