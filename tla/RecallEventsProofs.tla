------------------------- MODULE RecallEventsProofs -------------------------
(***************************************************************************)
(* Type correctness, the safety properties of RecallEvents and that it     *)
(* implements RecallReport, for any number of callbacks and keys and any   *)
(* bound of the cache.                                                     *)
(***************************************************************************)
EXTENDS RecallEvents, SequenceTheorems, TLAPS

USE CacheMaxAssumption, MaxListAssumption, KeysAssumption, NoneAssumption

\* A list of rows is a sequence of keys.
LEMMA ListsAreSequences == Lists \subseteq Seq(Keys)
  BY DEF Lists

\* Membership in the cache is membership at some position.
LEMMA ReportedAt ==
  ASSUME NEW k, reported \in Seq(Keys)
  PROVE  HasReported(k) <=> \E i \in 1..Len(reported) : reported[i] = k
  BY DEF HasReported, ToSet

\* Remembering a key that is not in the cache keeps the cache's shape, adds
\* that key, may drop others, and counts what it drops.
LEMMA MarkUnknown ==
  ASSUME TypeOK, NEW k \in Keys, ~HasReported(k), markRecallEventReported(k)
  PROVE  /\ reported' \in Seq(Keys)
         /\ Len(reported') <= CacheMax
         /\ IsInjective(reported')
         /\ HasReported(k)'
         /\ \A x \in Keys : HasReported(x)' => HasReported(x) \/ x = k
         /\ evicted' = [x \in Keys |-> IF (HasReported(x) \/ x = k) /\ ~HasReported(x)'
                                       THEN evicted[x] + 1 ELSE evicted[x]]
<1> DEFINE new == Append(reported, k)
           n == Len(new)
<1>1. reported \in Seq(Keys) /\ Len(reported) <= CacheMax /\ IsInjective(reported)
  BY DEF TypeOK
<1>2. \A i \in 1..Len(reported) : reported[i] # k
  BY <1>1, ReportedAt
<1>3. Refreshed(k) = new
  BY <1>2 DEF Refreshed, RemoveFirst
<1>4. /\ new \in Seq(Keys)
      /\ n = Len(reported) + 1
      /\ \A i \in 1..Len(reported) : new[i] = reported[i]
      /\ new[n] = k
  BY <1>1, AppendProperties
<1>5. \A i, j \in 1..n : new[i] = new[j] => i = j
  BY <1>1, <1>2, <1>4 DEF IsInjective
<1>6. \A x \in Keys : x \in ToSet(new) <=> HasReported(x) \/ x = k
  BY <1>1, <1>4, ReportedAt DEF ToSet
<1>7. /\ reported' \in Seq(Keys)
      /\ Len(reported') <= CacheMax
      /\ Len(reported') >= 1
      /\ \A i \in 1..Len(reported') : reported'[i] = new[i + n - Len(reported')]
      /\ Len(reported') <= n
  <2>1. reported' = DropOldest(new)
    BY <1>3 DEF markRecallEventReported
  <2>2. CASE n > CacheMax
    <3>1. n = CacheMax + 1
      BY <2>2, <1>1, <1>4
    <3>2. reported' = SubSeq(new, 2, n)
      BY <2>1, <2>2, <3>1 DEF DropOldest
    <3>3. /\ reported' \in Seq(Keys)
          /\ Len(reported') = n - 1
          /\ \A i \in 1..n - 1 : reported'[i] = new[i + 1]
      BY <3>2, <3>1, <1>4, SubSeqProperties
    <3> QED
      BY <3>1, <3>3
  <2>3. CASE ~(n > CacheMax)
    <3>1. reported' = new
      BY <2>1, <2>3 DEF DropOldest
    <3> QED
      BY <3>1, <2>3, <1>1, <1>4
  <2> QED
    BY <2>2, <2>3
<1> DEFINE shift == n - Len(reported')
<1>s. /\ DOMAIN reported' = 1..Len(reported')
      /\ \A i \in 1..Len(reported') : i + shift \in 1..n
  BY <1>4, <1>7
<1>8. IsInjective(reported')
  <2> SUFFICES ASSUME NEW i \in 1..Len(reported'), NEW j \in 1..Len(reported'),
                      reported'[i] = reported'[j]
               PROVE  i = j
    BY <1>s DEF IsInjective
  <2>1. new[i + shift] = new[j + shift]
    BY <1>7
  <2>2. i + shift = j + shift
    BY <2>1, <1>s, <1>5
  <2> QED
    BY <2>2, <1>4, <1>7
<1>9. HasReported(k)'
  <2>1. reported'[Len(reported')] = k
    BY <1>4, <1>7
  <2> QED
    BY <2>1, <1>7 DEF HasReported, ToSet
<1>10. \A x \in Keys : HasReported(x)' => x \in ToSet(new)
  <2> SUFFICES ASSUME NEW i \in 1..Len(reported')
               PROVE  reported'[i] \in ToSet(new)
    BY <1>s DEF HasReported, ToSet
  <2>1. reported'[i] = new[i + shift] /\ i + shift \in DOMAIN new
    BY <1>s, <1>4, <1>7
  <2> QED
    BY <2>1 DEF ToSet
<1>11. evicted' = [x \in Keys |-> IF (HasReported(x) \/ x = k) /\ ~HasReported(x)'
                                  THEN evicted[x] + 1 ELSE evicted[x]]
  BY <1>3, <1>6 DEF markRecallEventReported, HasReported
<1> QED
  BY <1>6, <1>7, <1>8, <1>9, <1>10, <1>11
-----------------------------------------------------------------------------
\* TypeOK is inductive, given where a callback with a current key can be.
LEMMA TypeStep == IInv /\ [Next]_vars => TypeOK'
<1> SUFFICES ASSUME IInv, [Next]_vars
             PROVE  TypeOK'
  OBVIOUS
<1> USE DEF IInv, TypeOK, PCs, history
<1>1. ASSUME NEW c \in Callbacks, NEW list \in Lists, onMsgInfoListUpdate(c, list)
      PROVE  TypeOK'
  BY <1>1, ListsAreSequences DEF onMsgInfoListUpdate
<1>2. ASSUME NEW c \in Callbacks, NEW k \in Keys, onMsgRecall(c, k)
      PROVE  TypeOK'
  BY <1>2 DEF onMsgRecall
<1>3. ASSUME NEW c \in Callbacks, QueryFound(c) \/ QueryMissed(c) \/ Return(c)
      PROVE  TypeOK'
  <2>1. CASE QueryFound(c)
    BY <2>1 DEF QueryFound
  <2>2. CASE QueryMissed(c)
    BY <2>2 DEF QueryMissed
  <2>3. CASE Return(c)
    BY <2>3 DEF Return
  <2> QED
    BY <1>3, <2>1, <2>2, <2>3
<1>4. ASSUME NEW c \in Callbacks, AlreadyReported(c)
      PROVE  TypeOK'
  BY <1>4, SMTT(20) DEF AlreadyReported, AtLoop, CancelSelfRecall
<1>5. ASSUME NEW c \in Callbacks, AwaitDuplicate(c)
      PROVE  TypeOK'
  <2>1. Current(c) \in Keys
    BY <1>5 DEF AwaitDuplicate, AtLoop, Current
  <2> QED
    BY <1>5, <2>1 DEF AwaitDuplicate, CancelSelfRecall
<1>6. ASSUME NEW c \in Callbacks, StartTask(c)
      PROVE  TypeOK'
  BY <1>6 DEF StartTask, CancelSelfRecall
<1>7. ASSUME NEW c \in Callbacks, EventBuilt(c) \/ NoEvent(c) \/ EmitFails(c)
      PROVE  TypeOK'
  <2>0. Current(c) \in Keys
    BY <1>7 DEF EventBuilt, NoEvent, EmitFails, AtKey, Current
  <2>1. CASE EventBuilt(c)
    BY <2>0, <2>1 DEF EventBuilt
  <2>2. CASE NoEvent(c)
    BY <2>2 DEF NoEvent
  <2>3. CASE EmitFails(c)
    BY <2>0, <2>3 DEF EmitFails
  <2> QED
    BY <1>7, <2>1, <2>2, <2>3
<1>8. ASSUME NEW c \in Callbacks, EmitSucceeds(c)
      PROVE  TypeOK'
  <2>1. Current(c) \in Keys /\ ~HasReported(Current(c))
    BY <1>8 DEF EmitSucceeds, AtKey, TaskOnUnknown, InTask, Current
  <2>2. /\ reported' \in Seq(Keys)
        /\ Len(reported') <= CacheMax
        /\ IsInjective(reported')
        /\ evicted' = [x \in Keys |-> IF (HasReported(x) \/ x = Current(c)) /\ ~HasReported(x)'
                                      THEN evicted[x] + 1 ELSE evicted[x]]
    <3> HIDE DEF TypeOK
    <3>1. TypeOK /\ markRecallEventReported(Current(c))
      BY <1>8 DEF EmitSucceeds
    <3> QED
      BY <2>1, <3>1, MarkUnknown
  <2>3. evicted' \in [Keys -> Nat]
    BY <2>2
  <2> QED
    BY <1>8, <2>2, <2>3 DEF EmitSucceeds
<1>9. ASSUME NEW c \in Callbacks, Finally(c)
      PROVE  TypeOK'
  <2>1. todo[c] # <<>>
    BY <1>9 DEF Finally, AtKey
  <2>2. Tail(todo[c]) \in Seq(Keys)
    BY <2>1, HeadTailProperties
  <2>3. todo' \in [Callbacks -> Seq(Keys)]
    BY <1>9, <2>2 DEF Finally
  <2>4. processing' \in [Keys -> Callbacks \union {None}]
    BY <1>9 DEF Finally
  <2> QED
    BY <1>9, <2>3, <2>4 DEF Finally
<1>10. ASSUME NEW k \in Keys, DeleteMsg(k) \/ SelfRecallTimeout(k)
       PROVE  TypeOK'
  BY <1>10 DEF DeleteMsg, SelfRecallTimeout
<1>11. CASE UNCHANGED vars
  BY <1>11 DEF vars
<1> QED
  BY <1>1, <1>2, <1>3, <1>4, <1>5, <1>6, <1>7, <1>8, <1>9, <1>10, <1>11 DEF Next, Handle

\* Every place at a key keeps its key, and only "awaiting" awaits.
LEMMA AtKeyStep == IInv /\ [Next]_vars => AtKey'
<1> SUFFICES ASSUME IInv, [Next]_vars
             PROVE  AtKey'
  OBVIOUS
<1> USE DEF IInv, TypeOK, AtKey, history
<1>1. ASSUME NEW c \in Callbacks, NEW list \in Lists, onMsgInfoListUpdate(c, list)
      PROVE  AtKey'
  BY <1>1 DEF onMsgInfoListUpdate
<1>2. ASSUME NEW c \in Callbacks, NEW k \in Keys, onMsgRecall(c, k)
      PROVE  AtKey'
  BY <1>2 DEF onMsgRecall
<1>3. ASSUME NEW c \in Callbacks, QueryFound(c) \/ QueryMissed(c) \/ Return(c)
      PROVE  AtKey'
  BY <1>3 DEF QueryFound, QueryMissed, Return
<1>4. ASSUME NEW c \in Callbacks, AlreadyReported(c) \/ AwaitDuplicate(c) \/ StartTask(c)
      PROVE  AtKey'
  BY <1>4 DEF AlreadyReported, AwaitDuplicate, StartTask, AtLoop
<1>5. ASSUME NEW c \in Callbacks,
             EventBuilt(c) \/ NoEvent(c) \/ EmitFails(c) \/ EmitSucceeds(c)
      PROVE  AtKey'
  BY <1>5 DEF EventBuilt, NoEvent, EmitFails, EmitSucceeds
<1>6. ASSUME NEW c \in Callbacks, Finally(c)
      PROVE  AtKey'
  BY <1>6 DEF Finally
<1>7. ASSUME NEW k \in Keys, DeleteMsg(k) \/ SelfRecallTimeout(k)
      PROVE  AtKey'
  BY <1>7 DEF DeleteMsg, SelfRecallTimeout
<1>8. CASE UNCHANGED vars
  BY <1>8 DEF vars
<1> QED
  BY <1>1, <1>2, <1>3, <1>4, <1>5, <1>6, <1>7, <1>8 DEF Next, Handle

\* A callback inside its task owns the processing entry of its key.
LEMMA OwnsEntryStep == IInv /\ [Next]_vars => OwnsEntry'
<1> SUFFICES ASSUME IInv, [Next]_vars
             PROVE  OwnsEntry'
  OBVIOUS
<1> USE DEF IInv, TypeOK, OwnsEntry, AtKey, Current, history
<1>1. ASSUME NEW c \in Callbacks, NEW list \in Lists, onMsgInfoListUpdate(c, list)
      PROVE  OwnsEntry'
  BY <1>1 DEF onMsgInfoListUpdate
<1>2. ASSUME NEW c \in Callbacks, NEW k \in Keys, onMsgRecall(c, k)
      PROVE  OwnsEntry'
  BY <1>2 DEF onMsgRecall
<1>3. ASSUME NEW c \in Callbacks, QueryFound(c) \/ QueryMissed(c) \/ Return(c)
      PROVE  OwnsEntry'
  BY <1>3 DEF QueryFound, QueryMissed, Return
<1>4. ASSUME NEW c \in Callbacks, AlreadyReported(c) \/ AwaitDuplicate(c)
      PROVE  OwnsEntry'
  BY <1>4 DEF AlreadyReported, AwaitDuplicate, AtLoop
<1>5. ASSUME NEW c \in Callbacks, StartTask(c)
      PROVE  OwnsEntry'
  BY <1>5, SMTT(20) DEF StartTask, AtLoop
<1>6. ASSUME NEW c \in Callbacks,
             EventBuilt(c) \/ NoEvent(c) \/ EmitFails(c) \/ EmitSucceeds(c)
      PROVE  OwnsEntry'
  BY <1>6 DEF EventBuilt, NoEvent, EmitFails, EmitSucceeds
<1>7. ASSUME NEW c \in Callbacks, Finally(c)
      PROVE  OwnsEntry'
  <2> SUFFICES ASSUME NEW d \in Callbacks,
                      pc'[d] \in {"building", "emitting", "settled"}
               PROVE  processing'[Current(d)'] = d
    OBVIOUS
  <2>1. /\ d # c
        /\ pc[d] \in {"building", "emitting", "settled"}
        /\ todo'[d] = todo[d]
    BY <1>7 DEF Finally
  <2>2. processing[Current(d)] = d /\ Current(d) \in Keys /\ Current(d)' = Current(d)
    BY <2>1
  <2> QED
    BY <1>7, <2>1, <2>2 DEF Finally
<1>8. ASSUME NEW k \in Keys, DeleteMsg(k) \/ SelfRecallTimeout(k)
      PROVE  OwnsEntry'
  BY <1>8 DEF DeleteMsg, SelfRecallTimeout
<1>9. CASE UNCHANGED vars
  BY <1>9 DEF vars
<1> QED
  BY <1>1, <1>2, <1>3, <1>4, <1>5, <1>6, <1>7, <1>8, <1>9 DEF Next, Handle

\* Two callbacks inside a task are at different keys: the entry is one value.
LEMMA OneTaskPerKey ==
  ASSUME OwnsEntry
  PROVE  SingleFlight
  BY DEF OwnsEntry, SingleFlight, InTask

\* A key whose task is running is not in the cache: only the end of that same
\* task could put it there.
LEMMA TaskOnUnknownStep == IInv /\ [Next]_vars => TaskOnUnknown'
<1> SUFFICES ASSUME IInv, [Next]_vars
             PROVE  TaskOnUnknown'
  OBVIOUS
<1> USE DEF IInv, TaskOnUnknown, InTask, history
<1>a. TypeOK /\ AtKey
  OBVIOUS
<1>1. ASSUME NEW c \in Callbacks, NEW list \in Lists, onMsgInfoListUpdate(c, list)
      PROVE  TaskOnUnknown'
  BY <1>a, <1>1 DEF onMsgInfoListUpdate, TypeOK, Current, HasReported
<1>2. ASSUME NEW c \in Callbacks, NEW k \in Keys, onMsgRecall(c, k)
      PROVE  TaskOnUnknown'
  BY <1>a, <1>2 DEF onMsgRecall, TypeOK, Current, HasReported
<1>3. ASSUME NEW c \in Callbacks, QueryFound(c) \/ QueryMissed(c) \/ Return(c)
      PROVE  TaskOnUnknown'
  BY <1>a, <1>3 DEF QueryFound, QueryMissed, Return, TypeOK, Current, HasReported
<1>4. ASSUME NEW c \in Callbacks, AlreadyReported(c) \/ AwaitDuplicate(c) \/ StartTask(c)
      PROVE  TaskOnUnknown'
  BY <1>a, <1>4 DEF AlreadyReported, AwaitDuplicate, StartTask, TypeOK, Current, HasReported
<1>5. ASSUME NEW c \in Callbacks, EventBuilt(c) \/ NoEvent(c) \/ EmitFails(c)
      PROVE  TaskOnUnknown'
  BY <1>a, <1>5 DEF EventBuilt, NoEvent, EmitFails, TypeOK, Current, HasReported
<1>6. ASSUME NEW c \in Callbacks, EmitSucceeds(c)
      PROVE  TaskOnUnknown'
  <2>1. Current(c) \in Keys
    BY <1>a, <1>6 DEF EmitSucceeds, AtKey, TypeOK, Current
  <2>2. \A x \in Keys : HasReported(x)' => HasReported(x) \/ x = Current(c)
    BY <1>a, <1>6, <2>1, MarkUnknown DEF EmitSucceeds
  <2> SUFFICES ASSUME NEW d \in Callbacks, InTask(d)'
               PROVE  ~HasReported(Current(d))'
    OBVIOUS
  <2>3. InTask(d) /\ d # c /\ Current(d)' = Current(d)
    BY <1>a, <1>6 DEF EmitSucceeds, TypeOK, Current
  <2>4. Current(d) # Current(c)
    BY <1>6, <2>3, OneTaskPerKey DEF SingleFlight, EmitSucceeds
  <2>5. Current(d) \in Keys /\ ~HasReported(Current(d))
    BY <1>a, <2>3 DEF AtKey, TypeOK, Current
  <2> QED
    BY <2>2, <2>3, <2>4, <2>5 DEF HasReported
<1>7. ASSUME NEW c \in Callbacks, Finally(c)
      PROVE  TaskOnUnknown'
  BY <1>a, <1>7 DEF Finally, TypeOK, Current, HasReported
<1>8. ASSUME NEW k \in Keys, DeleteMsg(k) \/ SelfRecallTimeout(k)
      PROVE  TaskOnUnknown'
  BY <1>8 DEF DeleteMsg, SelfRecallTimeout, Current, HasReported
<1>9. CASE UNCHANGED vars
  BY <1>9 DEF vars, Current, HasReported
<1> QED
  BY <1>1, <1>2, <1>3, <1>4, <1>5, <1>6, <1>7, <1>8, <1>9 DEF Next, Handle

\* Which keys are being emitted depends only on the emitting callbacks.
LEMMA EmittingUnchanged ==
  ASSUME \A d \in Callbacks :
            /\ pc'[d] = "emitting" <=> pc[d] = "emitting"
            /\ pc[d] = "emitting" => todo'[d] = todo[d]
  PROVE  \A k \in Keys : Emitting(k)' <=> Emitting(k)
  BY DEF Emitting, Current

\* A callback in its task is the only one that can be emitting its key.
LEMMA EmittingAlone ==
  ASSUME IInv, NEW c \in Callbacks, InTask(c), NEW d \in Callbacks, pc[d] = "emitting",
         Current(d) = Current(c)
  PROVE  d = c
  BY OneTaskPerKey DEF IInv, SingleFlight, InTask

\* The account of events: every one is in flight, failed, remembered or was
\* remembered and forgotten.
LEMMA AccountedStep == IInv /\ [Next]_vars => Accounted'
<1> SUFFICES ASSUME IInv, [Next]_vars
             PROVE  Accounted'
  OBVIOUS
<1>a. TypeOK /\ AtKey /\ TaskOnUnknown /\ Accounted
  BY DEF IInv
<1>b. ASSUME UNCHANGED history, UNCHANGED reported,
             \A k \in Keys : Emitting(k)' <=> Emitting(k)
      PROVE  Accounted'
  BY <1>a, <1>b DEF Accounted, HasReported, history
<1>1. ASSUME NEW c \in Callbacks, NEW list \in Lists, onMsgInfoListUpdate(c, list)
      PROVE  Accounted'
  BY <1>1, <1>a, <1>b, EmittingUnchanged DEF onMsgInfoListUpdate, TypeOK
<1>2. ASSUME NEW c \in Callbacks, NEW k \in Keys, onMsgRecall(c, k)
      PROVE  Accounted'
  BY <1>2, <1>a, <1>b, EmittingUnchanged DEF onMsgRecall, TypeOK
<1>3. ASSUME NEW c \in Callbacks, QueryFound(c) \/ QueryMissed(c) \/ Return(c)
      PROVE  Accounted'
  BY <1>3, <1>a, <1>b, EmittingUnchanged DEF QueryFound, QueryMissed, Return, TypeOK
<1>4. ASSUME NEW c \in Callbacks, AlreadyReported(c) \/ AwaitDuplicate(c) \/ StartTask(c)
      PROVE  Accounted'
  BY <1>4, <1>a, <1>b, EmittingUnchanged
  DEF AlreadyReported, AwaitDuplicate, StartTask, AtLoop, TypeOK
<1>5. ASSUME NEW c \in Callbacks, NoEvent(c) \/ Finally(c)
      PROVE  Accounted'
  BY <1>5, <1>a, <1>b, EmittingUnchanged DEF NoEvent, Finally, TypeOK, AtKey
<1>6. ASSUME NEW c \in Callbacks, EventBuilt(c)
      PROVE  Accounted'
  <2> DEFINE key == Current(c)
  <2>1. key \in Keys /\ InTask(c)
    BY <1>6, <1>a DEF EventBuilt, AtKey, TypeOK, Current, InTask
  <2>2. ~Emitting(key)
    BY <1>6, <2>1, EmittingAlone DEF Emitting, EventBuilt
  <2>3. \A k \in Keys : Emitting(k)' <=> Emitting(k) \/ k = key
    BY <1>6, <1>a DEF EventBuilt, Emitting, Current, TypeOK
  <2> QED
    BY <1>6, <1>a, <2>1, <2>2, <2>3 DEF EventBuilt, Accounted, HasReported, TypeOK
<1>7. ASSUME NEW c \in Callbacks, EmitFails(c) \/ EmitSucceeds(c)
      PROVE  Accounted'
  <2>0. PICK key \in Keys : key = Current(c)
    BY <1>7, <1>a DEF EmitFails, EmitSucceeds, AtKey, TypeOK, Current
  <2>1. key = Current(c) /\ InTask(c) /\ pc[c] = "emitting"
    BY <1>7, <2>0 DEF EmitFails, EmitSucceeds, InTask
  <2>2. Emitting(key) /\ ~HasReported(key)
    BY <2>1, <1>a DEF Emitting, TaskOnUnknown
  <2>3. \A k \in Keys : Emitting(k)' <=> Emitting(k) /\ k # key
    <3>1. \A d \in Callbacks : pc'[d] = "emitting" <=> pc[d] = "emitting" /\ d # c
      BY <1>7, <1>a DEF EmitFails, EmitSucceeds, TypeOK
    <3>2. todo' = todo
      BY <1>7 DEF EmitFails, EmitSucceeds
    <3>3. \A d \in Callbacks : pc[d] = "emitting" /\ Current(d) = key => d = c
      BY <2>1, EmittingAlone
    <3> QED
      BY <2>1, <3>1, <3>2, <3>3 DEF Emitting, Current
  <2>4. CASE EmitFails(c)
    <3>1. failed' = [failed EXCEPT ![key] = @ + 1]
      BY <2>4, <2>1 DEF EmitFails
    <3>2. emits' = emits /\ evicted' = evicted /\ reported' = reported
      BY <2>4 DEF EmitFails
    <3> SUFFICES ASSUME NEW k \in Keys
                 PROVE  emits'[k] = failed'[k] + evicted'[k]
                                    + (IF HasReported(k)' THEN 1 ELSE 0)
                                    + (IF Emitting(k)' THEN 1 ELSE 0)
      BY DEF Accounted
    <3>3. /\ evicted[k] \in Nat /\ failed[k] \in Nat /\ emits[k] \in Nat
          /\ failed'[k] = IF k = key THEN failed[k] + 1 ELSE failed[k]
          /\ HasReported(k)' <=> HasReported(k)
      BY <1>a, <3>1, <3>2 DEF TypeOK, HasReported
    <3>4. emits[k] = failed[k] + evicted[k] + (IF HasReported(k) THEN 1 ELSE 0)
                     + (IF Emitting(k) THEN 1 ELSE 0)
      BY <1>a DEF Accounted
    <3> QED
      BY <2>2, <2>3, <3>2, <3>3, <3>4
  <2>5. CASE EmitSucceeds(c)
    <3>1. /\ HasReported(key)'
          /\ \A x \in Keys : HasReported(x)' => HasReported(x) \/ x = key
          /\ evicted' = [x \in Keys |-> IF (HasReported(x) \/ x = key) /\ ~HasReported(x)'
                                        THEN evicted[x] + 1 ELSE evicted[x]]
      BY <2>5, <1>a, <2>1, <2>2, MarkUnknown DEF EmitSucceeds
    <3>2. emits' = emits /\ failed' = failed
      BY <2>5 DEF EmitSucceeds
    <3> SUFFICES ASSUME NEW k \in Keys
                 PROVE  emits'[k] = failed'[k] + evicted'[k]
                                    + (IF HasReported(k)' THEN 1 ELSE 0)
                                    + (IF Emitting(k)' THEN 1 ELSE 0)
      BY DEF Accounted
    <3>3. /\ evicted[k] \in Nat /\ failed[k] \in Nat /\ emits[k] \in Nat
          /\ emits[k] = failed[k] + evicted[k] + (IF HasReported(k) THEN 1 ELSE 0)
                        + (IF Emitting(k) THEN 1 ELSE 0)
      BY <1>a DEF TypeOK, Accounted
    <3>4. CASE k = key
      <4>1. evicted'[k] = evicted[k] /\ HasReported(k)' /\ ~HasReported(k)
        BY <2>2, <3>1, <3>4
      <4>2. Emitting(k) /\ ~Emitting(k)'
        BY <2>2, <2>3, <3>4
      <4> QED
        BY <3>2, <3>3, <4>1, <4>2
    <3>5. CASE k # key
      <4>1. Emitting(k)' <=> Emitting(k)
        BY <2>3, <3>5
      <4>2. CASE HasReported(k)'
        BY <3>1, <3>2, <3>3, <3>5, <4>1, <4>2
      <4>3. CASE ~HasReported(k)'
        BY <3>1, <3>2, <3>3, <3>5, <4>1, <4>3
      <4> QED
        BY <4>2, <4>3
    <3> QED
      BY <3>4, <3>5
  <2> QED
    BY <1>7, <2>4, <2>5
<1>8. ASSUME NEW k \in Keys, DeleteMsg(k) \/ SelfRecallTimeout(k)
      PROVE  Accounted'
  BY <1>8, <1>b, EmittingUnchanged DEF DeleteMsg, SelfRecallTimeout
<1>9. CASE UNCHANGED vars
  BY <1>9, <1>b, EmittingUnchanged DEF vars, history
<1> QED
  BY <1>1, <1>2, <1>3, <1>4, <1>5, <1>6, <1>7, <1>8, <1>9 DEF Next, Handle

-----------------------------------------------------------------------------
\* The strengthened invariant holds from the start.
LEMMA InitIInv == Init => IInv
<1> SUFFICES ASSUME Init PROVE IInv
  OBVIOUS
<1>1. TypeOK
  BY DEF Init, TypeOK, PCs, IsInjective
<1>2. AtKey /\ OwnsEntry /\ TaskOnUnknown
  BY DEF Init, AtKey, OwnsEntry, TaskOnUnknown, InTask
<1>3. Accounted
  BY DEF Init, Accounted, HasReported, ToSet, Emitting
<1> QED
  BY <1>1, <1>2, <1>3 DEF IInv

LEMMA Inductive == Spec => []IInv
<1>1. IInv /\ [Next]_vars => IInv'
  BY TypeStep, AtKeyStep, OwnsEntryStep, TaskOnUnknownStep, AccountedStep DEF IInv
<1> QED
  BY <1>1, InitIInv, PTL DEF Spec

(* The recall reporter keeps its types, its cache within its bound and     *)
(* every key in the cache at most once.                                    *)
THEOREM RecallTypes == Spec => []TypeOK
<1>1. IInv => TypeOK
  BY DEF IInv
<1> QED
  BY <1>1, Inductive, PTL

(* However the kernel's callbacks interleave in handleRecallMessage, no    *)
(* two of them are ever inside a reporting task for the same message.      *)
THEOREM RecallSingleFlight == Spec => []SingleFlight
<1>1. IInv => SingleFlight
  BY OneTaskPerKey DEF IInv
<1> QED
  BY <1>1, Inductive, PTL

(* A message's recall reaches the network manager once, plus once for each *)
(* rejected emission and each time the bounded cache forgot the message.   *)
THEOREM RecallDeduplicated == Spec => []EmissionsExplained
<1>1. ASSUME IInv PROVE EmissionsExplained
  <2> SUFFICES ASSUME NEW k \in Keys
               PROVE  emits[k] <= 1 + failed[k] + evicted[k]
    BY DEF EmissionsExplained
  <2>1. ~(HasReported(k) /\ Emitting(k))
    BY <1>1 DEF IInv, TaskOnUnknown, InTask, Emitting
  <2> QED
    BY <1>1, <2>1 DEF IInv, TypeOK, Accounted
<1> QED
  BY <1>1, Inductive, PTL

-----------------------------------------------------------------------------
(* No message is dropped.                                                  *)

\* A list gets shorter in two actions only.
LEMMA ShortenedByTwo ==
  ASSUME IInv, [Next]_vars, NEW c \in Callbacks,
         pc[c] \notin {"idle", "query"}, Len(todo'[c]) < Len(todo[c])
  PROVE  HasReported(Current(c)) \/ pc[c] = "settled"
<1>1. todo \in [Callbacks -> Seq(Keys)] /\ \A d \in Callbacks : Len(todo[d]) \in Nat
  BY DEF IInv, TypeOK
<1>2. todo'[c] # todo[c]
  BY <1>1
<1>3. ASSUME NEW d \in Callbacks, NEW list, onMsgInfoListUpdate(d, list)
      PROVE  FALSE
  BY <1>1, <1>2, <1>3 DEF onMsgInfoListUpdate
<1>4. ASSUME NEW d \in Callbacks, NEW k, onMsgRecall(d, k)
      PROVE  FALSE
  BY <1>1, <1>2, <1>4 DEF onMsgRecall
<1>5. ASSUME NEW d \in Callbacks, Handle(d)
      PROVE  \/ d = c /\ (AlreadyReported(c) \/ Finally(c))
  BY <1>1, <1>2, <1>5
  DEF Handle, QueryFound, QueryMissed, Return, AlreadyReported, AwaitDuplicate, StartTask,
      EventBuilt, NoEvent, EmitSucceeds, EmitFails, Finally
<1>6. ASSUME NEW k \in Keys, DeleteMsg(k) \/ SelfRecallTimeout(k)
      PROVE  FALSE
  BY <1>2, <1>6 DEF DeleteMsg, SelfRecallTimeout
<1>7. vars' # vars
  BY <1>2 DEF vars
<1> QED
  BY <1>3, <1>4, <1>5, <1>6, <1>7 DEF Next, AlreadyReported, Finally

(* A callback leaves a message only when handleRecallMessage knows it to be *)
(* reported or has itself attempted it: one that waited for an attempt that *)
(* failed goes on with the same message.                                    *)
THEOREM RecallNeverDropped == Spec => HandledOrAttempted
<1>1. IInv /\ [Next]_vars =>
         [\A c \in Callbacks :
             pc[c] \notin {"idle", "query"} /\ Len(todo'[c]) < Len(todo[c])
             => HasReported(Current(c)) \/ pc[c] = "settled"]_vars
  BY ShortenedByTwo
<1> QED
  BY <1>1, Inductive, PTL DEF Spec, HandledOrAttempted

-----------------------------------------------------------------------------
(* The refinement of RecallReport.                                         *)

\* A callback inside a task is the only one there: its place is the stage.
LEMMA StageOfTask ==
  ASSUME IInv, NEW c \in Callbacks, InTask(c)
  PROVE  Stage(Current(c)) = pc[c]
<1>1. \A d \in Callbacks : InTask(d) /\ Current(d) = Current(c) => d = c
  BY OneTaskPerKey DEF IInv, SingleFlight
<1> QED
  BY <1>1 DEF Stage, InTask

\* Without a task at it, a key is idle.
LEMMA StageWithoutTask ==
  ASSUME NEW k, \A c \in Callbacks : InTask(c) => Current(c) # k
  PROVE  Stage(k) = "idle"
  BY DEF Stage, InTask

\* The stage of a key no task enters or leaves.
LEMMA StageKept ==
  ASSUME NEW k,
         \A c \in Callbacks :
            (InTask(c) /\ Current(c) = k) \/ (InTask(c) /\ Current(c) = k)'
               => pc'[c] = pc[c] /\ todo'[c] = todo[c]
  PROVE  Stage(k)' = Stage(k)
<1>1. ASSUME NEW place \in {"building", "emitting"}
      PROVE  (\E c \in Callbacks : pc[c] = place /\ Current(c) = k)'
             <=> \E c \in Callbacks : pc[c] = place /\ Current(c) = k
  BY DEF InTask, Current
<1> QED
  BY <1>1 DEF Stage

Mapped == <<[k \in Keys |-> Stage(k)], ToSet(reported), emits>>

\* A step that leaves every task, the cache and the events alone is no step of
\* the reporter.
LEMMA OutsideTasks ==
  ASSUME \A c \in Callbacks :
            InTask(c) \/ InTask(c)' => pc'[c] = pc[c] /\ todo'[c] = todo[c],
         UNCHANGED <<reported, emits>>
  PROVE  UNCHANGED Mapped
<1>1. \A k \in Keys : Stage(k)' = Stage(k)
  BY StageKept
<1> QED
  BY <1>1 DEF Mapped

\* A step of one task changes the stage of its key and of no other.
LEMMA OneTaskMoves ==
  ASSUME IInv, NEW c \in Callbacks, NEW k \in Keys, k = Current(c), todo' = todo,
         NEW place \in PCs, pc' = [pc EXCEPT ![c] = place],
         \A d \in Callbacks : d # c /\ InTask(d) => Current(d) # k
  PROVE  [x \in Keys |-> Stage(x)]' =
            [[x \in Keys |-> Stage(x)] EXCEPT ![k] =
                IF place \in {"building", "emitting"} THEN place ELSE "idle"]
<1> DEFINE stage == IF place \in {"building", "emitting"} THEN place ELSE "idle"
<1>1. pc \in [Callbacks -> PCs]
  BY DEF IInv, TypeOK
<1>2. \A d \in Callbacks : Current(d)' = Current(d)
  BY DEF Current
<1>3. /\ pc'[c] = place
      /\ \A d \in Callbacks \ {c} : pc'[d] = pc[d] /\ (InTask(d)' <=> InTask(d))
  BY <1>1 DEF InTask
<1>4. Stage(k)' = stage
  <2>1. ASSUME NEW at \in {"building", "emitting"}
        PROVE  (\E d \in Callbacks : pc'[d] = at /\ Current(d)' = k) <=> place = at
    BY <1>2, <1>3 DEF InTask
  <2> QED
    BY <2>1 DEF Stage
<1>5. ASSUME NEW x \in Keys, x # k
      PROVE  Stage(x)' = Stage(x)
  BY <1>2, <1>3, <1>5, StageKept
<1> QED
  BY <1>4, <1>5

LEMMA ReportStep == IInv /\ [Next]_vars => [Report!Next]_(Report!vars)
<1> SUFFICES ASSUME IInv, [Next]_vars
             PROVE  Report!Next \/ UNCHANGED Mapped
  BY DEF Report!vars, Mapped
<1>a. TypeOK /\ AtKey /\ OwnsEntry /\ TaskOnUnknown
  BY DEF IInv
<1>1. ASSUME NEW c \in Callbacks, NEW list, onMsgInfoListUpdate(c, list)
      PROVE  UNCHANGED Mapped
  BY <1>a, <1>1, OutsideTasks DEF onMsgInfoListUpdate, history, InTask, TypeOK
<1>2. ASSUME NEW c \in Callbacks, NEW k, onMsgRecall(c, k)
      PROVE  UNCHANGED Mapped
  BY <1>a, <1>2, OutsideTasks DEF onMsgRecall, history, InTask, TypeOK
<1>3. ASSUME NEW c \in Callbacks, QueryFound(c) \/ QueryMissed(c) \/ Return(c)
      PROVE  UNCHANGED Mapped
  BY <1>a, <1>3, OutsideTasks DEF QueryFound, QueryMissed, Return, history, InTask, TypeOK
<1>4. ASSUME NEW c \in Callbacks, AlreadyReported(c) \/ AwaitDuplicate(c)
      PROVE  UNCHANGED Mapped
  BY <1>a, <1>4, OutsideTasks
  DEF AlreadyReported, AwaitDuplicate, AtLoop, history, InTask, TypeOK
<1>5. ASSUME NEW c \in Callbacks, Finally(c)
      PROVE  UNCHANGED Mapped
  BY <1>a, <1>5, OutsideTasks DEF Finally, history, InTask, TypeOK, AtKey
<1>6. ASSUME NEW k \in Keys, DeleteMsg(k) \/ SelfRecallTimeout(k)
      PROVE  UNCHANGED Mapped
  BY <1>6, OutsideTasks DEF DeleteMsg, SelfRecallTimeout, history, InTask
<1>7. CASE UNCHANGED vars
  BY <1>7, OutsideTasks DEF vars, InTask
<1>8. ASSUME NEW c \in Callbacks, StartTask(c)
      PROVE  Report!Next
  <2>1. /\ todo[c] # <<>> /\ todo' = todo
        /\ pc' = [pc EXCEPT ![c] = "building"]
        /\ processing[Current(c)] = None /\ ~HasReported(Current(c))
        /\ UNCHANGED <<reported, emits>>
    BY <1>8 DEF StartTask, AtLoop, history
  <2>2. \A d \in Callbacks : InTask(d) => Current(d) # Current(c)
    BY <1>a, <2>1 DEF OwnsEntry, InTask
  <2>3. PICK k \in Keys : k = Current(c)
    BY <1>a, <2>1 DEF TypeOK, Current
  <2>4. [x \in Keys |-> Stage(x)]' = [[x \in Keys |-> Stage(x)] EXCEPT ![k] = "building"]
    <3>1. \A d \in Callbacks : d # c /\ InTask(d) => Current(d) # k
      BY <2>2, <2>3
    <3> QED
      BY <2>1, <2>3, <3>1, OneTaskMoves DEF PCs
  <2>5. Stage(k) = "idle"
    BY <2>2, <2>3, StageWithoutTask
  <2>6. Report!Begin(k)
    BY <2>1, <2>3, <2>4, <2>5 DEF Report!Begin, HasReported
  <2> QED
    BY <2>6 DEF Report!Next
<1>9. ASSUME NEW c \in Callbacks,
             EventBuilt(c) \/ NoEvent(c) \/ EmitFails(c) \/ EmitSucceeds(c)
      PROVE  Report!Next
  <2>1. InTask(c) /\ todo[c] # <<>> /\ todo' = todo
    BY <1>a, <1>9 DEF EventBuilt, NoEvent, EmitFails, EmitSucceeds, InTask, AtKey
  <2>2. \A d \in Callbacks : d # c /\ InTask(d) => Current(d) # Current(c)
    BY <2>1, OneTaskPerKey DEF IInv, SingleFlight
  <2>3. Stage(Current(c)) = pc[c]
    BY <2>1, StageOfTask
  <2>4. PICK k \in Keys : k = Current(c)
    BY <1>a, <2>1 DEF TypeOK, Current
  <2>5. CASE EventBuilt(c)
    <3>1. [x \in Keys |-> Stage(x)]'
          = [[x \in Keys |-> Stage(x)] EXCEPT ![k] = "emitting"]
      <4>1. pc' = [pc EXCEPT ![c] = "emitting"]
        BY <2>5 DEF EventBuilt
      <4>2. \A d \in Callbacks : d # c /\ InTask(d) => Current(d) # k
        BY <2>2, <2>4
      <4> QED
        BY <2>1, <2>4, <4>1, <4>2, OneTaskMoves DEF PCs
    <3>2. Report!Emit(k)
      BY <2>3, <2>4, <2>5, <3>1 DEF EventBuilt, Report!Emit
    <3> QED
      BY <3>2 DEF Report!Next
  <2>6. CASE NoEvent(c) \/ EmitFails(c)
    <3>1. [x \in Keys |-> Stage(x)]'
          = [[x \in Keys |-> Stage(x)] EXCEPT ![k] = "idle"]
      <4>1. pc' = [pc EXCEPT ![c] = "settled"]
        BY <2>6 DEF NoEvent, EmitFails
      <4>2. \A d \in Callbacks : d # c /\ InTask(d) => Current(d) # k
        BY <2>2, <2>4
      <4> QED
        BY <2>1, <2>4, <4>1, <4>2, OneTaskMoves DEF PCs
    <3>2. Report!Fail(k)
      BY <2>3, <2>4, <2>6, <3>1 DEF NoEvent, EmitFails, Report!Fail, history
    <3> QED
      BY <3>2 DEF Report!Next
  <2>7. CASE EmitSucceeds(c)
    <3>1. [x \in Keys |-> Stage(x)]'
          = [[x \in Keys |-> Stage(x)] EXCEPT ![k] = "idle"]
      <4>1. pc' = [pc EXCEPT ![c] = "settled"]
        BY <2>7 DEF EmitSucceeds
      <4>2. \A d \in Callbacks : d # c /\ InTask(d) => Current(d) # k
        BY <2>2, <2>4
      <4> QED
        BY <2>1, <2>4, <4>1, <4>2, OneTaskMoves DEF PCs
    <3>2. ~HasReported(k) /\ markRecallEventReported(k)
      BY <1>a, <2>1, <2>4, <2>7 DEF TaskOnUnknown, EmitSucceeds
    <3>3. /\ reported \in Seq(Keys) /\ reported' \in Seq(Keys)
          /\ HasReported(k)'
          /\ \A x \in Keys : HasReported(x)' => HasReported(x) \/ x = k
      BY <1>a, <3>2, MarkUnknown DEF TypeOK
    <3>4. k \in ToSet(reported)' /\ ToSet(reported)' \subseteq ToSet(reported) \union {k}
      <4>1. ToSet(reported') \subseteq Keys
        BY <3>3 DEF ToSet
      <4> QED
        BY <3>3, <4>1 DEF HasReported
    <3>5. Report!Succeed(k)
      BY <2>3, <2>4, <2>7, <3>1, <3>4 DEF EmitSucceeds, Report!Succeed
    <3> QED
      BY <3>5 DEF Report!Next
  <2> QED
    BY <1>9, <2>5, <2>6, <2>7
<1> QED
  BY <1>1, <1>2, <1>3, <1>4, <1>5, <1>6, <1>7, <1>8, <1>9 DEF Next, Handle

LEMMA ReportInit == Init => Report!Init
<1> SUFFICES ASSUME Init PROVE Report!Init
  OBVIOUS
<1>1. \A k \in Keys : Stage(k) = "idle"
  BY StageWithoutTask DEF Init, InTask
<1> QED
  BY <1>1 DEF Init, Report!Init, ToSet

(* Whatever the kernel's callbacks do, message by message the reporter      *)
(* makes one attempt after the other, at most one event each, and none at a *)
(* message it remembers: the detailed handlers implement RecallReport.      *)
THEOREM RecallImplementsReport == Spec => ImplementsReport
  BY ReportInit, ReportStep, Inductive, PTL DEF Spec, ImplementsReport, Report!Spec
=============================================================================
