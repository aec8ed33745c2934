---------------------------- MODULE RecallEvents ----------------------------
(***************************************************************************)
(* Reporting of recalled messages: packages/napcat-onebot/index.ts.        *)
(*                                                                         *)
(* The QQ kernel announces one recall through two listener callbacks,      *)
(* onMsgInfoListUpdate (a list of changed rows) and onMsgRecall (a         *)
(* sequence number, to be queried), in any order, any number of times and  *)
(* interleaved at every await.  handleRecallMessage must turn them into    *)
(* one OneBot event, and must retry when an attempt failed.                *)
(*                                                                         *)
(* A key is chatType/peerUid/msgId.  A task, the promise that reports one  *)
(* key, is named by the callback that created it: a callback awaits its    *)
(* own task before it does anything else.                                  *)
(***************************************************************************)
EXTENDS Integers, Sequences, SequencesExt

CONSTANTS
    Callbacks,  \* invocations of the two listener callbacks
    Keys,       \* recalled messages
    OldKeys,    \* those recalled more than 30 s before boot (replayed history)
    SelfKeys,   \* those recalled by the bot itself (revokeElement.isSelfOperate)
    CacheMax,   \* RECALL_EVENT_DEDUP_MAX_SIZE
    MaxList,    \* bound: recalled rows in one onMsgInfoListUpdate list
    None

ASSUME CacheMaxAssumption == CacheMax \in Nat \ {0}
ASSUME MaxListAssumption == MaxList \in Nat
ASSUME KeysAssumption == OldKeys \subseteq Keys /\ SelfKeys \subseteq Keys
ASSUME NoneAssumption == None \notin Callbacks

VARIABLES
    pc,         \* where each callback is
    todo,       \* the recalled messages it still has to handle, current one first
    awaiting,   \* the task it awaits in the duplicate branch, or None
    processing, \* processingRecallEvents: key -> task, or None
    reported,   \* reportedRecallEventCache, oldest entry first
    selfRecall, \* recallEventCache: message ids with a running 5 s timer
    emits,      \* history: events handed to the network manager, per key
    failed,     \* history: of those, the ones whose emission was rejected
    evicted     \* history: times the key was dropped from the full cache

vars == <<pc, todo, awaiting, processing, reported, selfRecall, emits, failed, evicted>>
history == <<emits, failed, evicted>>

PCs == {"idle", "query", "ready", "awaiting", "woken", "building", "emitting", "settled", "done"}

Lists == UNION {[1..n -> Keys \ OldKeys] : n \in 0..MaxList}

Current(c) == Head(todo[c])

\* A callback in the async body of the task it created for its current key.
InTask(c) == pc[c] \in {"building", "emitting"}

Init ==
    /\ pc = [c \in Callbacks |-> "idle"]
    /\ todo = [c \in Callbacks |-> <<>>]
    /\ awaiting = [c \in Callbacks |-> None]
    /\ processing = [k \in Keys |-> None]
    /\ reported = <<>>
    /\ selfRecall = {}
    /\ emits = [k \in Keys |-> 0]
    /\ failed = [k \in Keys |-> 0]
    /\ evicted = [k \in Keys |-> 0]

-----------------------------------------------------------------------------
(* The two listener callbacks.                                             *)

\* Rows without a revoke element and rows that fail isCurrentRecallUpdate
\* leave no trace, so the list holds only the others.
onMsgInfoListUpdate(c, list) ==
    /\ pc[c] = "idle"
    /\ pc' = [pc EXCEPT ![c] = "ready"]
    /\ todo' = [todo EXCEPT ![c] = list]
    /\ UNCHANGED <<awaiting, processing, reported, selfRecall, history>>

\* The callback first awaits queryMsgsWithFilterExWithSeq.
onMsgRecall(c, k) ==
    /\ pc[c] = "idle"
    /\ pc' = [pc EXCEPT ![c] = "query"]
    /\ todo' = [todo EXCEPT ![c] = <<k>>]
    /\ UNCHANGED <<awaiting, processing, reported, selfRecall, history>>

QueryFound(c) ==
    /\ pc[c] = "query"
    /\ pc' = [pc EXCEPT ![c] = "ready"]
    /\ UNCHANGED <<todo, awaiting, processing, reported, selfRecall, history>>

\* The query rejects, or returns a message that is not a recall gray tip.
QueryMissed(c) ==
    /\ pc[c] = "query"
    /\ pc' = [pc EXCEPT ![c] = "done"]
    /\ todo' = [todo EXCEPT ![c] = <<>>]
    /\ UNCHANGED <<awaiting, processing, reported, selfRecall, history>>

Return(c) ==
    /\ pc[c] = "ready"
    /\ todo[c] = <<>>
    /\ pc' = [pc EXCEPT ![c] = "done"]
    /\ UNCHANGED <<todo, awaiting, processing, reported, selfRecall, history>>

-----------------------------------------------------------------------------
(* handleRecallMessage: one pass of its while loop, up to the next await.  *)

\* At the top of the loop: on entry ("ready") or after an awaited task ("woken").
AtLoop(c) == pc[c] \in {"ready", "woken"} /\ todo[c] # <<>>

\* Only the entry cancels the 5 s timer that DeleteMsg started.
CancelSelfRecall(c) ==
    selfRecall' = IF pc[c] = "ready" /\ Current(c) \in SelfKeys
                  THEN selfRecall \ {Current(c)} ELSE selfRecall

HasReported(k) == k \in ToSet(reported)

AlreadyReported(c) ==
    /\ AtLoop(c)
    /\ HasReported(Current(c))
    /\ pc' = [pc EXCEPT ![c] = "ready"]
    /\ todo' = [todo EXCEPT ![c] = Tail(@)]
    /\ CancelSelfRecall(c)
    /\ UNCHANGED <<awaiting, processing, reported, history>>

\* A duplicate callback becomes the retry path if the in-flight report fails.
AwaitDuplicate(c) ==
    /\ AtLoop(c)
    /\ ~HasReported(Current(c))
    /\ processing[Current(c)] # None
    /\ pc' = [pc EXCEPT ![c] = "awaiting"]
    /\ awaiting' = [awaiting EXCEPT ![c] = processing[Current(c)]]
    /\ CancelSelfRecall(c)
    /\ UNCHANGED <<todo, processing, reported, history>>

\* Mutant: starts without looking for a task already in flight.
StartTaskUnguarded(c) ==
    /\ AtLoop(c)
    /\ ~HasReported(Current(c))
    /\ pc' = [pc EXCEPT ![c] = "building"]
    /\ processing' = [processing EXCEPT ![Current(c)] = c]
    /\ CancelSelfRecall(c)
    /\ UNCHANGED <<todo, awaiting, reported, history>>

\* Mutant: starts without looking into the cache of reported keys.
StartTaskUncached(c) ==
    /\ AtLoop(c)
    /\ processing[Current(c)] = None
    /\ pc' = [pc EXCEPT ![c] = "building"]
    /\ processing' = [processing EXCEPT ![Current(c)] = c]
    /\ CancelSelfRecall(c)
    /\ UNCHANGED <<todo, awaiting, reported, history>>

StartTask(c) ==
    /\ AtLoop(c)
    /\ ~HasReported(Current(c))
    /\ processing[Current(c)] = None
    /\ pc' = [pc EXCEPT ![c] = "building"]
    /\ processing' = [processing EXCEPT ![Current(c)] = c]
    /\ CancelSelfRecall(c)
    /\ UNCHANGED <<todo, awaiting, reported, history>>

-----------------------------------------------------------------------------
(* The body of the task.                                                   *)

\* emitRecallMsg returned an event and the network manager has it.
EventBuilt(c) ==
    /\ pc[c] = "building"
    /\ pc' = [pc EXCEPT ![c] = "emitting"]
    /\ emits' = [emits EXCEPT ![Current(c)] = @ + 1]
    /\ UNCHANGED <<todo, awaiting, processing, reported, selfRecall, failed, evicted>>

\* emitRecallMsg returned undefined, or rejected (the operator's uin lookup).
NoEvent(c) ==
    /\ pc[c] = "building"
    /\ pc' = [pc EXCEPT ![c] = "settled"]
    /\ UNCHANGED <<todo, awaiting, processing, reported, selfRecall, history>>

\* The cache is a Map used as a queue of keys: re-inserting moves to the end,
\* and the oldest keys leave while it is larger than its bound.
Refreshed(k) == Append(RemoveFirst(reported, k), k)

\* Mutant: the eviction loop stops one key late.
DropOldestLate(cache) ==
    IF Len(cache) > CacheMax + 1
    THEN SubSeq(cache, Len(cache) - CacheMax, Len(cache))
    ELSE cache

DropOldest(cache) ==
    IF Len(cache) > CacheMax
    THEN SubSeq(cache, Len(cache) - CacheMax + 1, Len(cache))
    ELSE cache

markRecallEventReported(k) ==
    LET gone == ToSet(Refreshed(k)) \ ToSet(reported')
    IN  /\ reported' = DropOldest(Refreshed(k))
        /\ evicted' = [x \in Keys |-> IF x \in gone THEN evicted[x] + 1 ELSE evicted[x]]

\* Mutant: the success is not remembered.
EmitSucceedsUnmarked(c) ==
    /\ pc[c] = "emitting"
    /\ pc' = [pc EXCEPT ![c] = "settled"]
    /\ UNCHANGED <<todo, awaiting, processing, reported, selfRecall, history>>

EmitSucceeds(c) ==
    /\ pc[c] = "emitting"
    /\ pc' = [pc EXCEPT ![c] = "settled"]
    /\ markRecallEventReported(Current(c))
    /\ UNCHANGED <<todo, awaiting, processing, selfRecall, emits, failed>>

EmitFails(c) ==
    /\ pc[c] = "emitting"
    /\ pc' = [pc EXCEPT ![c] = "settled"]
    /\ failed' = [failed EXCEPT ![Current(c)] = @ + 1]
    /\ UNCHANGED <<todo, awaiting, processing, reported, selfRecall, emits, evicted>>

\* Mutant: no clean-up of the processing entry.
FinallyKeepsEntry(c) ==
    LET waiters == {w \in Callbacks : awaiting[w] = c}
    IN  /\ pc[c] = "settled"
        /\ pc' = [w \in Callbacks |-> IF w = c THEN "ready"
                                       ELSE IF w \in waiters THEN "woken"
                                       ELSE pc[w]]
        /\ awaiting' = [w \in Callbacks |-> IF w \in waiters THEN None ELSE awaiting[w]]
        /\ todo' = [todo EXCEPT ![c] = Tail(@)]
        /\ UNCHANGED <<processing, reported, selfRecall, history>>

\* Mutant: a callback that awaited a duplicate returns instead of retrying.
FinallyDropsWaiters(c) ==
    LET k == Current(c)
        waiters == {w \in Callbacks : awaiting[w] = c}
    IN  /\ pc[c] = "settled"
        /\ processing' = [processing EXCEPT ![k] = None]
        /\ pc' = [w \in Callbacks |-> IF w \in waiters \union {c} THEN "ready" ELSE pc[w]]
        /\ awaiting' = [w \in Callbacks |-> IF w \in waiters THEN None ELSE awaiting[w]]
        /\ todo' = [w \in Callbacks |-> IF w \in waiters \union {c}
                                         THEN Tail(todo[w]) ELSE todo[w]]
        /\ UNCHANGED <<reported, selfRecall, history>>

\* The creator resumes first (it was the first to await the task) and clears
\* the entry if it is still its own; the callbacks that awaited the task wake.
Finally(c) ==
    LET k == Current(c)
        waiters == {w \in Callbacks : awaiting[w] = c}
    IN  /\ pc[c] = "settled"
        /\ processing' = IF processing[k] = c
                         THEN [processing EXCEPT ![k] = None] ELSE processing
        /\ pc' = [w \in Callbacks |-> IF w = c THEN "ready"
                                       ELSE IF w \in waiters THEN "woken"
                                       ELSE pc[w]]
        /\ awaiting' = [w \in Callbacks |-> IF w \in waiters THEN None ELSE awaiting[w]]
        /\ todo' = [todo EXCEPT ![c] = Tail(@)]
        /\ UNCHANGED <<reported, selfRecall, history>>

-----------------------------------------------------------------------------
(* The delete_msg action (action/msg/DeleteMsg.ts) and its 5 s timer.      *)

DeleteMsg(k) ==
    /\ k \in SelfKeys
    /\ selfRecall' = selfRecall \union {k}
    /\ UNCHANGED <<pc, todo, awaiting, processing, reported, history>>

SelfRecallTimeout(k) ==
    /\ k \in selfRecall
    /\ selfRecall' = selfRecall \ {k}
    /\ UNCHANGED <<pc, todo, awaiting, processing, reported, history>>

-----------------------------------------------------------------------------
\* What a callback that was called does next without any new input.
Handle(c) ==
    \/ QueryFound(c) \/ QueryMissed(c) \/ Return(c)
    \/ AlreadyReported(c) \/ AwaitDuplicate(c) \/ StartTask(c)
    \/ EventBuilt(c) \/ NoEvent(c) \/ EmitSucceeds(c) \/ EmitFails(c)
    \/ Finally(c)

Next ==
    \/ \E c \in Callbacks :
          \/ \E list \in Lists : onMsgInfoListUpdate(c, list)
          \/ \E k \in Keys : onMsgRecall(c, k)
          \/ Handle(c)
    \/ \E k \in Keys : DeleteMsg(k) \/ SelfRecallTimeout(k)

Spec == Init /\ [][Next]_vars

\* A resumed promise always runs on, and the calls a task awaits settle.
FairSpec == Spec /\ \A c \in Callbacks : WF_vars(Handle(c))

-----------------------------------------------------------------------------
(* The types; the cache holds no key twice and never exceeds its bound.    *)
TypeOK ==
    /\ pc \in [Callbacks -> PCs]
    /\ todo \in [Callbacks -> Seq(Keys)]
    /\ awaiting \in [Callbacks -> Callbacks \union {None}]
    /\ processing \in [Keys -> Callbacks \union {None}]
    /\ reported \in Seq(Keys)
    /\ Len(reported) <= CacheMax
    /\ IsInjective(reported)
    /\ selfRecall \subseteq SelfKeys
    /\ emits \in [Keys -> Nat]
    /\ failed \in [Keys -> Nat]
    /\ evicted \in [Keys -> Nat]

(* handleRecallMessage single-flights: however the two callbacks of one    *)
(* recall interleave, no two of them are inside a reporting task for the   *)
(* same key.                                                               *)
SingleFlight ==
    \A c, d \in Callbacks :
        InTask(c) /\ InTask(d) /\ Current(c) = Current(d) => c = d

(* Deduplication: an event for a key reaches the network manager once, and *)
(* every further time is owed to an emission that was rejected or to the   *)
(* bounded cache having forgotten the key.                                 *)
EmissionsExplained ==
    \A k \in Keys : emits[k] <= 1 + failed[k] + evicted[k]

(* No recall is dropped silently: a callback stops handling a message only *)
(* when it is known to be reported or when its own attempt has ended; one  *)
(* that awaited somebody else's failed attempt retries.                    *)
HandledOrAttempted ==
    [][\A c \in Callbacks :
          pc[c] \notin {"idle", "query"} /\ Len(todo'[c]) < Len(todo[c])
          => HasReported(Current(c)) \/ pc[c] = "settled"]_vars

\* The inductive strengthening of the two invariants: what each callback's
\* place says about the key it is at, and the exact account of every event.
AtKey ==
    \A c \in Callbacks :
        /\ pc[c] \in {"query", "awaiting", "woken", "building", "emitting", "settled"}
           => todo[c] # <<>>
        /\ awaiting[c] # None => pc[c] = "awaiting"

OwnsEntry ==
    \A c \in Callbacks :
        pc[c] \in {"building", "emitting", "settled"} => processing[Current(c)] = c

TaskOnUnknown == \A c \in Callbacks : InTask(c) => ~HasReported(Current(c))

Emitting(k) == \E c \in Callbacks : pc[c] = "emitting" /\ Current(c) = k

Accounted ==
    \A k \in Keys :
        emits[k] = failed[k] + evicted[k] + (IF HasReported(k) THEN 1 ELSE 0)
                   + (IF Emitting(k) THEN 1 ELSE 0)

IInv == TypeOK /\ AtKey /\ OwnsEntry /\ TaskOnUnknown /\ Accounted

(* Nobody waits forever: every listener callback returns, whichever tasks  *)
(* it has to await on the way.                                             *)
CallbacksReturn == \A c \in Callbacks : pc[c] # "idle" ~> pc[c] = "done"

(* The reporter implements the per-key promise of RecallReport: attempts   *)
(* at one key follow each other, and never follow a remembered success.    *)
Stage(k) ==
    LET At(place) == \E c \in Callbacks : pc[c] = place /\ Current(c) = k
    IN  IF At("building") THEN "building"
        ELSE IF At("emitting") THEN "emitting"
        ELSE "idle"

Report == INSTANCE RecallReport WITH
    stage <- [k \in Keys |-> Stage(k)],
    known <- ToSet(reported)

ImplementsReport == Report!Spec
=============================================================================
