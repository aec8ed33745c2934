---------------------------- MODULE CleanupQueue ----------------------------
(***************************************************************************)
(* The delayed file cleanup queue: packages/napcat-common/src/clean-task.ts*)
(*                                                                         *)
(* Every public method pushes a closure on pendingOperations; a closure    *)
(* runs at once when nothing is being processed, and otherwise in a later  *)
(* setImmediate turn.  A closure that calls a public method itself (addFile*)
(* calls cancelCleanup) therefore queues that call behind everything.      *)
(* Timers fire in any order: delays are chosen by the callers.             *)
(*                                                                         *)
(* A record is one FileRecord together with its chain of timers: a record  *)
(* never has two timers, so a CleanupTask is named by its record.          *)
(***************************************************************************)
EXTENDS Integers, Sequences, FiniteSets, SequencesExt

CONSTANTS
    Files,
    Records,     \* the FileRecords the callers can create
    file,        \* record -> its path
    MAX_RETRIES,
    MaxQueue,    \* bound: callers add no operation to a queue this long
    None

ASSUME RecordsAssumption == IsFiniteSet(Records)
ASSUME MaxRetriesAssumption == MAX_RETRIES \in Nat \ {0}
ASSUME FileAssumption == file \in [Records -> Files]
ASSUME CleanupNoneAssumption == None \notin Records

VARIABLES
    tasks,             \* path -> record of its CleanupTask, or None
    retries,           \* record -> retries so far
    stage,             \* record -> fresh, submitted, armed, fired or ended
    pendingOperations,
    isProcessing,
    immediates,        \* scheduled setImmediate callbacks
    attempts,          \* history: times the record's unlink was tried
    superseded         \* history: records an executed add found in tasks

vars == <<tasks, retries, stage, pendingOperations, isProcessing,
          immediates, attempts, superseded>>

Operations ==
    [op : {"add", "addAll"}, records : Seq(Records)]
    \union [op : {"cleanup"}, record : Records]
    \union [op : {"cancel"}, path : Files]
    \union [op : {"clear"}]

Stages == {"fresh", "submitted", "armed", "fired", "ended"}

Init ==
    /\ tasks = [f \in Files |-> None]
    /\ retries = [r \in Records |-> 0]
    /\ stage = [r \in Records |-> "fresh"]
    /\ pendingOperations = <<>>
    /\ isProcessing = FALSE
    /\ immediates = 0
    /\ attempts = [r \in Records |-> 0]
    /\ superseded = {}

-----------------------------------------------------------------------------
(* The closures.  `queue` is pendingOperations without the closure itself. *)

\* clearTimeout on the tasks of these paths: a fired timer is not recalled.
Disarmed(paths) == {tasks[f] : f \in paths} \ {None}

Disarm(paths, st) ==
    [r \in Records |-> IF r \in Disarmed(paths) /\ st[r] = "armed" THEN "ended" ELSE st[r]]

\* addFile: the old timer is left to a cancelCleanup call, which is queued.
RunAdd(r, queue) ==
    LET f == file[r]
    IN  /\ pendingOperations' = IF tasks[f] # None
                               THEN Append(queue, [op |-> "cancel", path |-> f])
                               ELSE queue
        /\ superseded' = superseded \union Disarmed({f})
        /\ tasks' = [tasks EXCEPT ![f] = r]
        /\ stage' = [stage EXCEPT ![r] = "armed"]
        /\ UNCHANGED <<retries, attempts>>

\* addFiles: each path's old timer is cleared at once; of two records for one
\* path in the same list the later one stays.
RunAddAll(list, queue) ==
    LET paths == {file[r] : r \in ToSet(list)}
        Latest(f) == list[CHOOSE i \in DOMAIN list :
                           /\ file[list[i]] = f
                           /\ \A j \in DOMAIN list : file[list[j]] = f => j <= i]
    IN  /\ pendingOperations' = queue
        /\ superseded' = superseded \union Disarmed(paths)
                         \union {r \in ToSet(list) : r # Latest(file[r])}
        /\ tasks' = [f \in Files |-> IF f \in paths THEN Latest(f) ELSE tasks[f]]
        /\ stage' = [r \in Records |->
                        IF r \notin ToSet(list) THEN Disarm(paths, stage)[r]
                        ELSE IF r = Latest(file[r]) THEN "armed"
                        ELSE "ended"]
        /\ UNCHANGED <<retries, attempts>>

\* Mutant: a successful cleanup forgets to drop its task.
CleanupDoneKept(r, queue) ==
    /\ pendingOperations' = queue
    /\ stage' = [stage EXCEPT ![r] = "ended"]
    /\ attempts' = [attempts EXCEPT ![r] = @ + 1]
    /\ UNCHANGED <<tasks, retries, superseded>>

\* cleanupFile when the file is gone, or is removed by unlinkSync.
CleanupDone(r, queue) ==
    /\ pendingOperations' = queue
    /\ tasks' = [tasks EXCEPT ![file[r]] = None]
    /\ stage' = [stage EXCEPT ![r] = "ended"]
    /\ attempts' = [attempts EXCEPT ![r] = @ + 1]
    /\ UNCHANGED <<retries, superseded>>

\* Mutant: the number of retries is compared one too late.
CleanupFailedLate(r, queue) ==
    /\ pendingOperations' = queue
    /\ attempts' = [attempts EXCEPT ![r] = @ + 1]
    /\ IF retries[r] < MAX_RETRIES
       THEN /\ retries' = [retries EXCEPT ![r] = @ + 1]
            /\ stage' = [stage EXCEPT ![r] = "armed"]
            /\ tasks' = [tasks EXCEPT ![file[r]] = r]
       ELSE /\ stage' = [stage EXCEPT ![r] = "ended"]
            /\ tasks' = [tasks EXCEPT ![file[r]] = None]
            /\ UNCHANGED retries
    /\ UNCHANGED superseded

\* Mutant: a failed cleanup is tried again without counting.
CleanupFailedUncounted(r, queue) ==
    /\ pendingOperations' = queue
    /\ attempts' = [attempts EXCEPT ![r] = IF @ < MAX_RETRIES THEN @ + 1 ELSE @]
    /\ stage' = [stage EXCEPT ![r] = "armed"]
    /\ tasks' = [tasks EXCEPT ![file[r]] = r]
    /\ UNCHANGED <<retries, superseded>>

\* cleanupFile when unlinkSync throws anything but ENOENT.
CleanupFailed(r, queue) ==
    /\ pendingOperations' = queue
    /\ attempts' = [attempts EXCEPT ![r] = @ + 1]
    /\ IF retries[r] < MAX_RETRIES - 1
       THEN /\ retries' = [retries EXCEPT ![r] = @ + 1]
            /\ stage' = [stage EXCEPT ![r] = "armed"]
            /\ tasks' = [tasks EXCEPT ![file[r]] = r]
       ELSE /\ stage' = [stage EXCEPT ![r] = "ended"]
            /\ tasks' = [tasks EXCEPT ![file[r]] = None]
            /\ UNCHANGED retries
    /\ UNCHANGED superseded

\* cancelCleanup and clearAll: drop the tasks of these paths with their timers.
RunDrop(paths, queue) ==
    /\ pendingOperations' = queue
    /\ stage' = Disarm(paths, stage)
    /\ tasks' = [f \in Files |-> IF f \in paths THEN None ELSE tasks[f]]
    /\ UNCHANGED <<retries, attempts, superseded>>

Run(o, queue) ==
    \/ o.op = "add" /\ RunAdd(o.records[1], queue)
    \/ o.op = "addAll" /\ RunAddAll(o.records, queue)
    \/ o.op = "cleanup" /\ CleanupDone(o.record, queue)
    \/ o.op = "cleanup" /\ CleanupFailed(o.record, queue)
    \/ o.op = "cancel" /\ RunDrop({o.path}, queue)
    \/ o.op = "clear" /\ RunDrop(Files, queue)

-----------------------------------------------------------------------------
(* safeExecute and executeNextOperation.                                   *)

\* The record of an add is on its way once the call was made.
Submitted(o) ==
    IF o.op \in {"add", "addAll"}
    THEN [r \in Records |-> IF r \in ToSet(o.records) THEN "submitted" ELSE stage[r]]
    ELSE stage

safeExecute(o, queuedStage) ==
    LET queue == Append(pendingOperations, o)
    IN  \/ /\ isProcessing
           /\ pendingOperations' = queue
           /\ stage' = queuedStage
           /\ UNCHANGED <<tasks, retries, isProcessing, immediates, attempts, superseded>>
        \/ /\ ~isProcessing
           /\ isProcessing' = TRUE
           /\ immediates' = immediates + 1
           /\ Run(Head(queue), Tail(queue))

\* Mutant: the turn is not rescheduled after an operation ran.
executeNextOperationOnce ==
    /\ immediates > 0
    /\ IF pendingOperations = <<>>
       THEN /\ isProcessing' = FALSE
            /\ immediates' = immediates - 1
            /\ UNCHANGED <<tasks, retries, stage, pendingOperations, attempts, superseded>>
       ELSE /\ Run(Head(pendingOperations), Tail(pendingOperations))
            /\ immediates' = immediates - 1
            /\ UNCHANGED isProcessing

\* One setImmediate turn.
executeNextOperation ==
    /\ immediates > 0
    /\ IF pendingOperations = <<>>
       THEN /\ isProcessing' = FALSE
            /\ immediates' = immediates - 1
            /\ UNCHANGED <<tasks, retries, stage, pendingOperations, attempts, superseded>>
       ELSE /\ Run(Head(pendingOperations), Tail(pendingOperations))
            /\ UNCHANGED <<isProcessing, immediates>>

-----------------------------------------------------------------------------
(* The public methods, and the timers.                                     *)

Submit(o) ==
    /\ Len(pendingOperations) < MaxQueue
    /\ safeExecute(o, Submitted(o))

Fresh == {r \in Records : stage[r] = "fresh"}

addFile(r) == r \in Fresh /\ Submit([op |-> "add", records |-> <<r>>])

addFiles(list) ==
    /\ ToSet(list) \subseteq Fresh
    /\ Submit([op |-> "addAll", records |-> list])

cancelCleanup(f) == Submit([op |-> "cancel", path |-> f])

clearAll == Submit([op |-> "clear"])

TimerFires(r) ==
    /\ stage[r] = "armed"
    /\ safeExecute([op |-> "cleanup", record |-> r], [stage EXCEPT ![r] = "fired"])

Next ==
    \/ \E r \in Records : addFile(r) \/ TimerFires(r)
    \/ \E list \in SetToAllKPermutations(Records) : addFiles(list)
    \/ \E f \in Files : cancelCleanup(f)
    \/ clearAll
    \/ executeNextOperation

Spec == Init /\ [][Next]_vars

\* Timers expire and setImmediate callbacks run.
FairSpec ==
    /\ Spec
    /\ WF_vars(executeNextOperation)
    /\ \A r \in Records : WF_vars(TimerFires(r))

-----------------------------------------------------------------------------
TypeOK ==
    /\ tasks \in [Files -> Records \union {None}]
    /\ retries \in [Records -> 0..(MAX_RETRIES - 1)]
    /\ stage \in [Records -> Stages]
    /\ pendingOperations \in Seq(Operations)
    /\ isProcessing \in BOOLEAN
    /\ immediates \in Nat
    /\ attempts \in [Records -> Nat]
    /\ superseded \subseteq Records

(* safeExecute never strands a closure: while something is queued, or the  *)
(* flag keeps callers from running theirs, exactly one turn is scheduled.  *)
NoLostOperation ==
    /\ immediates = IF isProcessing THEN 1 ELSE 0
    /\ pendingOperations # <<>> => isProcessing

(* tasks holds no dead entry: what it tracks for a path has a running timer*)
(* or a cleanup closure in the queue, so getPendingFiles lists files that  *)
(* will really be cleaned.                                                 *)
TrackedIsLive ==
    \A f \in Files :
        tasks[f] # None =>
            /\ file[tasks[f]] = f
            /\ \/ stage[tasks[f]] = "armed"
               \/ /\ stage[tasks[f]] = "fired"
                  /\ [op |-> "cleanup", record |-> tasks[f]] \in ToSet(pendingOperations)

(* However cancellations, re-adds and retries of one path interleave, no   *)
(* record has its file removed more than MAX_RETRIES times.                *)
AttemptsBounded == \A r \in Records : attempts[r] <= MAX_RETRIES

(* Every file handed to the queue is cleaned, given up or cancelled.       *)
EveryRecordEnds == \A r \in Records : stage[r] # "fresh" ~> stage[r] = "ended"

(* The comment of addFile, clean-task.ts:70: when the file is already in   *)
(* the queue its old timer is cancelled, so once the queue is idle none    *)
(* runs.                                                                   *)
SupersededIsCancelled ==
    ~isProcessing => \A r \in superseded : stage[r] # "armed"
=============================================================================
