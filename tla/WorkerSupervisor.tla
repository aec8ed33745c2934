-------------------------- MODULE WorkerSupervisor --------------------------
(***************************************************************************)
(* The master process that keeps one worker running:                       *)
(* packages/napcat-shell/napcat.ts.                                        *)
(*                                                                         *)
(* Child events (spawn, error, message, exit) and timers reach the master  *)
(* one at a time; restartWorker suspends at each await, so several         *)
(* invocations of it, crash relaunches and a shutdown may overlap.         *)
(*                                                                         *)
(* Time is left out.  Three facts about it are kept as guards: a child     *)
(* reports spawn or error within 5 s, the exit of a child is reported      *)
(* within 3 s, also when a SIGKILL caused it, and the 2 s timer of         *)
(* restartWorker expires before the 3 s wait that the same invocation      *)
(* enters after it.  A SIGKILL that fails, or is never sent because the    *)
(* master knew no pid, is only logged: the restart goes on beside the old  *)
(* worker, which is then in survived.                                      *)
(***************************************************************************)
EXTENDS Integers, FiniteSets

CONSTANTS
    Calls,                   \* invocations of restartWorker
    MaxWorkers,              \* bound: child processes created
    MAX_CRASHES_IN_WINDOW

ASSUME MaxWorkersAssumption == MaxWorkers \in Nat \ {0}
ASSUME MaxCrashesAssumption == MAX_CRASHES_IN_WINDOW \in Nat \ {0}

VARIABLES
    isElectron,
    master,        \* booting, up, stopping (isShuttingDown), or how it ended
    currentWorker, \* the child created last
    isRestarting,
    recentCrashes, \* Len(recentCrashTimestamps)
    proc,          \* state of each child
    told,          \* children that were asked or signalled to exit
    requests,      \* 'restart' messages on their way to the master
    call,          \* where each invocation of restartWorker is
    old,           \* the child it replaces
    pidless,       \* invocations that read no pid of it: it was spawning in Electron
    new,           \* the child it waits for, then the one its clean-up spares
    killTimers,    \* invocations whose 2 s timer runs
    relaunched,    \* history: children whose exit counted as a crash
    survived,      \* history: children that a restart did not kill and left running
    overlapped     \* history: restartWorker was called during a restart

vars == <<isElectron, master, currentWorker, isRestarting, recentCrashes, proc, told,
          requests, call, old, pidless, new, killTimers, relaunched, survived, overlapped>>
calls == <<call, old, pidless, new, killTimers>>
history == <<relaunched, survived, overlapped>>

Workers == 1..MaxWorkers
MasterStates == {"booting", "up", "stopping", "shutDown", "gaveUp", "crashed"}
ProcStates == {"none", "spawning", "running", "exited", "gone", "failed"}
CallStates == {"idle", "waiting", "forcing", "delay", "starting", "cleaning",
               "done", "failed"}

Live == {w \in Workers : proc[w] \in {"spawning", "running"}}
MasterRuns == master \in {"booting", "up", "stopping"}
Active == {c \in Calls : call[c] \notin {"idle", "done", "failed"}}

Init ==
    /\ isElectron \in BOOLEAN
    /\ master = "booting"
    /\ currentWorker = 1
    /\ isRestarting = FALSE
    /\ recentCrashes = 0
    /\ proc = [w \in Workers |-> IF w = 1 THEN "spawning" ELSE "none"]
    /\ told = {}
    /\ requests = 0
    /\ call = [c \in Calls |-> "idle"]
    /\ old = [c \in Calls |-> 0]
    /\ pidless = {}
    /\ new = [c \in Calls |-> 0]
    /\ killTimers = {}
    /\ relaunched = {}
    /\ survived = {}
    /\ overlapped = FALSE

-----------------------------------------------------------------------------
(* Talking to children.                                                    *)

\* postMessage to the current worker.  Writing to a dead child may raise an
\* 'error' event, which nobody listens for once the child has spawned.
PostToWorker(masterAfter) ==
    \/ /\ master' = masterAfter
       /\ told' = told \union ({currentWorker} \intersect Live)
    \/ /\ currentWorker \notin Live
       /\ ~isElectron
       /\ master' = "crashed"
       /\ UNCHANGED told

\* startWorker up to its await; currentWorker changes at once.
startWorker(procNow) ==
    /\ currentWorker < MaxWorkers
    /\ currentWorker' = currentWorker + 1
    /\ proc' = [procNow EXCEPT ![currentWorker + 1] = "spawning"]

StartedBy(w) == {c \in Calls : call[c] = "starting" /\ new[c] = w}

\* A restart that awaited w is over, unless the pid of the current worker is
\* known in Electron: then it first loads the module its clean-up needs.
CleansUp == isElectron /\ proc'[currentWorker] = "running"
AfterSpawn(w) ==
    /\ call' = [c \in Calls |-> IF c \notin StartedBy(w) THEN call[c]
                              ELSE IF CleansUp THEN "cleaning" ELSE "done"]
    /\ new' = [c \in Calls |-> IF c \in StartedBy(w) THEN currentWorker ELSE new[c]]

\* Mutant: the restart ends without clearing isRestarting.
SpawnedStillRestarting(w) ==
    /\ MasterRuns
    /\ proc[w] = "spawning"
    /\ proc' = [proc EXCEPT ![w] = "running"]
    /\ master' = IF master = "booting" THEN "up" ELSE master
    /\ AfterSpawn(w)
    /\ UNCHANGED <<isElectron, currentWorker, isRestarting, recentCrashes, told, requests,
                   old, pidless, killTimers, history>>

\* The 'spawn' event ends startWorker.
Spawned(w) ==
    /\ MasterRuns
    /\ proc[w] = "spawning"
    /\ proc' = [proc EXCEPT ![w] = "running"]
    /\ master' = IF master = "booting" THEN "up" ELSE master
    /\ AfterSpawn(w)
    /\ isRestarting' = IF StartedBy(w) # {} /\ ~CleansUp THEN FALSE ELSE isRestarting
    /\ UNCHANGED <<isElectron, currentWorker, recentCrashes, told, requests,
                   old, pidless, killTimers, history>>

\* cleanupOrphanedProcesses after its import: SIGTERM to every child but the
\* one spared; an import or a kill that fails is ignored.
CleanedUp(c) ==
    /\ MasterRuns
    /\ call[c] = "cleaning"
    /\ \E reached \in SUBSET (Live \ {new[c]}) : told' = told \union reached
    /\ call' = [call EXCEPT ![c] = "done"]
    /\ isRestarting' = FALSE
    /\ UNCHANGED <<isElectron, master, currentWorker, recentCrashes, proc, requests,
                   old, pidless, new, killTimers, history>>

\* The 'error' event: fatal at boot, only logged later; isRestarting stays.
SpawnFails(w) ==
    /\ MasterRuns
    /\ proc[w] = "spawning"
    /\ proc' = [proc EXCEPT ![w] = "failed"]
    /\ master' = IF master = "booting" THEN "crashed" ELSE master
    /\ call' = [c \in Calls |-> IF c \in StartedBy(w) THEN "failed" ELSE call[c]]
    /\ UNCHANGED <<isElectron, currentWorker, isRestarting, recentCrashes, told, requests,
                   old, pidless, new, killTimers, history>>

-----------------------------------------------------------------------------
(* restartWorker.                                                          *)

\* A worker's WebUI or OneBot action sends 'restart' to the master.
SendRestart(w) ==
    /\ proc[w] = "running"
    /\ requests < Cardinality({c \in Calls : call[c] = "idle"})
    /\ requests' = requests + 1
    /\ UNCHANGED <<isElectron, master, currentWorker, isRestarting, recentCrashes, proc, told,
                   calls, history>>

\* The old worker is the current one; a utility process has a pid once spawned.
AboutCurrent(c) ==
    /\ old' = [old EXCEPT ![c] = currentWorker]
    /\ pidless' = IF isElectron /\ proc[currentWorker] = "spawning"
                  THEN pidless \union {c} ELSE pidless

\* Mutant: the restart is not announced in isRestarting.
RestartUnannounced(c) ==
    /\ MasterRuns
    /\ requests > 0
    /\ call[c] = "idle"
    /\ requests' = requests - 1
    /\ overlapped' = (overlapped \/ Active # {})
    /\ PostToWorker(master)
    /\ call' = [call EXCEPT ![c] = "waiting"]
    /\ AboutCurrent(c)
    /\ UNCHANGED <<isElectron, currentWorker, isRestarting, recentCrashes, proc, new,
                   killTimers, relaunched, survived>>

\* Up to the await of the old worker's exit.
restartWorker(c) ==
    /\ MasterRuns
    /\ requests > 0
    /\ call[c] = "idle"
    /\ requests' = requests - 1
    /\ overlapped' = (overlapped \/ Active # {})
    /\ isRestarting' = TRUE
    /\ PostToWorker(master)
    /\ call' = [call EXCEPT ![c] = "waiting"]
    /\ AboutCurrent(c)
    /\ UNCHANGED <<isElectron, currentWorker, recentCrashes, proc, new,
                   killTimers, relaunched, survived>>

\* 5 s without an exit: ask whatever is the current worker now.
ExitTimeout(c) ==
    /\ MasterRuns
    /\ call[c] = "waiting"
    /\ proc[old[c]] # "spawning"
    /\ PostToWorker(master)
    /\ call' = [call EXCEPT ![c] = "forcing"]
    /\ killTimers' = killTimers \union {c}
    /\ UNCHANGED <<isElectron, currentWorker, isRestarting, recentCrashes, proc, requests,
                   old, pidless, new, history>>

\* Mutant: the old worker's death is awaited without a limit.
KillTimeoutUnresolved(c) ==
    /\ MasterRuns
    /\ c \in killTimers
    /\ killTimers' = killTimers \ {c}
    /\ told' = told \union ({currentWorker} \intersect Live)
    /\ UNCHANGED <<isElectron, master, currentWorker, isRestarting, recentCrashes, proc,
                   requests, call, old, pidless, new, history>>

\* An old worker that lives on gets a SIGKILL, which may fail.
ForceKill(c) ==
    \/ /\ proc[old[c]] = "running"
       /\ c \notin pidless
       /\ proc' = [proc EXCEPT ![old[c]] = "exited"]
       /\ UNCHANGED survived
    \/ /\ proc[old[c]] = "running"
       /\ survived' = survived \union {old[c]}
       /\ UNCHANGED proc
    \/ /\ proc[old[c]] # "running"
       /\ UNCHANGED <<proc, survived>>

\* 2 s more, never cleared: SIGTERM to the current worker.  If the wait for
\* the old worker is still on, it ends.
KillTimeout(c) ==
    /\ MasterRuns
    /\ c \in killTimers
    /\ killTimers' = killTimers \ {c}
    /\ told' = told \union ({currentWorker} \intersect Live)
    /\ \/ /\ call[c] = "forcing"
          /\ call' = [call EXCEPT ![c] = "delay"]
          /\ ForceKill(c)
       \/ /\ call[c] # "forcing"
          /\ UNCHANGED <<call, proc, survived>>
    /\ UNCHANGED <<isElectron, master, currentWorker, isRestarting, recentCrashes, requests,
                   old, pidless, new, relaunched, overlapped>>

\* After the 3 s wait, whether or not the old worker could be killed.
StartReplacement(c) ==
    /\ MasterRuns
    /\ call[c] = "delay"
    /\ c \notin killTimers
    /\ proc[old[c]] \in {"gone", "failed"} \/ old[c] \in survived
    /\ startWorker(proc)
    /\ call' = [call EXCEPT ![c] = "starting"]
    /\ new' = [new EXCEPT ![c] = currentWorker + 1]
    /\ UNCHANGED <<isElectron, master, isRestarting, recentCrashes, told, requests,
                   old, pidless, killTimers, history>>

-----------------------------------------------------------------------------
(* Exits.                                                                  *)

\* A worker crashes, or does what it was told.
WorkerExits(w) ==
    /\ proc[w] = "running"
    /\ proc' = [proc EXCEPT ![w] = "exited"]
    /\ UNCHANGED <<isElectron, master, currentWorker, isRestarting, recentCrashes, told,
                   requests, calls, history>>

\* The restarts that await this exit go on.
ResolveWaits(w) ==
    call' = [c \in Calls |-> IF call[c] \in {"waiting", "forcing"} /\ old[c] = w
                             THEN "delay" ELSE call[c]]

PlannedExit(w) ==
    /\ isRestarting \/ master = "stopping"
    /\ proc' = [proc EXCEPT ![w] = "gone"]
    /\ UNCHANGED <<master, currentWorker, recentCrashes, relaunched>>

\* Timestamps older than CRASH_TIME_WINDOW, any number of them, are dropped.
CrashRelaunched(w) ==
    /\ ~isRestarting /\ master = "up"
    /\ recentCrashes' \in 1..(recentCrashes + 1)
    /\ recentCrashes' < MAX_CRASHES_IN_WINDOW
    /\ relaunched' = relaunched \union {w}
    /\ startWorker([proc EXCEPT ![w] = "gone"])
    /\ UNCHANGED master

\* Mutant: the limit is only logged.
TooManyCrashesIgnored(w) ==
    /\ ~isRestarting /\ master = "up"
    /\ recentCrashes' \in 1..(recentCrashes + 1)
    /\ recentCrashes' >= MAX_CRASHES_IN_WINDOW
    /\ relaunched' = relaunched \union {w}
    /\ startWorker([proc EXCEPT ![w] = "gone"])
    /\ UNCHANGED master

TooManyCrashes(w) ==
    /\ ~isRestarting /\ master = "up"
    /\ recentCrashes' \in 1..(recentCrashes + 1)
    /\ recentCrashes' >= MAX_CRASHES_IN_WINDOW
    /\ relaunched' = relaunched \union {w}
    /\ proc' = [proc EXCEPT ![w] = "gone"]
    /\ master' = "gaveUp"
    /\ UNCHANGED currentWorker

ExitEvent(w) ==
    /\ MasterRuns
    /\ proc[w] = "exited"
    /\ PlannedExit(w) \/ CrashRelaunched(w) \/ TooManyCrashes(w)
    /\ ResolveWaits(w)
    /\ UNCHANGED <<isElectron, isRestarting, told, requests, old, pidless, new, killTimers,
                   survived, overlapped>>

-----------------------------------------------------------------------------
(* SIGINT or SIGTERM to the master.                                        *)

Shutdown ==
    /\ master = "up"
    /\ PostToWorker("stopping")
    /\ UNCHANGED <<isElectron, currentWorker, isRestarting, recentCrashes, proc, requests,
                   calls, history>>

\* Mutant: the master exits without the final kill.
ShutdownNoKill ==
    /\ master = "stopping"
    /\ master' = "shutDown"
    /\ UNCHANGED <<isElectron, currentWorker, isRestarting, recentCrashes, proc, told,
                   requests, calls, history>>

ShutdownTimeout ==
    /\ master = "stopping"
    /\ master' = "shutDown"
    /\ told' = told \union ({currentWorker} \intersect Live)
    /\ UNCHANGED <<isElectron, currentWorker, isRestarting, recentCrashes, proc,
                   requests, calls, history>>

-----------------------------------------------------------------------------
\* What the master does without new input from a worker or the user.
Supervise ==
    \/ \E w \in Workers : Spawned(w) \/ SpawnFails(w) \/ ExitEvent(w)
    \/ \E c \in Calls : restartWorker(c) \/ ExitTimeout(c) \/ KillTimeout(c)
                        \/ StartReplacement(c) \/ CleanedUp(c)
    \/ ShutdownTimeout

Next ==
    \/ Supervise
    \/ \E w \in Workers : SendRestart(w) \/ WorkerExits(w)
    \/ Shutdown

Spec == Init /\ [][Next]_vars

\* Every event and timer is eventually delivered.
FairSpec ==
    /\ Spec
    /\ \A w \in Workers : WF_vars(Spawned(w) \/ SpawnFails(w)) /\ WF_vars(ExitEvent(w))
    /\ \A c \in Calls : /\ WF_vars(ExitTimeout(c))
                        /\ WF_vars(KillTimeout(c))
                        /\ WF_vars(StartReplacement(c))
                        /\ WF_vars(CleanedUp(c))
    /\ WF_vars(ShutdownTimeout)

-----------------------------------------------------------------------------
TypeOK ==
    /\ isElectron \in BOOLEAN
    /\ master \in MasterStates
    /\ currentWorker \in Workers
    /\ isRestarting \in BOOLEAN
    /\ recentCrashes \in 0..(IF master = "gaveUp" THEN MAX_CRASHES_IN_WINDOW
                             ELSE MAX_CRASHES_IN_WINDOW - 1)
    /\ proc \in [Workers -> ProcStates]
    /\ told \subseteq Workers
    /\ requests \in Nat
    /\ call \in [Calls -> CallStates]
    /\ old \in [Calls -> 0..MaxWorkers]
    /\ pidless \subseteq Calls
    /\ new \in [Calls -> 0..MaxWorkers]
    /\ killTimers \subseteq Calls
    /\ relaunched \subseteq Workers
    /\ survived \subseteq Workers
    /\ overlapped \in BOOLEAN

\* No call of restartWorker met a restart under way, and no worker that was
\* left running has exited and been taken for a crash.
Undisturbed == ~overlapped /\ survived \intersect relaunched = {}

(* Beside workers that a failed SIGKILL left running, two workers (two QQ  *)
(* sessions on one account) never run side by side, whatever crashes,      *)
(* restarts, timeouts and relaunches follow each other.                    *)
OneWorker == Undisturbed => Cardinality(Live \ survived) <= 1

(* The comment at napcat.ts:290, an exit that a restart or a shutdown asked*)
(* for is neither counted as a crash nor relaunched, holds until a worker  *)
(* that a failed SIGKILL left running exits after its restart is over.     *)
PlannedExitIsNoCrash == Undisturbed => relaunched \intersect told = {}

(* However the master ends, it leaves no worker that was not told to exit, *)
(* not even one that a restart created after the shutdown began.  (A       *)
(* survivor was told; but as a crash its exit starts one worker more.)     *)
NoOrphan == Undisturbed /\ ~MasterRuns => Live \subseteq told

(* Every restart comes to an end, also when the old worker hangs.          *)
Exhausted == currentWorker = MaxWorkers
RestartEnds ==
    \A c \in Calls :
        call[c] = "waiting" ~> call[c] \in {"done", "failed"} \/ ~MasterRuns \/ Exhausted

(* A worker always comes back after a crash or a restart, as long as the   *)
(* master lives and its last child could be spawned; restarts may overlap. *)
(* The exit of a replacement during the clean-up that follows it passes for*)
(* a planned one: nothing comes back after it.                             *)
Missed ==
    /\ isElectron /\ ~isRestarting /\ Active = {}
    /\ proc[currentWorker] = "gone"
    /\ currentWorker \notin told \union relaunched
WorkerComesBack ==
    []<>(\/ proc[currentWorker] \in {"running", "failed"}
         \/ Missed
         \/ ~MasterRuns
         \/ Exhausted)
=============================================================================
