---------------------- MODULE WorkerSupervisorProofs ------------------------
(* Safety of the worker supervisor, for any number of workers, restarts and *)
(* tolerated crashes.                                                       *)
EXTENDS WorkerSupervisor, FiniteSetTheorems, TLAPS

USE MaxWorkersAssumption, MaxCrashesAssumption

\* A process the master has not yet seen the end of.
Present == {"spawning", "running", "exited"}

Ready == {"booting", "up"}

\* Beside survivors, only the child created last can be present.
Only ==
    \A w \in Workers : proc[w] \in Present => w = currentWorker \/ w \in survived

\* Nothing was told or counted for a child to come, and none survived.
Past ==
    \A w \in told \union relaunched \union survived : w <= currentWorker

\* What a restart could not kill had been told to exit, and had spawned.
Survivors ==
    \A w \in survived : w \in told /\ proc[w] # "spawning"

\* A restart under way is alone, announced, and about the current worker: the
\* one it waits for, or the one it has started and nobody has told to exit.
Replaced == {"starting", "cleaning"}
Restarting ==
    /\ \A c, d \in Active : c = d
    /\ \A c \in Active :
          /\ isRestarting
          /\ call[c] \notin Replaced => old[c] = currentWorker
          /\ call[c] \in Replaced =>
                /\ new[c] = currentWorker
                /\ currentWorker \notin survived
                /\ master \in Ready => currentWorker \notin told

\* A 2 s timer outlives the wait it belongs to, but not the restart.
Timers ==
    \A c \in killTimers : call[c] \in {"forcing", "delay"}

\* Without a restart, a worker that is present was told nothing.
Untold ==
    master \in Ready /\ ~isRestarting /\ proc[currentWorker] \in Present
        => currentWorker \notin told

\* What counted as a crash is over, and was not asked for.
Crashed ==
    \A w \in relaunched : proc[w] = "gone" /\ w \notin told

\* The end of the master.
Ended ==
    ~MasterRuns => Live \subseteq told

Safe == /\ Only /\ Past /\ Survivors /\ Restarting
        /\ Timers /\ Untold /\ Crashed /\ Ended

\* A restart under way is about a child.
Replacing == \A c \in Active : old[c] \in Workers

IInv == TypeOK /\ Replacing /\ (Undisturbed => Safe)
-----------------------------------------------------------------------------
\* The child created last has spawned; a restart that waited for it is over.
LEMMA SpawnedKeeps ==
    ASSUME IInv, NEW w \in Workers, Spawned(w)
    PROVE  IInv'
<1>1. TypeOK /\ Replacing /\ (Undisturbed => Safe)
  BY DEF IInv
<1>2. TypeOK'
  <2>1. /\ isElectron' \in BOOLEAN /\ master' \in MasterStates /\ currentWorker' \in Workers
        /\ isRestarting' \in BOOLEAN /\ overlapped' \in BOOLEAN /\ requests' \in Nat
    BY <1>1
       DEF TypeOK, Spawned, StartedBy, AfterSpawn, CleansUp, calls, history, Workers,
           MasterStates, MasterRuns, Active
  <2>2. recentCrashes' \in 0..(IF master' = "gaveUp" THEN MAX_CRASHES_IN_WINDOW
                               ELSE MAX_CRASHES_IN_WINDOW - 1)
    BY <1>1 DEF TypeOK, Spawned, StartedBy, AfterSpawn, CleansUp, calls, history, MasterRuns
  <2>3. proc' \in [Workers -> ProcStates]
    BY <1>1
       DEF TypeOK, Spawned, StartedBy, AfterSpawn, CleansUp, calls, history, ProcStates, Workers
  <2>4. told' \subseteq Workers /\ relaunched' \subseteq Workers
        /\ survived' \subseteq Workers
    BY <1>1 DEF TypeOK, Spawned, StartedBy, AfterSpawn, CleansUp, calls, history, Live
  <2>5. call' \in [Calls -> CallStates]
    BY <1>1 DEF TypeOK, Spawned, StartedBy, AfterSpawn, CleansUp, calls, history, CallStates
  <2>6. /\ old' \in [Calls -> 0..MaxWorkers] /\ new' \in [Calls -> 0..MaxWorkers]
        /\ killTimers' \subseteq Calls /\ pidless' \subseteq Calls
    BY <1>1
       DEF Replaced, Survivors, TypeOK, Spawned, StartedBy, AfterSpawn, CleansUp, calls, history,
           Workers
  <2> QED
    BY <2>1, <2>2, <2>3, <2>4, <2>5, <2>6 DEF TypeOK
<1>3. ASSUME Undisturbed'
      PROVE  Safe'
  <2>1. Undisturbed /\ Safe
    BY <1>1, <1>3 DEF Undisturbed, calls, history, Spawned, StartedBy, AfterSpawn, CleansUp
  <2>2. Only'
    BY <2>1
       DEF Spawned, StartedBy, AfterSpawn, CleansUp, calls, history, Safe, Only, Present, Workers
  <2>3. Past'
    BY <1>1, <2>1, <1>3
       DEF TypeOK, Spawned, StartedBy, AfterSpawn, CleansUp, calls, history, Safe, Only, Past,
           Survivors, Replaced, Restarting, Timers, Untold,
           Crashed, Ended, Active, Live, MasterRuns, Present, Ready, Workers
  <2>4. Restarting'
    BY <2>1
       DEF Spawned, StartedBy, AfterSpawn, CleansUp, calls, history, Safe, Replaced, Restarting,
           Active, Ready
  <2>5. Timers'
    BY <1>1, <2>1 DEF Spawned, StartedBy, AfterSpawn, CleansUp, calls, history, Safe, Timers, TypeOK
  <2>6. Untold'
    <3>1. CASE StartedBy(w) = {}
      BY <2>1, <3>1
         DEF Spawned, Safe, Only, Survivors, Untold, Present, Ready
    <3>2. CASE StartedBy(w) # {}
      <4>1. PICK c \in Calls : call[c] = "starting" /\ new[c] = w
        BY <3>2 DEF StartedBy
      <4>2. master \in Ready => currentWorker \notin told
        BY <2>1, <4>1 DEF Safe, Restarting, Replaced, Active
      <4> QED
        BY <4>2 DEF Spawned, Untold, Ready
    <3> QED
      BY <3>1, <3>2
  <2>7. Crashed'
    BY <2>1 DEF Spawned, StartedBy, AfterSpawn, CleansUp, calls, history, Safe, Crashed, Live
  <2>8. Ended'
    BY <2>1
       DEF Spawned, StartedBy, AfterSpawn, CleansUp, calls, history, Safe, Ended, MasterRuns, Live
  <2>9. Survivors'
    BY <1>1, <2>1
       DEF Spawned, StartedBy, AfterSpawn, CleansUp, calls, history, Safe, Survivors, TypeOK, Live
  <2> QED
    BY <2>2, <2>3, <2>4, <2>5, <2>6, <2>7, <2>8, <2>9 DEF Safe
<1>4. Replacing'
  BY <1>1
     DEF Spawned, StartedBy, AfterSpawn, CleansUp, calls, history, Replacing, Active, TypeOK
<1> QED
  BY <1>2, <1>3, <1>4 DEF IInv

\* The clean-up after a replacement has told survivors only.
LEMMA CleanedUpKeeps ==
    ASSUME IInv, NEW c \in Calls, CleanedUp(c)
    PROVE  IInv'
<1>1. TypeOK /\ Replacing /\ (Undisturbed => Safe)
  BY DEF IInv
<1>2. TypeOK'
  BY <1>1 DEF TypeOK, CleanedUp, history, Live, CallStates, Workers
<1>3. ASSUME Undisturbed'
      PROVE  Safe'
  <2>1. Undisturbed /\ Safe
    BY <1>1, <1>3 DEF Undisturbed, history, CleanedUp
  <2>2. /\ c \in Active /\ call[c] \in Replaced /\ MasterRuns
        /\ UNCHANGED <<master, currentWorker, proc, old, new, killTimers>>
        /\ UNCHANGED history
    BY DEF CleanedUp, Active, Replaced
  <2>3. new[c] = currentWorker /\ (master \in Ready => currentWorker \notin told)
    BY <2>1, <2>2 DEF Safe, Restarting
  <2>4. told \subseteq told' /\ \A w \in told' \ told : w \in survived
    BY <2>1, <2>3 DEF CleanedUp, Safe, Only, Present, Live
  <2>5. Active' = {}
    BY <1>1, <2>1, <2>2 DEF CleanedUp, Safe, Restarting, Active, TypeOK
  <2>6. currentWorker \notin told' \/ master \notin Ready
    BY <2>1, <2>2, <2>3, <2>4 DEF Safe, Restarting
  <2>7. Only' /\ Past' /\ Survivors'
    BY <2>1, <2>2, <2>4 DEF Safe, Only, Past, Survivors, history
  <2>8. Restarting' /\ Untold'
    BY <2>2, <2>5, <2>6 DEF Restarting, Untold
  <2>9. Timers'
    BY <1>1, <2>1, <2>2 DEF CleanedUp, Safe, Timers, Replaced, TypeOK
  <2>10. Crashed'
    BY <2>1, <2>2, <2>4, <1>3 DEF Safe, Crashed, Undisturbed, history
  <2>11. Ended'
    BY <2>2 DEF Ended, MasterRuns
  <2> QED
    BY <2>7, <2>8, <2>9, <2>10, <2>11 DEF Safe
<1>4. Replacing'
  BY <1>1
     DEF CleanedUp, calls, history, Replacing, Active, TypeOK
<1> QED
  BY <1>2, <1>3, <1>4 DEF IInv

\* It could not spawn: nothing is present.
LEMMA SpawnFailsKeeps ==
    ASSUME IInv, NEW w \in Workers, SpawnFails(w)
    PROVE  IInv'
<1>1. TypeOK /\ Replacing /\ (Undisturbed => Safe)
  BY DEF IInv
<1>2. TypeOK'
  BY <1>1
     DEF TypeOK, SpawnFails, StartedBy, calls, history, Workers, MasterStates, ProcStates,
         CallStates
<1>3. ASSUME Undisturbed'
      PROVE  Safe'
  <2>1. Undisturbed /\ Safe
    BY <1>1, <1>3 DEF Undisturbed, calls, history, SpawnFails, StartedBy
  <2>2. Only'
    BY <2>1 DEF SpawnFails, StartedBy, calls, history, Safe, Only, Present, Workers
  <2>3. Past'
    BY <2>1 DEF SpawnFails, StartedBy, calls, history, Safe, Past, Workers
  <2>4. Restarting'
    BY <2>1 DEF SpawnFails, StartedBy, calls, history, Safe, Replaced, Restarting, Active, Ready
  <2>5. Timers'
    BY <1>1, <2>1 DEF SpawnFails, StartedBy, calls, history, Safe, Timers, TypeOK
  <2>6. Untold'
    BY <2>1 DEF SpawnFails, StartedBy, calls, history, Safe, Untold, Present, Ready
  <2>7. Crashed'
    BY <2>1 DEF SpawnFails, StartedBy, calls, history, Safe, Crashed
  <2>8. Ended'
    BY <1>1, <2>1
       DEF Survivors, SpawnFails, StartedBy, calls, history, Safe, Ended, MasterRuns, Live, Only,
           Present,
           TypeOK
  <2>9. Survivors'
    BY <1>1, <2>1
       DEF SpawnFails, StartedBy, calls, history, Safe, Survivors, TypeOK, Live
  <2> QED
    BY <2>2, <2>3, <2>4, <2>5, <2>6, <2>7, <2>8, <2>9 DEF Safe
<1>4. Replacing'
  BY <1>1
     DEF SpawnFails, StartedBy, calls, history, Replacing, Active, TypeOK
<1> QED
  BY <1>2, <1>3, <1>4 DEF IInv

\* A request on its way changes nothing yet.
LEMMA SendRestartKeeps ==
    ASSUME IInv, NEW w \in Workers, SendRestart(w)
    PROVE  IInv'
<1>1. TypeOK /\ Replacing /\ (Undisturbed => Safe)
  BY DEF IInv
<1>2. TypeOK'
  BY <1>1 DEF TypeOK, SendRestart, calls, history, Workers, MasterStates, ProcStates, CallStates
<1>3. ASSUME Undisturbed'
      PROVE  Safe'
  <2>1. Undisturbed /\ Safe
    BY <1>1, <1>3 DEF Undisturbed, calls, history, SendRestart
  <2>2. Only'
    BY <2>1 DEF SendRestart, calls, history, Safe, Only
  <2>3. Past'
    BY <2>1 DEF SendRestart, calls, history, Safe, Past, Workers
  <2>4. Restarting'
    BY <2>1 DEF SendRestart, calls, history, Safe, Replaced, Restarting, Active
  <2>5. Timers'
    BY <2>1 DEF SendRestart, calls, history, Safe, Timers
  <2>6. Untold'
    BY <2>1 DEF SendRestart, calls, history, Safe, Untold
  <2>7. Crashed'
    BY <2>1 DEF SendRestart, calls, history, Safe, Crashed
  <2>8. Ended'
    BY <2>1 DEF SendRestart, calls, history, Safe, Ended, MasterRuns, Live
  <2>9. Survivors'
    BY <1>1, <2>1
       DEF SendRestart, calls, history, Safe, Survivors, TypeOK, Live
  <2> QED
    BY <2>2, <2>3, <2>4, <2>5, <2>6, <2>7, <2>8, <2>9 DEF Safe
<1>4. Replacing'
  BY <1>1
     DEF SendRestart, calls, history, Replacing, Active, TypeOK
<1> QED
  BY <1>2, <1>3, <1>4 DEF IInv

\* A restart begins.
LEMMA RestartKeeps ==
    ASSUME IInv, NEW c \in Calls, restartWorker(c)
    PROVE  IInv'
<1>1. TypeOK /\ Replacing /\ (Undisturbed => Safe)
  BY DEF IInv
<1>2. TypeOK'
  <2>1. /\ isElectron' \in BOOLEAN /\ master' \in MasterStates /\ currentWorker' \in Workers
        /\ isRestarting' \in BOOLEAN /\ overlapped' \in BOOLEAN /\ requests' \in Nat
    BY <1>1
       DEF TypeOK, restartWorker, AboutCurrent, PostToWorker, calls, history, Workers, MasterStates,
           MasterRuns, Active
  <2>2. recentCrashes' \in 0..(IF master' = "gaveUp" THEN MAX_CRASHES_IN_WINDOW
                               ELSE MAX_CRASHES_IN_WINDOW - 1)
    BY <1>1 DEF TypeOK, restartWorker, AboutCurrent, PostToWorker, calls, history, MasterRuns
  <2>3. proc' \in [Workers -> ProcStates]
    BY <1>1
       DEF TypeOK, restartWorker, AboutCurrent, PostToWorker, calls, history, ProcStates, Workers
  <2>4. told' \subseteq Workers /\ relaunched' \subseteq Workers
        /\ survived' \subseteq Workers
    BY <1>1 DEF TypeOK, restartWorker, AboutCurrent, PostToWorker, calls, history, Live
  <2>5. call' \in [Calls -> CallStates]
    BY <1>1 DEF TypeOK, restartWorker, AboutCurrent, PostToWorker, calls, history, CallStates
  <2>6. /\ old' \in [Calls -> 0..MaxWorkers] /\ new' \in [Calls -> 0..MaxWorkers]
        /\ killTimers' \subseteq Calls /\ pidless' \subseteq Calls
    BY <1>1 DEF TypeOK, restartWorker, AboutCurrent, PostToWorker, calls, history, Workers
  <2> QED
    BY <2>1, <2>2, <2>3, <2>4, <2>5, <2>6 DEF TypeOK
<1>3. ASSUME Undisturbed'
      PROVE  Safe'
  <2>1. Undisturbed /\ Safe
    BY <1>1, <1>3 DEF Undisturbed, calls, history, restartWorker, AboutCurrent, PostToWorker
  <2>2. Only'
    BY <2>1 DEF restartWorker, AboutCurrent, PostToWorker, calls, history, Safe, Only
  <2>3. Past'
    <3>1. told' \subseteq told \union {currentWorker} /\ relaunched' = relaunched
          /\ currentWorker' = currentWorker /\ currentWorker \in Nat
          /\ survived' = survived
      BY <1>1, <2>1 DEF history, TypeOK, restartWorker, AboutCurrent, PostToWorker, Workers
    <3> QED
      BY <1>1, <2>1, <3>1 DEF Safe, Past, TypeOK, Workers
  <2>4. Restarting'
    <3>0. Active = {}
      BY <1>1, <1>2, <1>3 DEF restartWorker, Undisturbed, TypeOK
    <3>1. isRestarting' /\ call' = [call EXCEPT ![c] = "waiting"]
          /\ old' = [old EXCEPT ![c] = currentWorker] /\ currentWorker' = currentWorker
      BY DEF restartWorker, AboutCurrent
    <3>2. Active' = {c}
      BY <1>1, <3>0, <3>1 DEF Active, TypeOK
    <3>3. call'[c] = "waiting" /\ old'[c] = currentWorker
      BY <1>1, <3>1 DEF TypeOK
    <3> QED
      BY <3>1, <3>2, <3>3 DEF Restarting, Replaced
  <2>5. Timers'
    BY <2>1 DEF restartWorker, AboutCurrent, PostToWorker, calls, history, Safe, Timers
  <2>6. Untold'
    BY <2>1 DEF restartWorker, AboutCurrent, PostToWorker, calls, history, Safe, Untold
  <2>7. Crashed'
    BY <2>1 DEF restartWorker, AboutCurrent, PostToWorker, calls, history, Safe, Crashed, Live
  <2>8. Ended'
    BY <2>1
       DEF Survivors, restartWorker, AboutCurrent, PostToWorker, calls, history, Safe, Ended,
           MasterRuns, Live, Only, Present
  <2>9. Survivors'
    BY <1>1, <2>1
       DEF restartWorker, AboutCurrent, PostToWorker, calls, history, Safe, Survivors, TypeOK, Live
  <2> QED
    BY <2>2, <2>3, <2>4, <2>5, <2>6, <2>7, <2>8, <2>9 DEF Safe
<1>4. Replacing'
  BY <1>1
     DEF restartWorker, AboutCurrent, PostToWorker, calls, history, Replacing, Active, TypeOK
<1> QED
  BY <1>2, <1>3, <1>4 DEF IInv

\* It asks again.
LEMMA ExitTimeoutKeeps ==
    ASSUME IInv, NEW c \in Calls, ExitTimeout(c)
    PROVE  IInv'
<1>1. TypeOK /\ Replacing /\ (Undisturbed => Safe)
  BY DEF IInv
<1>2. TypeOK'
  <2>1. /\ isElectron' \in BOOLEAN /\ master' \in MasterStates /\ currentWorker' \in Workers
        /\ isRestarting' \in BOOLEAN /\ overlapped' \in BOOLEAN /\ requests' \in Nat
    BY <1>1
       DEF TypeOK, ExitTimeout, PostToWorker, calls, history, Workers, MasterStates, MasterRuns,
           Active
  <2>2. recentCrashes' \in 0..(IF master' = "gaveUp" THEN MAX_CRASHES_IN_WINDOW
                               ELSE MAX_CRASHES_IN_WINDOW - 1)
    BY <1>1 DEF TypeOK, ExitTimeout, PostToWorker, calls, history, MasterRuns
  <2>3. proc' \in [Workers -> ProcStates]
    BY <1>1 DEF TypeOK, ExitTimeout, PostToWorker, calls, history, ProcStates, Workers
  <2>4. told' \subseteq Workers /\ relaunched' \subseteq Workers
        /\ survived' \subseteq Workers
    BY <1>1 DEF TypeOK, ExitTimeout, PostToWorker, calls, history, Live
  <2>5. call' \in [Calls -> CallStates]
    BY <1>1 DEF TypeOK, ExitTimeout, PostToWorker, calls, history, CallStates
  <2>6. /\ old' \in [Calls -> 0..MaxWorkers] /\ new' \in [Calls -> 0..MaxWorkers]
        /\ killTimers' \subseteq Calls /\ pidless' \subseteq Calls
    BY <1>1 DEF TypeOK, ExitTimeout, PostToWorker, calls, history, Workers
  <2> QED
    BY <2>1, <2>2, <2>3, <2>4, <2>5, <2>6 DEF TypeOK
<1>3. ASSUME Undisturbed'
      PROVE  Safe'
  <2>1. Undisturbed /\ Safe
    BY <1>1, <1>3 DEF Undisturbed, calls, history, ExitTimeout, PostToWorker
  <2>2. Only'
    BY <2>1 DEF ExitTimeout, PostToWorker, calls, history, Safe, Only
  <2>3. Past'
    <3>1. told' \subseteq told \union {currentWorker} /\ relaunched' = relaunched
          /\ currentWorker' = currentWorker /\ currentWorker \in Nat
          /\ survived' = survived
      BY <1>1, <2>1 DEF history, TypeOK, ExitTimeout, PostToWorker, Workers
    <3> QED
      BY <1>1, <2>1, <3>1 DEF Safe, Past, TypeOK, Workers
  <2>4. Restarting'
    <3>1. /\ c \in Active /\ call[c] \notin Replaced
          /\ call' = [call EXCEPT ![c] = "forcing"]
          /\ UNCHANGED <<isRestarting, currentWorker, old, new>>
      BY DEF ExitTimeout, Active, Replaced
    <3>2. Active' = Active
      BY <1>1, <3>1 DEF Active, TypeOK
    <3>3. Active = {c} /\ isRestarting /\ old[c] = currentWorker
      BY <2>1, <3>1 DEF Safe, Restarting
    <3>4. call'[c] \notin Replaced
      BY <1>1, <3>1 DEF TypeOK, Replaced
    <3> QED
      BY <3>1, <3>2, <3>3, <3>4 DEF Restarting
  <2>5. Timers'
    BY <1>1, <2>1 DEF ExitTimeout, PostToWorker, calls, history, Safe, Timers, TypeOK
  <2>6. Untold'
    BY <2>1
       DEF ExitTimeout, PostToWorker, calls, history, Safe, Untold, Present, Ready, Restarting,
           Active, Live, Only, Workers
  <2>7. Crashed'
    BY <2>1 DEF ExitTimeout, PostToWorker, calls, history, Safe, Crashed, Live
  <2>8. Ended'
    BY <2>1
       DEF Survivors, ExitTimeout, PostToWorker, calls, history, Safe, Ended, MasterRuns, Live,
           Only, Present
  <2>9. Survivors'
    BY <1>1, <2>1
       DEF ExitTimeout, PostToWorker, calls, history, Safe, Survivors, TypeOK, Live
  <2> QED
    BY <2>2, <2>3, <2>4, <2>5, <2>6, <2>7, <2>8, <2>9 DEF Safe
<1>4. Replacing'
  BY <1>1
     DEF ExitTimeout, PostToWorker, calls, history, Replacing, Active, TypeOK
<1> QED
  BY <1>2, <1>3, <1>4 DEF IInv

\* It kills the old worker, or only tells the current one to exit.
LEMMA KillTimeoutKeeps ==
    ASSUME IInv, NEW c \in Calls, KillTimeout(c)
    PROVE  IInv'
<1>1. TypeOK /\ Replacing /\ (Undisturbed => Safe)
  BY DEF IInv
<1>2. TypeOK'
  <2>1. /\ isElectron' \in BOOLEAN /\ master' \in MasterStates /\ currentWorker' \in Workers
        /\ isRestarting' \in BOOLEAN /\ overlapped' \in BOOLEAN /\ requests' \in Nat
    BY <1>1
       DEF TypeOK, KillTimeout, ForceKill, calls, history, Workers, MasterStates, MasterRuns, Active
  <2>2. recentCrashes' \in 0..(IF master' = "gaveUp" THEN MAX_CRASHES_IN_WINDOW
                               ELSE MAX_CRASHES_IN_WINDOW - 1)
    BY <1>1 DEF TypeOK, KillTimeout, ForceKill, calls, history, MasterRuns
  <2>3. proc' \in [Workers -> ProcStates]
    BY <1>1, SMTT(20) DEF TypeOK, KillTimeout, ForceKill, calls, history, ProcStates, Workers
  <2>4. told' \subseteq Workers /\ relaunched' \subseteq Workers
        /\ survived' \subseteq Workers
    BY <1>1 DEF TypeOK, KillTimeout, ForceKill, calls, history, Live, Replacing, Active
  <2>5. call' \in [Calls -> CallStates]
    BY <1>1 DEF TypeOK, KillTimeout, ForceKill, calls, history, CallStates
  <2>6. /\ old' \in [Calls -> 0..MaxWorkers] /\ new' \in [Calls -> 0..MaxWorkers]
        /\ killTimers' \subseteq Calls /\ pidless' \subseteq Calls
    BY <1>1 DEF TypeOK, KillTimeout, ForceKill, calls, history, Workers
  <2> QED
    BY <2>1, <2>2, <2>3, <2>4, <2>5, <2>6 DEF TypeOK
<1>3. ASSUME Undisturbed'
      PROVE  Safe'
  <2>1. Undisturbed /\ Safe
    BY <1>1, <1>3 DEF Undisturbed, calls, history, KillTimeout, ForceKill
  <2>2. /\ c \in Active /\ call[c] \in {"forcing", "delay"} /\ MasterRuns
        /\ old[c] = currentWorker /\ currentWorker \in Workers /\ isRestarting
    <3>1. call[c] \in {"forcing", "delay"} /\ currentWorker \in Workers /\ MasterRuns
      BY <1>1, <2>1 DEF KillTimeout, Safe, Timers, TypeOK
    <3>2. c \in Active
      BY <3>1 DEF Active
    <3>3. old[c] = currentWorker /\ isRestarting
      BY <3>1, <3>2, <2>1 DEF Safe, Restarting, Replaced
    <3> QED
      BY <3>1, <3>2, <3>3
  <2>3. /\ told' = told \union ({currentWorker} \intersect Live)
        /\ UNCHANGED <<relaunched, currentWorker, isRestarting, master, old, new>>
    BY DEF KillTimeout
  <2>4. \A d \in Calls : call'[d] = call[d] \/ (d = c /\ call'[d] = "delay")
    BY <1>1 DEF KillTimeout, TypeOK
  <2>10. \/ UNCHANGED <<proc, survived>>
         \/ proc[currentWorker] = "running" /\ proc' = proc
            /\ survived' = survived \union {currentWorker}
         \/ proc[currentWorker] = "running" /\ survived' = survived
            /\ proc' = [proc EXCEPT ![currentWorker] = "exited"]
    BY <2>2 DEF KillTimeout, ForceKill
  <2>11. Only'
    BY <1>1, <2>1, <2>2, <2>3, <2>10 DEF Safe, Only, Present, TypeOK
  <2>12. Past'
    BY <1>1, <2>1, <2>2, <2>3, <2>10 DEF Safe, Past, TypeOK, Workers
  <2>13. Survivors'
    BY <1>1, <2>1, <2>2, <2>3, <2>10 DEF Safe, Survivors, Live, TypeOK
  <2>14. Restarting'
    <3>1. Active' = Active
      BY <2>2, <2>4 DEF Active
    <3>2. \A d \in Active : d = c
      BY <2>1, <2>2 DEF Safe, Restarting
    <3>3. call'[c] \notin Replaced
      BY <2>2, <2>4 DEF Replaced
    <3> QED
      BY <2>2, <2>3, <3>1, <3>2, <3>3 DEF Restarting
  <2>5. Timers'
    BY <1>1, <2>1 DEF KillTimeout, ForceKill, calls, history, Safe, Timers, TypeOK
  <2>6. Untold'
    BY <2>2, <2>3 DEF Untold
  <2>7. Crashed'
    BY <1>1, <2>1, <2>2, <2>3, <2>10 DEF Safe, Crashed, Live, TypeOK
  <2>8. Ended'
    BY <2>2, <2>3 DEF Ended, MasterRuns
  <2> QED
    BY <2>5, <2>6, <2>7, <2>8, <2>11, <2>12, <2>13, <2>14 DEF Safe
<1>4. Replacing'
  BY <1>1
     DEF KillTimeout, calls, history, Replacing, Active, TypeOK
<1> QED
  BY <1>2, <1>3, <1>4 DEF IInv

\* It starts the next child, once the old one is gone.
LEMMA StartReplacementKeeps ==
    ASSUME IInv, NEW c \in Calls, StartReplacement(c)
    PROVE  IInv'
<1>1. TypeOK /\ Replacing /\ (Undisturbed => Safe)
  BY DEF IInv
<1>2. TypeOK'
  BY <1>1
     DEF TypeOK, StartReplacement, startWorker, calls, history, Workers, MasterStates,
         ProcStates, CallStates
<1>3. ASSUME Undisturbed'
      PROVE  Safe'
  <2>1. Undisturbed /\ Safe
    BY <1>1, <1>3 DEF Undisturbed, calls, history, StartReplacement, startWorker
  <2>2. Only'
    <3>1. c \in Active /\ call[c] \notin Replaced
      BY DEF StartReplacement, Active, Replaced
    <3>2. old[c] = currentWorker
      BY <2>1, <3>1 DEF Safe, Restarting
    <3>3. \A w \in Workers : proc[w] \in Present => w \in survived
      BY <2>1, <3>2 DEF StartReplacement, Safe, Only, Present
    <3> QED
      BY <1>1, <3>3 DEF StartReplacement, startWorker, history, Only, Present, Workers, TypeOK
  <2>3. Past'
    BY <1>1, <2>1 DEF StartReplacement, startWorker, calls, history, Safe, Past, Workers, TypeOK
  <2>4. Restarting'
    BY <1>1, <2>1
       DEF StartReplacement, startWorker, calls, history, Safe, Replaced, Restarting, Active,
           Ready, Live,
           Only, Present, Past, Timers, Workers, TypeOK
  <2>5. Timers'
    BY <2>1 DEF StartReplacement, startWorker, calls, history, Safe, Timers
  <2>6. Untold'
    BY <1>1, <2>1
       DEF StartReplacement, startWorker, calls, history, Safe, Untold, Present, Ready, Past,
           Workers, TypeOK
  <2>7. Crashed'
    BY <1>1, <2>1
       DEF StartReplacement, startWorker, calls, history, Safe, Crashed, Past, Workers, TypeOK
  <2>8. Ended'
    BY <2>1 DEF StartReplacement, startWorker, calls, history, Safe, Ended, MasterRuns, Live
  <2>9. Survivors'
    BY <1>1, <2>1
       DEF Past, Workers, StartReplacement, startWorker, calls, history, Safe,
           Survivors, TypeOK, Live
  <2> QED
    BY <2>2, <2>3, <2>4, <2>5, <2>6, <2>7, <2>8, <2>9 DEF Safe
<1>4. Replacing'
  BY <1>1
     DEF StartReplacement, startWorker, calls, history, Replacing, Active, TypeOK
<1> QED
  BY <1>2, <1>3, <1>4 DEF IInv

\* A worker that exited stays present until the master sees it.
LEMMA WorkerExitsKeeps ==
    ASSUME IInv, NEW w \in Workers, WorkerExits(w)
    PROVE  IInv'
<1>1. TypeOK /\ Replacing /\ (Undisturbed => Safe)
  BY DEF IInv
<1>2. TypeOK'
  BY <1>1 DEF TypeOK, WorkerExits, calls, history, Workers, MasterStates, ProcStates, CallStates
<1>3. ASSUME Undisturbed'
      PROVE  Safe'
  <2>1. Undisturbed /\ Safe
    BY <1>1, <1>3 DEF Undisturbed, calls, history, WorkerExits
  <2>2. Only'
    BY <2>1 DEF WorkerExits, calls, history, Safe, Only, Present, Workers
  <2>3. Past'
    BY <2>1 DEF WorkerExits, calls, history, Safe, Past, Workers
  <2>4. Restarting'
    BY <2>1 DEF WorkerExits, calls, history, Safe, Replaced, Restarting, Active
  <2>5. Timers'
    BY <2>1 DEF WorkerExits, calls, history, Safe, Timers
  <2>6. Untold'
    BY <2>1 DEF WorkerExits, calls, history, Safe, Untold, Present, Ready
  <2>7. Crashed'
    BY <2>1 DEF WorkerExits, calls, history, Safe, Crashed
  <2>8. Ended'
    BY <2>1 DEF WorkerExits, calls, history, Safe, Ended, MasterRuns, Live
  <2>9. Survivors'
    BY <1>1, <2>1
       DEF WorkerExits, calls, history, Safe, Survivors, TypeOK, Live
  <2> QED
    BY <2>2, <2>3, <2>4, <2>5, <2>6, <2>7, <2>8, <2>9 DEF Safe
<1>4. Replacing'
  BY <1>1
     DEF WorkerExits, calls, history, Replacing, Active, TypeOK
<1> QED
  BY <1>2, <1>3, <1>4 DEF IInv

\* The master sees an exit.
LEMMA ExitEventKeeps ==
    ASSUME IInv, NEW w \in Workers, ExitEvent(w)
    PROVE  IInv'
<1>1. TypeOK /\ Replacing /\ (Undisturbed => Safe)
  BY DEF IInv
<1>2. TypeOK'
  <2>1. /\ isElectron' \in BOOLEAN /\ master' \in MasterStates /\ currentWorker' \in Workers
        /\ isRestarting' \in BOOLEAN /\ overlapped' \in BOOLEAN /\ requests' \in Nat
    BY <1>1
       DEF TypeOK, ExitEvent, PlannedExit, CrashRelaunched, TooManyCrashes,
           ResolveWaits, startWorker, calls, history, Workers, MasterStates, MasterRuns, Active
  <2>2. recentCrashes' \in 0..(IF master' = "gaveUp" THEN MAX_CRASHES_IN_WINDOW
                               ELSE MAX_CRASHES_IN_WINDOW - 1)
    BY <1>1
       DEF TypeOK, ExitEvent, PlannedExit, CrashRelaunched, TooManyCrashes,
           ResolveWaits, startWorker, calls, history, MasterRuns
  <2>3. proc' \in [Workers -> ProcStates]
    BY <1>1
       DEF TypeOK, ExitEvent, PlannedExit, CrashRelaunched, TooManyCrashes,
           ResolveWaits, startWorker, calls, history, ProcStates, Workers
  <2>4. told' \subseteq Workers /\ relaunched' \subseteq Workers
        /\ survived' \subseteq Workers
    BY <1>1
       DEF TypeOK, ExitEvent, PlannedExit, CrashRelaunched, TooManyCrashes,
           ResolveWaits, startWorker, calls, history, Live
  <2>5. call' \in [Calls -> CallStates]
    BY <1>1
       DEF TypeOK, ExitEvent, PlannedExit, CrashRelaunched, TooManyCrashes,
           ResolveWaits, startWorker, calls, history, CallStates
  <2>6. /\ old' \in [Calls -> 0..MaxWorkers] /\ new' \in [Calls -> 0..MaxWorkers]
        /\ killTimers' \subseteq Calls /\ pidless' \subseteq Calls
    BY <1>1
       DEF TypeOK, ExitEvent, PlannedExit, CrashRelaunched, TooManyCrashes,
           ResolveWaits, startWorker, calls, history, Workers
  <2> QED
    BY <2>1, <2>2, <2>3, <2>4, <2>5, <2>6 DEF TypeOK
<1>3. ASSUME Undisturbed'
      PROVE  Safe'
  <2>1. Undisturbed /\ Safe
    BY <1>1, <1>3
       DEF Undisturbed, calls, history, ExitEvent, PlannedExit, CrashRelaunched, TooManyCrashes,
           ResolveWaits,
           startWorker
  <2>2. Only'
    <3>1. CASE PlannedExit(w)
      BY <1>1, <2>1, <3>1 DEF ExitEvent, PlannedExit, Safe, Only, Present, TypeOK
    <3>2. CASE TooManyCrashes(w)
      BY <1>1, <2>1, <3>2 DEF ExitEvent, TooManyCrashes, Safe, Only, Present, TypeOK
    <3>3. CASE CrashRelaunched(w)
      <4>1. w = currentWorker
        BY <1>3, <2>1, <3>3
           DEF ExitEvent, CrashRelaunched, Undisturbed, Safe, Only, Present
      <4>2. \A v \in Workers : v # w /\ proc[v] \in Present => v \in survived
        BY <2>1, <4>1 DEF Safe, Only
      <4> QED
        BY <1>1, <3>3, <4>2
           DEF ExitEvent, CrashRelaunched, startWorker, Only, Present, Workers, TypeOK
    <3> QED
      BY <3>1, <3>2, <3>3 DEF ExitEvent
  <2>3. Past'
    BY <1>1, <2>1, <1>3
       DEF TypeOK, ExitEvent, PlannedExit, CrashRelaunched, TooManyCrashes, ResolveWaits,
           startWorker, calls, history, Safe, Only, Past, Survivors, Replaced, Restarting, Timers,
           Untold, Crashed,
           Ended, Active, Live, MasterRuns, Present, Ready, Workers
  <2>4. Restarting'
    BY <2>1
       DEF ExitEvent, PlannedExit, CrashRelaunched, TooManyCrashes, ResolveWaits,
           startWorker, calls, history, Safe, Replaced, Restarting, Active
  <2>5. Timers'
    BY <1>1, <2>1
       DEF ExitEvent, PlannedExit, CrashRelaunched, TooManyCrashes, ResolveWaits,
           startWorker, calls, history, Safe, Timers, TypeOK
  <2>6. Untold'
    BY <1>1, <2>1
       DEF ExitEvent, PlannedExit, CrashRelaunched, TooManyCrashes, ResolveWaits,
           startWorker, calls, history, Safe, Untold, Present, Ready, Past, Workers, TypeOK
  <2>7. Crashed'
    <3>1. CASE PlannedExit(w)
      BY <1>1, <2>1, <3>1 DEF history, TypeOK, ExitEvent, PlannedExit, Safe, Crashed
    <3>2. CASE CrashRelaunched(w) \/ TooManyCrashes(w)
      <4>1. ~isRestarting /\ master = "up" /\ proc[w] = "exited" /\ told' = told
            /\ relaunched' = relaunched \union {w}
        BY <3>2 DEF history, ExitEvent, CrashRelaunched, TooManyCrashes
      <4>2. w = currentWorker /\ w \notin told
        <5>1. w \notin survived
          BY <1>3, <4>1 DEF Undisturbed, ExitEvent
        <5> QED
          BY <2>1, <4>1, <5>1 DEF Safe, Only, Untold, Present, Ready
      <4>3. \A v \in relaunched \union {w} : v \in Workers /\ v <= currentWorker
        BY <1>1, <2>1, <4>2 DEF Safe, Past, TypeOK, Workers
      <4>4. \A v \in relaunched \union {w} : proc'[v] = "gone"
        BY <1>1, <2>1, <3>2, <4>3
           DEF Safe, Crashed, CrashRelaunched, TooManyCrashes, startWorker, TypeOK, Workers
      <4> QED
        BY <2>1, <4>1, <4>2, <4>4 DEF Safe, Crashed
    <3> QED
      BY <3>1, <3>2 DEF history, ExitEvent
  <2>8. Ended'
    <3>1. CASE TooManyCrashes(w)
      <4>1. w = currentWorker
        BY <1>3, <2>1, <3>1
           DEF ExitEvent, TooManyCrashes, Undisturbed, Safe, Only, Present
      <4> QED
        BY <1>1, <2>1, <3>1, <4>1
           DEF ExitEvent, TooManyCrashes, Safe, Only, Survivors, Present, Live, Ended, TypeOK
    <3>2. CASE PlannedExit(w) \/ CrashRelaunched(w)
      BY <3>2 DEF ExitEvent, PlannedExit, CrashRelaunched, Ended, MasterRuns
    <3> QED
      BY <3>1, <3>2 DEF ExitEvent
  <2>9. Survivors'
    BY <1>1, <2>1
       DEF Past, Workers, ExitEvent, PlannedExit, CrashRelaunched, TooManyCrashes, ResolveWaits,
           startWorker, calls, history, Safe, Survivors, TypeOK, Live
  <2> QED
    BY <2>2, <2>3, <2>4, <2>5, <2>6, <2>7, <2>8, <2>9 DEF Safe
<1>4. Replacing'
  BY <1>1
     DEF ExitEvent, PlannedExit, CrashRelaunched, TooManyCrashes, ResolveWaits, startWorker,
         calls, history, Replacing, Active, TypeOK
<1> QED
  BY <1>2, <1>3, <1>4 DEF IInv

\* The master is told to stop, and stops.
LEMMA ShutdownKeeps ==
    ASSUME IInv, Shutdown \/ ShutdownTimeout
    PROVE  IInv'
<1>1. TypeOK /\ Replacing /\ (Undisturbed => Safe)
  BY DEF IInv
<1>2. TypeOK'
  BY <1>1
     DEF TypeOK, Shutdown, ShutdownTimeout, PostToWorker, calls, history, Workers, MasterStates,
         ProcStates, CallStates
<1>3. ASSUME Undisturbed'
      PROVE  Safe'
  <2>1. Undisturbed /\ Safe
    BY <1>1, <1>3 DEF Undisturbed, calls, history, Shutdown, ShutdownTimeout, PostToWorker
  <2>2. Only'
    BY <2>1 DEF Shutdown, ShutdownTimeout, PostToWorker, calls, history, Safe, Only
  <2>3. Past'
    <3>1. told' \subseteq told \union {currentWorker} /\ relaunched' = relaunched
          /\ currentWorker' = currentWorker /\ currentWorker \in Nat
          /\ survived' = survived
      BY <1>1, <2>1 DEF history, TypeOK, Shutdown, ShutdownTimeout, PostToWorker, Workers
    <3> QED
      BY <1>1, <2>1, <3>1 DEF Safe, Past, TypeOK, Workers
  <2>4. Restarting'
    BY <2>1
       DEF Shutdown, ShutdownTimeout, PostToWorker, calls, history, Safe, Replaced, Restarting,
           Active, Ready
  <2>5. Timers'
    BY <2>1 DEF Shutdown, ShutdownTimeout, PostToWorker, calls, history, Safe, Timers
  <2>6. Untold'
    BY <2>1
       DEF Shutdown, ShutdownTimeout, PostToWorker, calls, history, Safe, Untold, Present, Ready
  <2>7. Crashed'
    BY <2>1 DEF Shutdown, ShutdownTimeout, PostToWorker, calls, history, Safe, Crashed, Live
  <2>8. Ended'
    BY <2>1
       DEF Survivors, Shutdown, ShutdownTimeout, PostToWorker, calls, history, Safe, Ended,
           MasterRuns, Live,
           Only, Present
  <2>9. Survivors'
    BY <1>1, <2>1
       DEF Shutdown, ShutdownTimeout, PostToWorker, calls, history, Safe, Survivors, TypeOK, Live
  <2> QED
    BY <2>2, <2>3, <2>4, <2>5, <2>6, <2>7, <2>8, <2>9 DEF Safe
<1>4. Replacing'
  BY <1>1
     DEF Shutdown, ShutdownTimeout, PostToWorker, calls, history, Replacing, Active, TypeOK
<1> QED
  BY <1>2, <1>3, <1>4 DEF IInv

-----------------------------------------------------------------------------
LEMMA InitIInv == Init => IInv
<1> SUFFICES ASSUME Init PROVE IInv
  OBVIOUS
<1>1. TypeOK
  <2>1. 1 \in Workers /\ 0 \in 0..MaxWorkers
    BY DEF Workers
  <2>2. proc \in [Workers -> ProcStates]
    BY DEF Init, ProcStates
  <2>3. /\ call \in [Calls -> CallStates]
        /\ old \in [Calls -> 0..MaxWorkers] /\ new \in [Calls -> 0..MaxWorkers]
    BY <2>1 DEF Init, CallStates
  <2>4. recentCrashes \in 0..(IF master = "gaveUp" THEN MAX_CRASHES_IN_WINDOW
                              ELSE MAX_CRASHES_IN_WINDOW - 1)
    BY DEF Init
  <2> QED
    BY <2>1, <2>2, <2>3, <2>4 DEF Init, TypeOK, MasterStates
<1>2. Safe
  BY DEF Init, Safe, Only, Past, Survivors, Replaced, Restarting, Timers, Untold, Crashed, Ended,
         Active, Live,
         MasterRuns, Present, Ready, Workers
<1>3. Replacing
  BY DEF Init, Replacing, Active
<1> QED
  BY <1>1, <1>2, <1>3 DEF IInv

LEMMA StepIInv == IInv /\ [Next]_vars => IInv'
<1> SUFFICES ASSUME IInv, [Next]_vars PROVE IInv'
  OBVIOUS
<1>1. CASE UNCHANGED vars
  BY <1>1
     DEF vars, calls, history, IInv, Replacing, Undisturbed, TypeOK, Safe, Only, Past, Survivors,
         Restarting, Timers, Untold, Crashed, Ended, Active, Live, MasterRuns
<1>2. CASE Supervise
  BY <1>2, SpawnedKeeps, CleanedUpKeeps, SpawnFailsKeeps, ExitEventKeeps, RestartKeeps,
     ExitTimeoutKeeps,
     KillTimeoutKeeps, StartReplacementKeeps, ShutdownKeeps DEF Supervise
<1> QED
  BY <1>1, <1>2, SendRestartKeeps, WorkerExitsKeeps, ShutdownKeeps DEF Next

THEOREM SupervisorIInv == Spec => []IInv
BY InitIInv, StepIInv, PTL DEF Spec

(* Every call of restartWorker, child and timer is in one of its states.    *)
(* The crashes counted stay below the limit until the master gives up.      *)
THEOREM SupervisorTypes == Spec => []TypeOK
BY SupervisorIInv, PTL DEF IInv

LEMMA OnlyIsOne == IInv => OneWorker
<1> SUFFICES ASSUME IInv, Undisturbed PROVE Cardinality(Live \ survived) <= 1
  BY DEF OneWorker
<1>1. Live \ survived \subseteq {currentWorker}
  BY DEF IInv, Safe, Only, Live, Present
<1>2. IsFiniteSet({currentWorker}) /\ Cardinality({currentWorker}) = 1
  BY FS_Singleton
<1>3. Cardinality(Live \ survived) <= Cardinality({currentWorker})
  BY <1>1, <1>2, FS_Subset
<1> QED
  BY <1>2, <1>3

(* Beside workers that a failed SIGKILL left running, two workers never run *)
(* side by side, whatever crashes, restarts, timeouts and relaunches follow *)
(* each other, until restartWorker is called while a restart is under way   *)
(* or such a survivor's exit is taken for a crash.                          *)
THEOREM AlwaysOneWorker == Spec => []OneWorker
BY SupervisorIInv, OnlyIsOne, PTL

LEMMA CrashesUnasked == IInv => PlannedExitIsNoCrash
BY DEF IInv, Safe, Crashed, PlannedExitIsNoCrash

(* An exit that a restart or a shutdown asked for is neither counted as a   *)
(* crash nor relaunched, not even when one of its timers fires late, until  *)
(* restarts overlap or a worker that a failed SIGKILL left running exits    *)
(* after its restart is over.                                               *)
THEOREM PlannedExitNeverCounts == Spec => []PlannedExitIsNoCrash
BY SupervisorIInv, CrashesUnasked, PTL

LEMMA EndedLeavesNone == IInv => NoOrphan
BY DEF IInv, Safe, Ended, NoOrphan

(* However the master ends, it leaves no worker that was not told to exit,  *)
(* not even one that a restart created after the shutdown began, unless     *)
(* restarts overlapped or a survivor's exit was taken for a crash.          *)
THEOREM NeverAnOrphan == Spec => []NoOrphan
BY SupervisorIInv, EndedLeavesNone, PTL

=============================================================================
