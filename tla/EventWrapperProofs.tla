------------------------- MODULE EventWrapperProofs -------------------------
(* Safety of the calls that wait on a listener, for any number of calls,    *)
(* waits and notifications.                                                 *)
EXTENDS EventWrapper, TLAPS

\* An unsettled call has its timer, waits for more, and was not refused.
Unsettled(r) ==
    r.outcome = "pending" =>
        r.timer = "armed" /\ r.complete < r.wait /\ r.retEvent # "refused"

\* OutcomesExplained, of one call.
Explained(r) ==
    /\ r.outcome = "resolved" =>
         /\ r.settledWith.complete >= 1
         /\ r.settledWith.complete >= r.wait \/ r.timer = "fired"
         /\ r.settledWith.retEvent # "refused"
    /\ r.outcome = "timeout" => r.settledWith.complete = 0 /\ r.timer = "fired"
    /\ r.outcome = "refused" => r.settledWith.complete < r.wait

Sound(r) == r \in Call /\ Unsettled(r) /\ Explained(r)

IInv ==
    /\ TypeOK
    /\ \A c \in Calls : Sound(call[c])
    /\ \A c \in Calls : call[c].outcome = "pending" => c \in Registered \/ Expired(c)

-----------------------------------------------------------------------------
(* The closures keep a call sound.                                         *)

\* What settling does to a pending call.
LEMMA Settled ==
    ASSUME NEW r \in Call, r.outcome = "pending", NEW outcome \in Outcomes
    PROVE  LET u == Settle(r, outcome)
           IN  /\ u \in Call /\ u.outcome = outcome
               /\ u.wait = r.wait /\ u.timer = r.timer /\ u.time = r.time
               /\ u.settledWith.complete = r.complete
               /\ u.settledWith.retEvent = r.retEvent
<1> DEFINE w == [retEvent |-> r.retEvent, complete |-> r.complete]
<1>1. w \in [retEvent : Results, complete : Nat]
  BY DEF Call
<1>2. w.complete = r.complete /\ w.retEvent = r.retEvent
  OBVIOUS
<1>3. Settle(r, outcome) = [r EXCEPT !.outcome = outcome, !.settledWith = w]
  BY DEF Settle
<1> HIDE DEF w
<1> QED
  BY <1>1, <1>2, <1>3 DEF Call

\* A call that begins is sound, and so is one that was not made.
LEMMA StartedSound ==
    ASSUME NEW wait \in 1 .. MaxWait
    PROVE  Sound(Started(wait)) /\ Started(wait).native = "none" /\ Started(wait).time = "ahead"
<1> DEFINE s == Started(wait)
<1>1. MaxWait \in Nat
  BY MaxWaitAssumption
<1>2. /\ Fresh \in Call /\ Fresh.complete = 0 /\ Fresh.retEvent = "empty"
      /\ Fresh.native = "none" /\ Fresh.time = "ahead"
  BY <1>1 DEF Fresh, Call, Outcomes, Results
<1>3. wait \in 0 .. MaxWait /\ "pending" \in Outcomes
  BY <1>1 DEF Outcomes
<1>4. s = [Fresh EXCEPT !.outcome = "pending", !.wait = wait, !.timer = "armed"]
  BY DEF Started
<1> HIDE DEF s
<1>5. s \in Call
  BY <1>2, <1>3, <1>4 DEF Call
<1>6. /\ s.outcome = "pending" /\ s.wait = wait /\ s.timer = "armed"
      /\ s.complete = 0 /\ s.retEvent = "empty" /\ s.native = "none" /\ s.time = "ahead"
  BY <1>2, <1>4 DEF Call
<1>7. Sound(s) /\ s.native = "none" /\ s.time = "ahead"
  BY <1>1, <1>5, <1>6 DEF Sound, Unsettled, Explained
<1> QED
  BY <1>7 DEF s

LEMMA FreshSound == Sound(Fresh)
<1>1. MaxWait \in Nat
  BY MaxWaitAssumption
<1> QED
  BY <1>1 DEF Fresh, Sound, Unsettled, Explained, Call, Outcomes, Results

\* Settling as failed.
LEMMA FailedSound ==
    ASSUME NEW r, Sound(r)
    PROVE  /\ Sound(Settle(r, "failed"))
           /\ Settle(r, "failed").outcome # "pending"
<1>1. "failed" \in Outcomes /\ r \in Call
  BY DEF Sound, Outcomes
<1>2. CASE r.outcome = "pending"
  BY <1>1, <1>2, Settled DEF Sound, Unsettled, Explained
<1>3. CASE r.outcome # "pending"
  BY <1>3 DEF Settle
<1> QED
  BY <1>2, <1>3

\* The native function has ended.
LEMMA EndedSound ==
    ASSUME NEW r, Sound(r)
    PROVE  Sound([r EXCEPT !.native = "ended"])
BY DEF Sound, Unsettled, Explained, Call, Outcomes, Results

\* A matching notification.
LEMMA FuncSound ==
    ASSUME NEW r, Sound(r)
    PROVE  Sound(func(r)) /\ func(r).time = r.time
                          /\ (func(r).outcome = "pending" => r.outcome = "pending")
<1>1. r \in Call /\ Unsettled(r) /\ Explained(r)
  BY DEF Sound
<1>2. r.complete \in Nat /\ r.wait \in Nat
  BY <1>1 DEF Call
<1> DEFINE s == [r EXCEPT !.complete = @ + 1]
<1>3. /\ s \in Call /\ s.complete = r.complete + 1 /\ s.outcome = r.outcome
      /\ s.wait = r.wait /\ s.timer = r.timer /\ s.retEvent = r.retEvent /\ s.time = r.time
      /\ s.settledWith = r.settledWith
  BY <1>1, <1>2 DEF Call
<1>4. func(r) = IF s.complete >= s.wait THEN sendDataCallback(ClearTimeout(s)) ELSE s
  BY DEF func
<1> HIDE DEF s
<1>5. CASE s.complete >= s.wait
  <2> DEFINE t == ClearTimeout(s)
  <2>1. /\ t \in Call /\ t.complete = s.complete /\ t.outcome = s.outcome
        /\ t.wait = s.wait /\ t.retEvent = s.retEvent /\ t.time = s.time
        /\ t.settledWith = s.settledWith
        /\ s.timer = "fired" => t.timer = "fired"
    BY <1>3 DEF ClearTimeout, Call
  <2>2. func(r) = Settle(t, "resolved")
    BY <1>2, <1>3, <1>4, <1>5, <2>1 DEF sendDataCallback
  <2> HIDE DEF t
  <2>3. CASE t.outcome = "pending"
    <3>1. "resolved" \in Outcomes
      BY DEF Outcomes
    <3>2. /\ func(r) \in Call /\ func(r).outcome = "resolved" /\ func(r).time = t.time
          /\ func(r).settledWith.complete = t.complete
          /\ func(r).settledWith.retEvent = t.retEvent
          /\ func(r).wait = t.wait
      BY <3>1, <2>1, <2>2, <2>3, Settled
    <3> DEFINE u == func(r)
    <3>3. u.settledWith.complete >= 1 /\ u.settledWith.complete >= u.wait
      BY <3>2, <2>1, <1>2, <1>3, <1>5
    <3>4. u.settledWith.retEvent # "refused" /\ u.time = r.time
      BY <3>2, <2>1, <2>3, <1>1, <1>3 DEF Unsettled
    <3>5. u \in Call /\ u.outcome = "resolved" /\ r.outcome = "pending"
      BY <3>2, <2>1, <2>3, <1>3
    <3> HIDE DEF u
    <3>6. Sound(u)
      BY <3>3, <3>4, <3>5 DEF Sound, Unsettled, Explained
    <3> QED
      BY <3>4, <3>5, <3>6 DEF u
  <2>4. CASE t.outcome # "pending"
    <3>1. func(r) = t
      BY <2>2, <2>4 DEF Settle
    <3> QED
      BY <3>1, <2>1, <2>4, <1>1, <1>3 DEF Sound, Unsettled, Explained
  <2> QED
    BY <2>3, <2>4
<1>6. CASE ~(s.complete >= s.wait)
  <2>1. func(r) = s
    BY <1>4, <1>6
  <2> QED
    BY <2>1, <1>1, <1>2, <1>3, <1>6 DEF Sound, Unsettled, Explained
<1> QED
  BY <1>5, <1>6

\* The result of the native function.
LEMMA RetSound ==
    ASSUME NEW r, Sound(r), NEW verdict \in Verdicts
    PROVE  Sound(eventRetHandle(r, verdict)) /\ eventRetHandle(r, verdict).time = r.time
           /\ (eventRetHandle(r, verdict).outcome = "pending" => r.outcome = "pending")
<1>1. r \in Call /\ Unsettled(r) /\ Explained(r)
  BY DEF Sound
<1> DEFINE s == [r EXCEPT !.native = "ended",
                          !.retEvent = IF verdict = "accepted" THEN "accepted" ELSE "refused"]
<1>2. /\ s \in Call /\ s.complete = r.complete /\ s.outcome = r.outcome
      /\ s.wait = r.wait /\ s.timer = r.timer /\ s.time = r.time
      /\ s.settledWith = r.settledWith
      /\ s.retEvent = IF verdict = "accepted" THEN "accepted" ELSE "refused"
  BY <1>1 DEF Call, Results
<1>3. verdict = "accepted" => eventRetHandle(r, verdict) = s
  BY DEF eventRetHandle
<1>4. verdict = "refused" => eventRetHandle(r, verdict) = Settle(ClearTimeout(s), "refused")
  BY DEF eventRetHandle
<1>5. verdict = "throws" => eventRetHandle(r, verdict) = Settle(s, "failed")
  BY DEF eventRetHandle
<1> HIDE DEF s
<1>6. CASE verdict = "accepted"
  BY <1>1, <1>2, <1>3, <1>6 DEF Sound, Unsettled, Explained
<1>7. CASE verdict = "refused"
  <2> DEFINE t == ClearTimeout(s)
  <2>1. /\ t \in Call /\ t.complete = s.complete /\ t.outcome = s.outcome
        /\ t.wait = s.wait /\ t.time = s.time
        /\ t.settledWith = s.settledWith /\ t.retEvent = s.retEvent
        /\ s.timer = "fired" => t.timer = "fired"
    BY <1>2 DEF ClearTimeout, Call
  <2> HIDE DEF t
  <2>2. CASE t.outcome = "pending"
    <3> DEFINE u == Settle(t, "refused")
    <3>1. "refused" \in Outcomes
      BY DEF Outcomes
    <3>2. /\ u \in Call /\ u.outcome = "refused" /\ u.time = t.time
          /\ u.settledWith.complete = t.complete /\ u.wait = t.wait
      BY <3>1, <2>1, <2>2, Settled
    <3>3. eventRetHandle(r, verdict) = u
      BY <1>4, <1>7 DEF t
    <3> HIDE DEF u
    <3> QED
      BY <3>2, <3>3, <2>1, <2>2, <1>1, <1>2 DEF Sound, Unsettled, Explained
  <2>3. CASE t.outcome # "pending"
    <3>1. eventRetHandle(r, verdict) = t
      BY <1>4, <1>7, <2>3 DEF Settle, t
    <3> QED
      BY <3>1, <2>1, <2>3, <1>1, <1>2 DEF Sound, Unsettled, Explained
  <2> QED
    BY <2>2, <2>3
<1>8. CASE verdict = "throws"
  <2>1. CASE s.outcome = "pending"
    <3> DEFINE u == Settle(s, "failed")
    <3>1. "failed" \in Outcomes
      BY DEF Outcomes
    <3>2. u \in Call /\ u.outcome = "failed" /\ u.time = s.time
      BY <3>1, <1>2, <2>1, Settled
    <3>3. eventRetHandle(r, verdict) = u
      BY <1>5, <1>8
    <3> HIDE DEF u
    <3> QED
      BY <3>2, <3>3, <1>2 DEF Sound, Unsettled, Explained
  <2>2. CASE s.outcome # "pending"
    <3>1. eventRetHandle(r, verdict) = s
      BY <1>5, <1>8, <2>2 DEF Settle
    <3> QED
      BY <3>1, <2>2, <1>1, <1>2 DEF Sound, Unsettled, Explained
  <2> QED
    BY <2>1, <2>2
<1> QED
  BY <1>6, <1>7, <1>8 DEF Verdicts

\* The timer.
LEMMA TimeoutSound ==
    ASSUME NEW r, Sound(r), r.timer = "armed"
    PROVE  /\ Sound(sendDataCallback([r EXCEPT !.timer = "fired"]))
           /\ sendDataCallback([r EXCEPT !.timer = "fired"]).outcome # "pending"
           /\ sendDataCallback([r EXCEPT !.timer = "fired"]).time = r.time
<1>1. r \in Call /\ Unsettled(r) /\ Explained(r)
  BY DEF Sound
<1> DEFINE s == [r EXCEPT !.timer = "fired"]
           u == sendDataCallback(s)
<1>2. /\ s \in Call /\ s.complete = r.complete /\ s.outcome = r.outcome
      /\ s.wait = r.wait /\ s.timer = "fired" /\ s.time = r.time
      /\ s.settledWith = r.settledWith /\ s.retEvent = r.retEvent /\ r.complete \in Nat
  BY <1>1 DEF Call
<1> HIDE DEF s
<1>3. CASE s.outcome = "pending"
  <2> DEFINE o == IF s.complete = 0 THEN "timeout" ELSE "resolved"
  <2>1. u = Settle(s, o) /\ o \in Outcomes
    BY DEF sendDataCallback, Outcomes
  <2>2. /\ u \in Call /\ u.time = s.time /\ u.timer = "fired" /\ u.wait = s.wait
        /\ u.outcome = IF s.complete = 0 THEN "timeout" ELSE "resolved"
        /\ u.settledWith.complete = s.complete /\ u.settledWith.retEvent = s.retEvent
    BY <2>1, <1>2, <1>3, Settled
  <2> HIDE DEF u
  <2>3. Sound(u) /\ u.outcome # "pending" /\ u.time = r.time
    BY <2>2, <1>1, <1>2, <1>3 DEF Sound, Unsettled, Explained
  <2> QED
    BY <2>3 DEF u, s
<1>4. CASE s.outcome # "pending"
  <2>1. u = s
    BY <1>4 DEF sendDataCallback, Settle
  <2> HIDE DEF u
  <2>2. Sound(u) /\ u.outcome # "pending" /\ u.time = r.time
    BY <2>1, <1>1, <1>2, <1>4 DEF Sound, Unsettled, Explained
  <2> QED
    BY <2>2 DEF u, s
<1> QED
  BY <1>3, <1>4

-----------------------------------------------------------------------------
LEMMA InitIInv == Init => IInv
<1> SUFFICES ASSUME Init PROVE IInv
  OBVIOUS
<1>1. \A c \in Calls : Sound(call[c]) /\ call[c].outcome = "fresh"
  BY FreshSound DEF Init, Fresh
<1>2. TypeOK
  <2>1. call \in [Calls -> Call]
    BY FreshSound DEF Init, Sound
  <2>2. EventTask \in [Calls -> 0 .. entered] /\ entered \in Nat /\ Registered = {}
    BY DEF Init, Registered
  <2> QED
    BY <2>1, <2>2 DEF Init, TypeOK
<1> QED
  BY <1>1, <1>2 DEF IInv

\* The call c turns into the record r, and the entries stay as they are.
LEMMA CallChanges ==
    ASSUME IInv, NEW c \in Calls, NEW r, Sound(r),
           call' = [call EXCEPT ![c] = r],
           r.outcome = "pending" => call[c].outcome = "pending",
           r.time = call[c].time \/ r.time = "passed" \/ call[c].time # "passed",
           UNCHANGED <<EventTask, entered, listening, notified>>
    PROVE  IInv'
<1>1. TypeOK'
  BY DEF IInv, TypeOK, Sound, Registered
<1>2. \A d \in Calls : call'[d] = IF d = c THEN r ELSE call[d]
  BY DEF IInv, TypeOK
<1>3. \A d \in Calls : Sound(call'[d])
  BY <1>2 DEF IInv
<1>4. \A d \in Calls : call'[d].outcome = "pending" => d \in Registered' \/ Expired(d)'
  BY <1>2 DEF IInv, Registered, Expired
<1> QED
  BY <1>1, <1>3, <1>4 DEF IInv

\* A call begins as the record r.
LEMMA CallBegins ==
    ASSUME IInv, NEW c \in Calls, NEW r, Sound(r), Enter(c), listening' \in BOOLEAN,
           call' = [call EXCEPT ![c] = r]
    PROVE  IInv'
<1>1. /\ entered' = entered + 1 /\ entered' \in Nat /\ entered \in Nat
      /\ \A d \in Calls : EventTask'[d] = IF d = c THEN entered + 1 ELSE EventTask[d]
      /\ \A d \in Calls : EventTask[d] \in 0 .. entered
      /\ EventTask' \in [Calls -> 0 .. entered']
  BY DEF IInv, TypeOK, Enter
<1>2. \A d \in Calls : call'[d] = IF d = c THEN r ELSE call[d]
  BY DEF IInv, TypeOK
<1>3. TypeOK'
  <2>1. call' \in [Calls -> Call] /\ notified' \in Nat
    BY DEF IInv, TypeOK, Sound, Enter
  <2>2. \A d, f \in Registered' : EventTask'[d] = EventTask'[f] => d = f
    BY <1>1 DEF IInv, TypeOK, Registered
  <2> QED
    BY <1>1, <2>1, <2>2 DEF TypeOK
<1>4. \A d \in Calls : Sound(call'[d])
  BY <1>2 DEF IInv
<1>5. \A d \in Calls : call'[d].outcome = "pending" => d \in Registered' \/ Expired(d)'
  BY <1>1, <1>2 DEF IInv, Registered, Expired
<1> QED
  BY <1>3, <1>4, <1>5 DEF IInv

\* A notification.
LEMMA DispatchIInv ==
    ASSUME IInv, NEW says \in [Calls -> {"matches", "differs", "throws"}],
           dispatcherListener(says)
    PROVE  IInv'
<1>1. /\ \A d \in Calls : EventTask'[d] = IF d \in Swept(says) THEN 0 ELSE EventTask[d]
      /\ EventTask' \in [Calls -> 0 .. entered'] /\ entered' = entered
      /\ notified' \in Nat
  BY DEF IInv, TypeOK, dispatcherListener
<1>2. \A d \in Calls : call'[d] = IF d \in Fed(says) THEN func(call[d]) ELSE call[d]
  BY DEF dispatcherListener
<1>3. \A d \in Calls : /\ Sound(call'[d]) /\ call'[d].time = call[d].time
                       /\ call'[d].outcome = "pending" => call[d].outcome = "pending"
  BY <1>2, FuncSound DEF IInv
<1>4. TypeOK'
  <2>1. call' \in [Calls -> Call]
    BY <1>3 DEF dispatcherListener, Sound
  <2>2. \A d, f \in Registered' : EventTask'[d] = EventTask'[f] => d = f
    BY <1>1 DEF IInv, TypeOK, Registered
  <2> QED
    BY <1>1, <2>1, <2>2 DEF TypeOK, IInv, dispatcherListener
<1>5. \A d \in Calls : call'[d].outcome = "pending" => d \in Registered' \/ Expired(d)'
  BY <1>1, <1>3 DEF IInv, Registered, Expired, Swept
<1> QED
  BY <1>3, <1>4, <1>5 DEF IInv

LEMMA NextIInv == IInv /\ [Next]_vars => IInv'
<1> SUFFICES ASSUME IInv, [Next]_vars PROVE IInv'
  OBVIOUS
<1>1. \A c \in Calls : Sound(call[c])
  BY DEF IInv
<1>2. listening \in BOOLEAN
  BY DEF IInv, TypeOK
<1>3. ASSUME NEW c \in Calls, NEW wait \in 1 .. MaxWait, NEW listens \in BOOLEAN,
             CallThrows(c, wait, listens)
      PROVE  IInv'
  <2>1. Sound(Settle(Started(wait), "failed"))
    BY StartedSound, FailedSound
  <2> QED
    BY <1>2, <1>3, <2>1, CallBegins DEF CallThrows
<1>4. ASSUME NEW c \in Calls, NEW wait \in 1 .. MaxWait, NEW verdict \in Verdicts,
             CallReturnsValue(c, wait, verdict)
      PROVE  IInv'
  <2>1. Sound(eventRetHandle(Started(wait), verdict))
    BY StartedSound, RetSound
  <2> QED
    BY <1>4, <2>1, CallBegins DEF CallReturnsValue
<1>5. ASSUME NEW c \in Calls, NEW wait \in 1 .. MaxWait, CallReturnsPromise(c, wait)
      PROVE  IInv'
  <2>1. Sound([Started(wait) EXCEPT !.native = "awaited"])
    BY StartedSound DEF Sound, Unsettled, Explained, Call
  <2> QED
    BY <1>5, <2>1, CallBegins DEF CallReturnsPromise
<1>6. ASSUME NEW c \in Calls, NEW wait \in 1 .. MaxWait, registerListen(c, wait)
      PROVE  IInv'
  BY <1>6, StartedSound, CallBegins DEF registerListen
<1>7. ASSUME NEW c \in Calls, NEW verdict \in Verdicts, PromiseResolves(c, verdict)
      PROVE  IInv'
  <2> DEFINE r == eventRetHandle(call[c], verdict)
  <2>1. /\ Sound(r) /\ r.time = call[c].time
        /\ r.outcome = "pending" => call[c].outcome = "pending"
    BY <1>1, RetSound
  <2>2. call' = [call EXCEPT ![c] = r] /\ UNCHANGED <<EventTask, entered, listening, notified>>
    BY <1>7 DEF PromiseResolves
  <2> HIDE DEF r
  <2> QED
    BY <2>1, <2>2, CallChanges
<1>8. ASSUME NEW c \in Calls, PromiseRejects(c)
      PROVE  IInv'
  <2> DEFINE s == [call[c] EXCEPT !.native = "ended"]
             r == Settle(s, "failed")
  <2>1. Sound(s) /\ s.time = call[c].time
    BY <1>1, EndedSound DEF Sound, Call
  <2>2. Sound(r) /\ r.outcome # "pending" /\ r.time = s.time
    BY <2>1, FailedSound DEF Settle, Sound, Call
  <2>3. call' = [call EXCEPT ![c] = r] /\ UNCHANGED <<EventTask, entered, listening, notified>>
    BY <1>8 DEF PromiseRejects
  <2> HIDE DEF r
  <2> QED
    BY <2>1, <2>2, <2>3, CallChanges
<1>9. ASSUME NEW c \in Calls, Tick(c)
      PROVE  IInv'
  <2> DEFINE r == [call[c] EXCEPT !.time = IF call[c].time = "ahead" THEN "reached" ELSE "passed"]
  <2>1. Sound(r) /\ r.outcome = call[c].outcome /\ call[c].time # "passed"
    BY <1>1, <1>9 DEF Tick, Sound, Unsettled, Explained, Call
  <2>2. call' = [call EXCEPT ![c] = r] /\ UNCHANGED <<EventTask, entered, listening, notified>>
    BY <1>9 DEF Tick
  <2> HIDE DEF r
  <2> QED
    BY <2>1, <2>2, CallChanges
<1>10. ASSUME NEW c \in Calls, Timeout(c)
       PROVE  IInv'
  <2> DEFINE r == sendDataCallback([call[c] EXCEPT !.timer = "fired"])
  <2>1. Sound(r) /\ r.outcome # "pending" /\ r.time = call[c].time
    BY <1>1, <1>10, TimeoutSound DEF Timeout
  <2>2. call' = [call EXCEPT ![c] = r] /\ UNCHANGED <<EventTask, entered, listening, notified>>
    BY <1>10 DEF Timeout
  <2> HIDE DEF r
  <2> QED
    BY <2>1, <2>2, CallChanges
<1>11. ASSUME UNCHANGED vars PROVE IInv'
  BY <1>11 DEF vars, IInv, TypeOK, Registered, Expired, Sound, Unsettled, Explained
<1> QED
  BY <1>3, <1>4, <1>5, <1>6, <1>7, <1>8, <1>9, <1>10, <1>11, DispatchIInv DEF Next

LEMMA AlwaysIInv == Spec => []IInv
BY InitIInv, NextIInv, PTL DEF Spec

-----------------------------------------------------------------------------
(* Types, and that EventTask is a Map: no two entries share a place.       *)
THEOREM WrapperTypes == Spec => []TypeOK
<1>1. IInv => TypeOK
  BY DEF IInv
<1> QED
  BY <1>1, AlwaysIInv, PTL

(* No caller of callNormalEventV2 or registerListen is left without its    *)
(* timer, and none is missed by a notification before its time has passed. *)
THEOREM PendingAlwaysServed == Spec => []PendingIsServed
<1>1. IInv => PendingIsServed
  BY DEF IInv, PendingIsServed, Sound, Unsettled
<1> QED
  BY <1>1, AlwaysIInv, PTL

(* Every way a call can settle is explained by what arrived before: enough *)
(* notifications, the timer, or a refused result.                          *)
THEOREM OutcomesAlwaysExplained == Spec => []OutcomesExplained
<1>1. IInv => OutcomesExplained
  BY DEF IInv, OutcomesExplained, Sound, Explained
<1> QED
  BY <1>1, AlwaysIInv, PTL
=============================================================================
