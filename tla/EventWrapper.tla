---------------------------- MODULE EventWrapper ----------------------------
(***************************************************************************)
(* Native calls that are answered through a listener: NTEventWrapper in    *)
(* napcat-core/helper/event.ts, for the calls that wait on one listener    *)
(* method.                                                                 *)
(*                                                                         *)
(* Three things race for each call: the return of the native function (a   *)
(* value, or a promise), the notifications of the kernel, and the timer.   *)
(* The Promise of the call is settled by whichever comes first; what comes *)
(* later still runs and changes the closure's variables.                   *)
(*                                                                         *)
(* Values are abstracted to what the callers' checkers say of them.        *)
(***************************************************************************)
EXTENDS Integers

CONSTANTS
    Calls,
    MaxWait,          \* bound: the largest callbackTimesToWait
    MaxNotifications  \* bound: notifications the kernel sends

ASSUME MaxWaitAssumption == MaxWait \in Nat \ {0}
ASSUME MaxNotificationsAssumption == MaxNotifications \in Nat

VARIABLES
    call,       \* call -> its closure's variables and its Promise
    EventTask,  \* call -> the place of its entry in the Map's order, or 0
    entered,    \* entries registered so far
    listening,  \* the proxy is registered with the kernel
    notified    \* notifications so far

vars == <<call, EventTask, entered, listening, notified>>

Outcomes == {"fresh", "pending", "resolved", "timeout", "refused", "failed"}

\* What checkerEvent says of the native function's result; empty is the
\* initial {} of retEvent.
Results == {"empty", "accepted", "refused"}

\* time: createtime + timeout is ahead, reached, or passed.
\* settledWith: retEvent and complete when the Promise was settled.
Call == [outcome : Outcomes, wait : 0 .. MaxWait, complete : Nat, retEvent : Results,
         timer : {"unset", "armed", "cleared", "fired"},
         time : {"ahead", "reached", "passed"},
         native : {"none", "awaited", "ended"},
         settledWith : [retEvent : Results, complete : Nat]]

Fresh == [outcome |-> "fresh", wait |-> 0, complete |-> 0, retEvent |-> "empty",
          timer |-> "unset", time |-> "ahead", native |-> "none",
          settledWith |-> [retEvent |-> "empty", complete |-> 0]]

Init ==
    /\ call = [c \in Calls |-> Fresh]
    /\ EventTask = [c \in Calls |-> 0]
    /\ entered = 0
    /\ listening = FALSE
    /\ notified = 0

-----------------------------------------------------------------------------
(* The closures, as functions of the call's record. *)

\* resolve and reject: only the first has an effect.
Settle(r, outcome) ==
    IF r.outcome = "pending"
    THEN [r EXCEPT !.outcome = outcome,
                   !.settledWith = [retEvent |-> r.retEvent, complete |-> r.complete]]
    ELSE r

ClearTimeout(r) == IF r.timer = "armed" THEN [r EXCEPT !.timer = "cleared"] ELSE r

sendDataCallback(r) == Settle(r, IF r.complete = 0 THEN "timeout" ELSE "resolved")

\* Mutant: the first notification stops the clock for all of them.
funcClearsFirst(r) ==
    LET s == ClearTimeout([r EXCEPT !.complete = @ + 1])
    IN  IF s.complete >= s.wait THEN sendDataCallback(s) ELSE s

\* func of the entry: one more matching notification.
func(r) ==
    LET s == [r EXCEPT !.complete = @ + 1]
    IN  IF s.complete >= s.wait THEN sendDataCallback(ClearTimeout(s)) ELSE s

\* Mutant: a refused result is kept but does not end the call.
eventRetHandleKeeps(r, verdict) ==
    [r EXCEPT !.native = "ended",
              !.retEvent = IF verdict = "accepted" THEN "accepted" ELSE "refused"]

\* eventRetHandle on a returned value: checkerEvent accepts it, refuses it, or
\* throws; a throw rejects too, but leaves the timer running.
eventRetHandle(r, verdict) ==
    LET s == [r EXCEPT !.native = "ended",
                       !.retEvent = IF verdict = "accepted" THEN "accepted" ELSE "refused"]
    IN  CASE verdict = "accepted" -> s
          [] verdict = "refused" -> Settle(ClearTimeout(s), "refused")
          [] verdict = "throws" -> Settle(s, "failed")

Verdicts == {"accepted", "refused", "throws"}

\* The executor up to the native call: timer and entry are there already.
Started(wait) == [Fresh EXCEPT !.outcome = "pending", !.wait = wait, !.timer = "armed"]

\* A new entry, under a new id, at the end of the Map.
Enter(c) ==
    /\ call[c].outcome = "fresh"
    /\ entered' = entered + 1
    /\ EventTask' = [EventTask EXCEPT ![c] = entered + 1]
    /\ UNCHANGED notified

-----------------------------------------------------------------------------
(* callNormalEventV2. *)

\* The service does not exist or throws, in addKernel...Listener (the proxy
\* stays unregistered) or in the call itself.
CallThrows(c, wait, listens) ==
    /\ Enter(c)
    /\ listening' = (listening \/ listens)
    /\ call' = [call EXCEPT ![c] = Settle(Started(wait), "failed")]

CallReturnsValue(c, wait, verdict) ==
    /\ Enter(c)
    /\ listening' = TRUE
    /\ call' = [call EXCEPT ![c] = eventRetHandle(Started(wait), verdict)]

CallReturnsPromise(c, wait) ==
    /\ Enter(c)
    /\ listening' = TRUE
    /\ call' = [call EXCEPT ![c] = [Started(wait) EXCEPT !.native = "awaited"]]

PromiseResolves(c, verdict) ==
    /\ call[c].native = "awaited"
    /\ call' = [call EXCEPT ![c] = eventRetHandle(@, verdict)]
    /\ UNCHANGED <<EventTask, entered, listening, notified>>

PromiseRejects(c) ==
    /\ call[c].native = "awaited"
    /\ call' = [call EXCEPT ![c] = Settle([@ EXCEPT !.native = "ended"], "failed")]
    /\ UNCHANGED <<EventTask, entered, listening, notified>>

\* registerListen: the same closure without a native call.
registerListen(c, wait) ==
    /\ Enter(c)
    /\ listening' = TRUE
    /\ call' = [call EXCEPT ![c] = Started(wait)]

-----------------------------------------------------------------------------
(* Time. *)

Tick(c) ==
    /\ call[c].outcome # "fresh"
    /\ call[c].time # "passed"
    /\ call' = [call EXCEPT ![c].time = IF @ = "ahead" THEN "reached" ELSE "passed"]
    /\ UNCHANGED <<EventTask, entered, listening, notified>>

Timeout(c) ==
    /\ call[c].timer = "armed"
    /\ call[c].time # "ahead"
    /\ call' = [call EXCEPT ![c] = sendDataCallback([@ EXCEPT !.timer = "fired"])]
    /\ UNCHANGED <<EventTask, entered, listening, notified>>

-----------------------------------------------------------------------------
(* dispatcherListener: one notification, with what each entry's checker     *)
(* says of it.  A checker that throws ends the loop.                        *)

Expired(c) == call[c].time = "passed"

Registered == {c \in Calls : EventTask[c] > 0}

\* The entries the loop comes to.
Visited(says) ==
    {c \in Registered : ~ \E d \in Registered :
        EventTask[d] < EventTask[c] /\ says[d] = "throws" /\ ~Expired(d)}

\* Mutant: an entry goes as soon as its time is reached.
SweptEarly(says) == {c \in Visited(says) : call[c].time # "ahead"}

Swept(says) == {c \in Visited(says) : Expired(c)}

Fed(says) == {c \in Visited(says) : says[c] = "matches" /\ ~Expired(c)}

dispatcherListener(says) ==
    /\ listening
    /\ notified < MaxNotifications
    /\ notified' = notified + 1
    /\ EventTask' = [c \in Calls |-> IF c \in Swept(says) THEN 0 ELSE EventTask[c]]
    /\ call' = [c \in Calls |-> IF c \in Fed(says) THEN func(call[c]) ELSE call[c]]
    /\ UNCHANGED <<entered, listening>>

Next ==
    \/ \E c \in Calls, wait \in 1 .. MaxWait :
          \/ \E listens \in BOOLEAN : CallThrows(c, wait, listens)
          \/ \E verdict \in Verdicts : CallReturnsValue(c, wait, verdict)
          \/ CallReturnsPromise(c, wait)
          \/ registerListen(c, wait)
    \/ \E c \in Calls :
          \/ \E verdict \in Verdicts : PromiseResolves(c, verdict)
          \/ PromiseRejects(c)
          \/ Tick(c)
          \/ Timeout(c)
    \/ \E says \in [Calls -> {"matches", "differs", "throws"}] : dispatcherListener(says)

Spec == Init /\ [][Next]_vars

\* Time passes, and Node runs a timer that is due.
FairSpec == Spec /\ \A c \in Calls : WF_vars(Tick(c)) /\ WF_vars(Timeout(c))

-----------------------------------------------------------------------------
(* Properties. *)

\* Types; the places are those of a Map.
TypeOK ==
    /\ call \in [Calls -> Call]
    /\ entered \in Nat
    /\ EventTask \in [Calls -> 0 .. entered]
    /\ \A c, d \in Registered : EventTask[c] = EventTask[d] => c = d
    /\ listening \in BOOLEAN
    /\ notified \in Nat

\* A call that is not settled has its timer running, and its entry stays
\* registered until its time has passed, whatever other calls, notifications
\* and throwing checkers do: no caller can be left to wait for ever, and no
\* notification can miss it.
PendingIsServed ==
    \A c \in Calls : call[c].outcome = "pending" =>
        /\ call[c].timer = "armed"
        /\ c \in Registered \/ Expired(c)

\* A call resolves with at least one notification, with as many as it asked
\* for unless its time was up, and never with a result its checkerEvent
\* refused; it times out only when nothing was notified.
OutcomesExplained ==
    \A c \in Calls :
        LET r == call[c]
            s == r.settledWith
        IN  /\ r.outcome = "resolved" =>
                 /\ s.complete >= 1
                 /\ s.complete >= r.wait \/ r.timer = "fired"
                 /\ s.retEvent # "refused"
            /\ r.outcome = "timeout" => s.complete = 0 /\ r.timer = "fired"
            /\ r.outcome = "refused" => s.complete < r.wait

\* Every call settles, also when neither the native function nor the kernel
\* ever answers.
EveryCallSettles == \A c \in Calls : call[c].outcome = "pending" ~> call[c].outcome # "pending"
=============================================================================
