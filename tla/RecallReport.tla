---------------------------- MODULE RecallReport ----------------------------
(***************************************************************************)
(* What the recall reporter of napcat-onebot/index.ts promises, key by     *)
(* key: a message is reported by one attempt at a time, an attempt hands   *)
(* at most one event to the network manager, a message the reporter knows  *)
(* to be reported is not attempted again, and a failed attempt leaves it   *)
(* open to another one.  The memory is bounded, so a success may make the  *)
(* reporter forget other messages.  RecallEvents implements this.          *)
(***************************************************************************)
EXTENDS Integers

CONSTANT Keys

VARIABLES
    stage,  \* what the attempt at each key is doing
    known,  \* keys remembered as reported
    emits   \* events handed out so far, per key

vars == <<stage, known, emits>>

Init ==
    /\ stage = [k \in Keys |-> "idle"]
    /\ known = {}
    /\ emits = [k \in Keys |-> 0]

Begin(k) ==
    /\ stage[k] = "idle"
    /\ k \notin known
    /\ stage' = [stage EXCEPT ![k] = "building"]
    /\ UNCHANGED <<known, emits>>

Emit(k) ==
    /\ stage[k] = "building"
    /\ stage' = [stage EXCEPT ![k] = "emitting"]
    /\ emits' = [emits EXCEPT ![k] = @ + 1]
    /\ UNCHANGED known

Fail(k) ==
    /\ stage[k] \in {"building", "emitting"}
    /\ stage' = [stage EXCEPT ![k] = "idle"]
    /\ UNCHANGED <<known, emits>>

Succeed(k) ==
    /\ stage[k] = "emitting"
    /\ stage' = [stage EXCEPT ![k] = "idle"]
    /\ k \in known'
    /\ known' \subseteq known \union {k}
    /\ UNCHANGED emits

Next == \E k \in Keys : Begin(k) \/ Emit(k) \/ Fail(k) \/ Succeed(k)

Spec == Init /\ [][Next]_vars
=============================================================================
