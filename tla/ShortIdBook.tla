----------------------------- MODULE ShortIdBook -----------------------------
(***************************************************************************)
(* What napcat-common/src/message-unique.ts promises about the numeric ids *)
(* it gives out: a first-in first-out book of at most Capacity messages,   *)
(* no two of them with the same short id, that forgets everything when a   *)
(* new message collides with a remembered one.  The data table of          *)
(* MessageUnique, two maps kept in step, implements it.                    *)
(***************************************************************************)
EXTENDS Integers, Sequences, SequencesExt

CONSTANTS
    Messages,  \* a message id with its conversation
    ShortId,   \* message -> its short id
    Capacity

VARIABLE book  \* the remembered messages, oldest first

Init == book = <<>>

Known(m) == m \in ToSet(book)
Clashes(m) == \E o \in ToSet(book) : o # m /\ ShortId[o] = ShortId[m]

\* Known messages keep their place: they are not refreshed.
Again(m) ==
    /\ Known(m)
    /\ UNCHANGED book

Learn(m) ==
    /\ ~Known(m) /\ ~Clashes(m)
    /\ book' = IF Len(book) < Capacity THEN Append(book, m) ELSE Append(Tail(book), m)

Forget(m) ==
    /\ ~Known(m) /\ Clashes(m)
    /\ book' = <<>>

Next == \E m \in Messages : Again(m) \/ Learn(m) \/ Forget(m)

Spec == Init /\ [][Next]_book
=============================================================================
