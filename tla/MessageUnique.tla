---------------------------- MODULE MessageUnique ----------------------------
(***************************************************************************)
(* Short message ids: packages/napcat-common/src/message-unique.ts.        *)
(*                                                                         *)
(* OneBot clients name a message by a 31-bit hash of msgId, chat type and  *)
(* peer; two bounded two-way tables lead back from it.  Both maps of a     *)
(* table must stay inverse of each other through hash collisions, repeated *)
(* registrations and evictions.                                            *)
(*                                                                         *)
(* A JS Map is its entries in insertion order: re-setting a key keeps its  *)
(* place.  Only the order of keyToValue is ever looked at.                 *)
(***************************************************************************)
EXTENDS Integers, Sequences, FiniteSets, SequencesExt

CONSTANTS
    MsgIds,
    Peers,     \* chat type and peer uid
    ShortIds,
    Hash,      \* [MsgIds \X Peers -> ShortIds], the truncated MD5
    maxMap,    \* capacity of both tables
    undefined

Messages == MsgIds \X Peers

ASSUME HashAssumption == Hash \in [Messages -> ShortIds]
ASSUME MaxMapAssumption == maxMap \in Nat \ {0}
ASSUME UndefinedAssumption == undefined \notin ShortIds \union MsgIds \union Messages

VARIABLES
    msgIdMap,    \* table from msgIds to short ids
    msgDataMap,  \* table from messages to short ids
    created      \* history: the last message an id was made for, or undefined

vars == <<msgIdMap, msgDataMap, created>>

-----------------------------------------------------------------------------
(* LimitedHashTable.                                                       *)

EmptyTable == [keys |-> <<>>, keyToValue |-> <<>>, valueToKey |-> <<>>]

MapSet(f, x, y) == [z \in DOMAIN f \union {x} |-> IF z = x THEN y ELSE f[z]]

\* keyToValue.size and valueToKey.size
KeySize(t) == Len(t.keys)
ValueSize(t) == Cardinality(DOMAIN t.valueToKey)

Put(t, k, v) ==
    [keys |-> IF k \in DOMAIN t.keyToValue THEN t.keys ELSE Append(t.keys, k),
     keyToValue |-> MapSet(t.keyToValue, k, v),
     valueToKey |-> MapSet(t.valueToKey, v, k)]

\* Mutant: the value is looked up after its key was deleted, so it stays.
DropOldestKeysFirst(t, n) ==
    [keys |-> SubSeq(t.keys, n + 1, Len(t.keys)),
     keyToValue |-> Restrict(t.keyToValue, DOMAIN t.keyToValue \ {t.keys[i] : i \in 1..n}),
     valueToKey |-> t.valueToKey]

\* Mutant: the evicted entry of keyToValue stays.
DropOldestKeepsEntry(t, n) ==
    LET gone == {t.keys[i] : i \in 1..n}
        goneValues == {t.keyToValue[k] : k \in gone}
    IN  [t EXCEPT !.keys = SubSeq(t.keys, n + 1, Len(t.keys)),
                  !.valueToKey = Restrict(t.valueToKey, DOMAIN t.valueToKey \ goneValues)]

\* Without its n oldest keys, and without what they map to.
DropOldest(t, n) ==
    LET gone == {t.keys[i] : i \in 1..n}
        goneValues == {t.keyToValue[k] : k \in gone}
    IN  [keys |-> SubSeq(t.keys, n + 1, Len(t.keys)),
         keyToValue |-> Restrict(t.keyToValue, DOMAIN t.keyToValue \ gone),
         valueToKey |-> Restrict(t.valueToKey, DOMAIN t.valueToKey \ goneValues)]

Fits(t) == KeySize(t) <= maxMap /\ ValueSize(t) <= maxMap

\* The number of passes of the eviction loop; none when it does not end.
Passes(t) == {n \in 0..KeySize(t) : Fits(DropOldest(t, n))}

Evicted(t) == DropOldest(t, CHOOSE n \in Passes(t) : \A i \in Passes(t) : n <= i)

\* Mutant: a key that is set again becomes the newest.
SetRefreshes(t, k, v) ==
    LET i == IF k \in DOMAIN t.keyToValue THEN CHOOSE j \in DOMAIN t.keys : t.keys[j] = k ELSE 0
        moved == IF i = 0 THEN t ELSE [t EXCEPT !.keys = Append(RemoveAt(@, i), k)]
        put == Put(moved, k, v)
    IN  Evicted(IF KeySize(put) # ValueSize(put) THEN EmptyTable ELSE put)

\* Mutant: a mismatch of the sizes is not noticed.
SetKeepsMismatch(t, k, v) ==
    LET put == Put(t, k, v)
    IN  IF Passes(put) = {} THEN put ELSE Evicted(put)

\* set: on a mismatch of the sizes everything is cleared, the new entry too.
Set(t, k, v) ==
    LET put == Put(t, k, v)
    IN  Evicted(IF KeySize(put) # ValueSize(put) THEN EmptyTable ELSE put)

getValue(t, k) == IF k \in DOMAIN t.keyToValue THEN t.keyToValue[k] ELSE undefined

getKey(t, v) == IF v \in DOMAIN t.valueToKey THEN t.valueToKey[v] ELSE undefined

\* getHeads: entry listSize - i for i = 0, 1, ..., counting from zero; an index
\* past the end is skipped.
getHeads(t, size) ==
    LET listSize == IF size < KeySize(t) THEN size ELSE KeySize(t)
        positions == [i \in 1..listSize |-> listSize - i + 2]
    IN  SelectSeq(positions, LAMBDA p : p <= KeySize(t))

-----------------------------------------------------------------------------
(* MessageUniqueWrapper.                                                   *)

Init ==
    /\ msgIdMap = EmptyTable
    /\ msgDataMap = EmptyTable
    /\ created = undefined

\* Mutant: a message whose msgId has a short id already is not stored again.
createUniqueMsgIdOnce(m) ==
    /\ IF getValue(msgIdMap, m[1]) = undefined
       THEN /\ msgIdMap' = Set(msgIdMap, m[1], Hash[m])
            /\ msgDataMap' = Set(msgDataMap, m, Hash[m])
       ELSE UNCHANGED <<msgIdMap, msgDataMap>>
    /\ created' = m

\* Mutant: a message that the data table holds is not stored again.
createUniqueMsgIdOnceData(m) ==
    /\ IF getKey(msgDataMap, Hash[m]) = undefined
       THEN /\ msgIdMap' = Set(msgIdMap, m[1], Hash[m])
            /\ msgDataMap' = Set(msgDataMap, m, Hash[m])
       ELSE /\ msgIdMap' = Set(msgIdMap, m[1], Hash[m])
            /\ UNCHANGED msgDataMap
    /\ created' = m

createUniqueMsgId(m) ==
    /\ msgIdMap' = Set(msgIdMap, m[1], Hash[m])
    /\ msgDataMap' = Set(msgDataMap, m, Hash[m])
    /\ created' = m

getMsgIdAndPeerByShortId(s) == getKey(msgDataMap, s)

\* A short id 0 is taken for a missing one.
getPeerByMsgId(id) ==
    LET s == getValue(msgIdMap, id)
    IN  IF s \in {undefined, 0} THEN undefined ELSE getMsgIdAndPeerByShortId(s)

Next == \E m \in Messages : createUniqueMsgId(m)

Spec == Init /\ [][Next]_vars

-----------------------------------------------------------------------------
\* keyToValue's entries in order, and both maps over the right sets.
IsTable(t, K) ==
    /\ t.keys \in Seq(K)
    /\ IsInjective(t.keys)
    /\ t.keyToValue \in [ToSet(t.keys) -> ShortIds]
    /\ DOMAIN t.valueToKey \subseteq ShortIds
    /\ t.valueToKey \in [DOMAIN t.valueToKey -> K]

TypeOK ==
    /\ IsTable(msgIdMap, MsgIds)
    /\ IsTable(msgDataMap, Messages)
    /\ created \in Messages \union {undefined}

InverseMaps(t) ==
    /\ \A k \in DOMAIN t.keyToValue : getKey(t, t.keyToValue[k]) = k
    /\ \A v \in DOMAIN t.valueToKey : getValue(t, t.valueToKey[v]) = v

(* The two maps of msgDataMap stay inverse of each other and within the    *)
(* capacity, so a short id a client sends leads to the one message it was  *)
(* made for, whichever messages collide.                                   *)
DataTableSound ==
    /\ InverseMaps(msgDataMap)
    /\ Fits(msgDataMap)
    /\ \A k \in DOMAIN msgDataMap.keyToValue : msgDataMap.keyToValue[k] = Hash[k]

(* The eviction loop of set ends, for any next message.                    *)
EvictionEnds ==
    \A m \in Messages :
        LET ends(t, k) == LET put == Put(t, k, Hash[m])
                          IN  KeySize(put) = ValueSize(put) => Passes(put) # {}
        IN  ends(msgIdMap, m[1]) /\ ends(msgDataMap, m)

(* An id that was just handed to a client can be used in the next call,    *)
(* unless its creation collided and emptied the table.                     *)
FreshIdResolves ==
    created # undefined =>
        \/ getMsgIdAndPeerByShortId(Hash[created]) = created
        \/ msgDataMap = EmptyTable

(* Going from a msgId to its short id and back ends at that msgId, unless  *)
(* two messages that each replaced another short id of theirs collided and *)
(* left the maps of msgIdMap out of step.                                  *)
PeerOfRightMessage ==
    InverseMaps(msgIdMap) =>
        \A id \in MsgIds :
            getPeerByMsgId(id) # undefined => getPeerByMsgId(id)[1] = id

(* The data table implements the short id book.                            *)
Book == INSTANCE ShortIdBook WITH
    ShortId <- Hash, Capacity <- maxMap, book <- msgDataMap.keys

ImplementsBook == Book!Spec

(* The comment at message-unique.ts:60: getHeads returns the entries that  *)
(* were written last.                                                      *)
HeadsAreNewest ==
    \A size \in 1..maxMap :
        LET n == KeySize(msgIdMap)
            k == IF size < n THEN size ELSE n
        IN  ToSet(getHeads(msgIdMap, size)) = (n - k + 1)..n
=============================================================================
