------------------------- MODULE MessageUniqueProofs -------------------------
(***************************************************************************)
(* The tables of MessageUnique for any messages, any hash function and any *)
(* capacity.  Both are tables, bounded, and their eviction loop ends; the  *)
(* maps of the data table stay inverse of each other and implement the     *)
(* short id book; and the two tables agree on what a short id stands for.  *)
(***************************************************************************)
EXTENDS MessageUnique, SequenceTheorems, FiniteSetTheorems, TLAPS

USE HashAssumption, MaxMapAssumption, UndefinedAssumption

\* A table in step: the inductive form of DataTableSound.
InStep(t) ==
    /\ t = [keys |-> t.keys, keyToValue |-> t.keyToValue, valueToKey |-> t.valueToKey]
    /\ IsTable(t, Messages)
    /\ \A k \in ToSet(t.keys) :
          /\ t.keyToValue[k] = Hash[k]
          /\ Hash[k] \in DOMAIN t.valueToKey
          /\ t.valueToKey[Hash[k]] = k
    /\ \A v \in DOMAIN t.valueToKey :
          t.valueToKey[v] \in ToSet(t.keys) /\ Hash[t.valueToKey[v]] = v
    /\ IsFiniteSet(DOMAIN t.valueToKey)
    /\ ValueSize(t) = KeySize(t)

\* The elements of a sequence are the values at its positions.
LEMMA ElementAt ==
  ASSUME NEW S, NEW s \in Seq(S)
  PROVE  /\ \A i \in 1..Len(s) : s[i] \in ToSet(s)
         /\ \A x \in ToSet(s) : \E i \in 1..Len(s) : s[i] = x
         /\ ToSet(s) \subseteq S
  BY DEF ToSet

\* A sequence of distinct elements stays one with a new element at its end.
LEMMA AppendNew ==
  ASSUME NEW K, NEW s \in Seq(K), IsInjective(s), NEW x \in K, x \notin ToSet(s)
  PROVE  /\ Append(s, x) \in Seq(K)
         /\ Len(Append(s, x)) = Len(s) + 1
         /\ ToSet(Append(s, x)) = ToSet(s) \union {x}
         /\ IsInjective(Append(s, x))
<1> DEFINE p == Append(s, x)
<1>1. /\ p \in Seq(K) /\ Len(p) = Len(s) + 1 /\ Len(s) \in Nat
      /\ \A i \in 1..Len(s) : p[i] = s[i]
      /\ p[Len(s) + 1] = x
  BY AppendProperties, LenProperties
<1> HIDE DEF p
<1>2. ToSet(p) = ToSet(s) \union {x}
  <2>1. ASSUME NEW y \in ToSet(p) PROVE y \in ToSet(s) \union {x}
    <3>1. PICK i \in 1..(Len(s) + 1) : p[i] = y
      BY <1>1, ElementAt
    <3>2. CASE i \in 1..Len(s)
      BY <1>1, <3>1, <3>2, ElementAt
    <3>3. CASE i = Len(s) + 1
      BY <1>1, <3>1, <3>3
    <3> QED BY <1>1, <3>2, <3>3
  <2>2. ASSUME NEW y \in ToSet(s) PROVE y \in ToSet(p)
    <3>1. PICK i \in 1..Len(s) : s[i] = y
      BY ElementAt
    <3>2. i \in 1..Len(p) /\ p[i] = y
      BY <1>1, <3>1
    <3> QED BY <1>1, <3>2, ElementAt
  <2>3. x \in ToSet(p)
    <3>1. Len(s) + 1 \in 1..Len(p)
      BY <1>1
    <3> QED BY <1>1, <3>1, ElementAt
  <2> QED BY <2>1, <2>2, <2>3
<1>3. IsInjective(p)
  <2>1. DOMAIN p = 1..(Len(s) + 1) /\ DOMAIN s = 1..Len(s)
    BY <1>1, LenProperties
  <2>2. \A i \in 1..Len(s) : s[i] # x
    BY ElementAt
  <2>3. ASSUME NEW i \in 1..(Len(s) + 1), NEW j \in 1..(Len(s) + 1), p[i] = p[j]
        PROVE  i = j
    <3>1. CASE i \in 1..Len(s) /\ j \in 1..Len(s)
      BY <1>1, <2>1, <2>3, <3>1 DEF IsInjective
    <3>2. CASE i = Len(s) + 1 /\ j \in 1..Len(s)
      BY <1>1, <2>2, <2>3, <3>2
    <3>3. CASE j = Len(s) + 1 /\ i \in 1..Len(s)
      BY <1>1, <2>2, <2>3, <3>3
    <3>4. CASE i = Len(s) + 1 /\ j = Len(s) + 1
      BY <3>4
    <3> QED BY <1>1, <3>1, <3>2, <3>3, <3>4
  <2> QED BY <2>1, <2>3 DEF IsInjective
<1> QED BY <1>1, <1>2, <1>3 DEF p

\* The empty table is in step and fits.
LEMMA EmptyInStep == InStep(EmptyTable) /\ Fits(EmptyTable)
<1> DEFINE t == EmptyTable
<1>1. /\ t.keys = <<>> /\ t.keyToValue = <<>> /\ t.valueToKey = <<>>
      /\ t = [keys |-> t.keys, keyToValue |-> t.keyToValue, valueToKey |-> t.valueToKey]
  BY DEF EmptyTable
<1>2. DOMAIN t.valueToKey = {} /\ DOMAIN t.keyToValue = {} /\ ToSet(t.keys) = {} /\ Len(t.keys) = 0
  BY <1>1 DEF ToSet
<1>3. IsFiniteSet(DOMAIN t.valueToKey) /\ ValueSize(t) = 0 /\ KeySize(t) = 0
  BY <1>2, FS_EmptySet DEF ValueSize, KeySize
<1>4. t.keyToValue \in [ToSet(t.keys) -> ShortIds]
  BY <1>1, <1>2
<1>5. t.valueToKey \in [DOMAIN t.valueToKey -> Messages]
  BY <1>1, <1>2
<1>6. IsTable(t, Messages)
  BY <1>1, <1>2, <1>4, <1>5 DEF IsTable, IsInjective
<1>7. Fits(t)
  BY <1>3 DEF Fits
<1> QED BY <1>1, <1>2, <1>3, <1>6, <1>7 DEF InStep

\* A table that fits loses nothing to the eviction loop.
LEMMA NoEviction ==
  ASSUME NEW t, InStep(t), Fits(t)
  PROVE  Evicted(t) = t
<1>1. t.keys \in Seq(Messages) /\ Len(t.keys) \in Nat
  BY DEF InStep, IsTable
<1>2. SubSeq(t.keys, 1, Len(t.keys)) = t.keys
  BY <1>1, SubSeqProperties, SeqEqual, ElementOfSeq
<1>3. Restrict(t.keyToValue, DOMAIN t.keyToValue) = t.keyToValue
  BY DEF Restrict, InStep, IsTable
<1>4. Restrict(t.valueToKey, DOMAIN t.valueToKey) = t.valueToKey
  BY DEF Restrict, InStep, IsTable
<1>5. DropOldest(t, 0) = t
  <2> DEFINE gone == {t.keys[i] : i \in 1..0}
  <2>1. gone = {}
    OBVIOUS
  <2>2. {t.keyToValue[k] : k \in gone} = {}
    BY <2>1
  <2>3. /\ DOMAIN t.keyToValue \ gone = DOMAIN t.keyToValue
        /\ DOMAIN t.valueToKey \ {t.keyToValue[k] : k \in gone} = DOMAIN t.valueToKey
    BY <2>1, <2>2
  <2>4. DropOldest(t, 0) = [keys |-> SubSeq(t.keys, 0 + 1, Len(t.keys)),
              keyToValue |-> Restrict(t.keyToValue, DOMAIN t.keyToValue \ gone),
              valueToKey |-> Restrict(t.valueToKey, DOMAIN t.valueToKey
                                       \ {t.keyToValue[k] : k \in gone})]
    BY DEF DropOldest
  <2>5. t = [keys |-> t.keys, keyToValue |-> t.keyToValue, valueToKey |-> t.valueToKey]
    BY DEF InStep
  <2> HIDE DEF gone
  <2>6. 0 + 1 = 1
    OBVIOUS
  <2> QED BY <1>2, <1>3, <1>4, <2>3, <2>4, <2>5, <2>6
<1>6. 0 \in Passes(t)
  BY <1>1, <1>5 DEF Passes, KeySize
<1>7. \A n \in Passes(t) : n \in Nat /\ 0 <= n
  BY <1>1 DEF Passes, KeySize
<1>8. (CHOOSE n \in Passes(t) : \A i \in Passes(t) : n <= i) = 0
  BY <1>6, <1>7
<1> QED BY <1>5, <1>8 DEF Evicted

\* One entry too many: the loop makes one pass, and the table is in step
\* without its oldest key.
LEMMA OneEviction ==
  ASSUME NEW t, InStep(t), KeySize(t) = maxMap + 1
  PROVE  /\ InStep(Evicted(t))
         /\ Fits(Evicted(t))
         /\ Evicted(t).keys = Tail(t.keys)
<1> DEFINE old == t.keys[1]
           d == DropOldest(t, 1)
<1>1. /\ t.keys \in Seq(Messages) /\ Len(t.keys) = maxMap + 1
      /\ IsInjective(t.keys) /\ t.keys # <<>>
  BY DEF InStep, IsTable, KeySize
<1>2. old \in ToSet(t.keys) /\ old \in Messages
  BY <1>1, ElementAt
<1>3. /\ t.keyToValue \in [ToSet(t.keys) -> ShortIds]
      /\ t.valueToKey \in [DOMAIN t.valueToKey -> Messages]
      /\ DOMAIN t.valueToKey \subseteq ShortIds
      /\ t.keyToValue[old] = Hash[old]
  BY <1>2 DEF InStep, IsTable
<1>4. /\ d.keys = SubSeq(t.keys, 2, Len(t.keys))
      /\ d.keyToValue = [k \in ToSet(t.keys) \ {old} |-> t.keyToValue[k]]
      /\ d.valueToKey = [v \in DOMAIN t.valueToKey \ {Hash[old]} |-> t.valueToKey[v]]
      /\ d = [keys |-> d.keys, keyToValue |-> d.keyToValue, valueToKey |-> d.valueToKey]
  <2>1. {t.keys[i] : i \in 1..1} = {old}
    OBVIOUS
  <2>2. {t.keyToValue[k] : k \in {old}} = {Hash[old]}
    BY <1>3
  <2>3. DOMAIN t.keyToValue = ToSet(t.keys)
    BY <1>3
  <2>4. d = [keys |-> SubSeq(t.keys, 1 + 1, Len(t.keys)),
             keyToValue |-> Restrict(t.keyToValue, ToSet(t.keys) \ {old}),
             valueToKey |-> Restrict(t.valueToKey, DOMAIN t.valueToKey \ {Hash[old]})]
    <3> HIDE DEF old
    <3> QED BY <2>1, <2>2, <2>3 DEF DropOldest
  <2> HIDE DEF d, old
  <2>5. 1 + 1 = 2
    OBVIOUS
  <2> QED BY <2>4, <2>5 DEF Restrict
<1> HIDE DEF d
<1>5. d.keys = Tail(t.keys)
  BY <1>1, <1>4, TailIsSubSeq
<1>6. /\ d.keys \in Seq(Messages) /\ Len(d.keys) = maxMap
      /\ \A i \in 1..maxMap : d.keys[i] = t.keys[i + 1]
  <2>1. /\ Tail(t.keys) \in Seq(Messages) /\ Len(Tail(t.keys)) = Len(t.keys) - 1
        /\ \A i \in 1..Len(Tail(t.keys)) : Tail(t.keys)[i] = t.keys[i + 1]
    BY <1>1, HeadTailProperties
  <2>2. Len(Tail(t.keys)) = maxMap
    BY <1>1, <2>1
  <2> QED BY <1>5, <2>1, <2>2
<1>7. IsInjective(d.keys)
  <2>1. DOMAIN d.keys = 1..maxMap /\ DOMAIN t.keys = 1..(maxMap + 1)
    BY <1>1, <1>6, LenProperties
  <2>2. ASSUME NEW i \in 1..maxMap, NEW j \in 1..maxMap, d.keys[i] = d.keys[j]
        PROVE  i = j
    <3>1. t.keys[i + 1] = t.keys[j + 1] /\ i + 1 \in DOMAIN t.keys /\ j + 1 \in DOMAIN t.keys
      BY <1>6, <2>1, <2>2
    <3>2. i + 1 = j + 1
      BY <1>1, <3>1 DEF IsInjective
    <3> QED BY <3>2
  <2> QED BY <2>1, <2>2 DEF IsInjective
<1>8. ToSet(d.keys) = ToSet(t.keys) \ {old}
  <2>1. ASSUME NEW x \in ToSet(d.keys) PROVE x \in ToSet(t.keys) /\ x # old
    <3>1. PICK i \in 1..maxMap : d.keys[i] = x
      BY <1>6, ElementAt
    <3>2. x = t.keys[i + 1] /\ i + 1 \in 1..Len(t.keys)
      BY <1>1, <1>6, <3>1
    <3>3. t.keys[i + 1] # t.keys[1]
      BY <1>1, <3>2 DEF IsInjective
    <3> QED BY <1>1, <3>2, <3>3, ElementAt
  <2>2. ASSUME NEW x \in ToSet(t.keys), x # old PROVE x \in ToSet(d.keys)
    <3>1. PICK i \in 1..Len(t.keys) : t.keys[i] = x
      BY <1>1, ElementAt
    <3>2. i # 1 /\ i - 1 \in 1..maxMap
      BY <1>1, <2>2, <3>1
    <3>3. d.keys[i - 1] = x
      BY <1>6, <3>1, <3>2
    <3> QED BY <1>6, <3>2, <3>3, ElementAt
  <2> QED BY <2>1, <2>2
<1>9. DOMAIN d.valueToKey = DOMAIN t.valueToKey \ {Hash[old]}
  BY <1>4
<1>10. Hash[old] \in DOMAIN t.valueToKey
  BY <1>2 DEF InStep
<1>11. IsFiniteSet(DOMAIN d.valueToKey) /\ ValueSize(d) = maxMap
  <2>1. IsFiniteSet(DOMAIN t.valueToKey) /\ Cardinality(DOMAIN t.valueToKey) = maxMap + 1
    BY DEF InStep, ValueSize, KeySize
  <2>2. /\ IsFiniteSet(DOMAIN t.valueToKey \ {Hash[old]})
        /\ Cardinality(DOMAIN t.valueToKey \ {Hash[old]}) = Cardinality(DOMAIN t.valueToKey) - 1
    BY <1>10, <2>1, FS_RemoveElement, SMTT(20)
  <2>3. Cardinality(DOMAIN t.valueToKey) - 1 = maxMap
    BY <2>1
  <2> QED BY <1>9, <2>2, <2>3, Zenon DEF ValueSize
<1>12. KeySize(d) = maxMap /\ Fits(d)
  BY <1>6, <1>11 DEF Fits, KeySize
<1>13. IsTable(d, Messages)
  <2>1. d.keyToValue \in [ToSet(d.keys) -> ShortIds]
    BY <1>3, <1>4, <1>8
  <2>2. /\ DOMAIN d.valueToKey \subseteq ShortIds
        /\ d.valueToKey \in [DOMAIN d.valueToKey -> Messages]
    BY <1>3, <1>4, <1>9
  <2> QED BY <1>6, <1>7, <2>1, <2>2 DEF IsTable
<1>14. ASSUME NEW k \in ToSet(d.keys)
       PROVE  /\ d.keyToValue[k] = Hash[k]
              /\ Hash[k] \in DOMAIN d.valueToKey
              /\ d.valueToKey[Hash[k]] = k
  <2>1. k \in ToSet(t.keys) /\ k # old
    BY <1>8
  <2>2. /\ t.keyToValue[k] = Hash[k]
        /\ Hash[k] \in DOMAIN t.valueToKey
        /\ t.valueToKey[Hash[k]] = k
    BY <2>1 DEF InStep
  <2>3. t.valueToKey[Hash[old]] = old
    BY <1>2 DEF InStep
  <2>4. Hash[k] # Hash[old]
    BY <2>1, <2>2, <2>3
  <2> QED BY <1>4, <2>1, <2>2, <2>4
<1>15. ASSUME NEW v \in DOMAIN d.valueToKey
       PROVE  d.valueToKey[v] \in ToSet(d.keys) /\ Hash[d.valueToKey[v]] = v
  <2>1. v \in DOMAIN t.valueToKey /\ v # Hash[old] /\ d.valueToKey[v] = t.valueToKey[v]
    BY <1>4
  <2>2. t.valueToKey[v] \in ToSet(t.keys) /\ Hash[t.valueToKey[v]] = v
    BY <2>1 DEF InStep
  <2> QED BY <1>8, <2>1, <2>2
<1>16. InStep(d)
  BY <1>4, <1>11, <1>12, <1>13, <1>14, <1>15 DEF InStep
<1>17. Evicted(t) = d
  <2>1. 1 \in Passes(t)
    BY <1>1, <1>12 DEF Passes, KeySize, d
  <2>2. 0 \notin Passes(t)
    <3>1. DropOldest(t, 0).keys = SubSeq(t.keys, 1, Len(t.keys))
      BY DEF DropOldest
    <3>2. Len(DropOldest(t, 0).keys) = maxMap + 1
      BY <1>1, <3>1, SubSeqProperties, ElementOfSeq
    <3> QED BY <3>2 DEF Passes, Fits, KeySize
  <2>3. \A n \in Passes(t) : n \in Nat
    BY <1>1 DEF Passes, KeySize
  <2>4. \A n \in Passes(t) : 1 <= n
    BY <2>2, <2>3
  <2>5. (CHOOSE n \in Passes(t) : \A i \in Passes(t) : n <= i) = 1
    BY <2>1, <2>3, <2>4
  <2> QED BY <2>5 DEF Evicted, d
<1> QED BY <1>5, <1>12, <1>16, <1>17
\* Setting a message that the table holds changes nothing.
LEMMA SetKnown ==
  ASSUME NEW t, InStep(t), Fits(t), NEW m \in Messages, m \in ToSet(t.keys)
  PROVE  Set(t, m, Hash[m]) = t
<1>1. DOMAIN t.keyToValue = ToSet(t.keys)
  BY DEF InStep, IsTable
<1>2. MapSet(t.keyToValue, m, Hash[m]) = t.keyToValue
  <2>1. /\ t.keyToValue \in [ToSet(t.keys) -> ShortIds]
        /\ ToSet(t.keys) \union {m} = ToSet(t.keys)
        /\ t.keyToValue[m] = Hash[m]
    BY DEF InStep, IsTable
  <2>2. t.keyToValue = [z \in ToSet(t.keys) |-> t.keyToValue[z]]
    BY <2>1
  <2> QED BY <1>1, <2>1, <2>2 DEF MapSet
<1>3. MapSet(t.valueToKey, Hash[m], m) = t.valueToKey
  <2> DEFINE D == DOMAIN t.valueToKey
  <2>1. /\ t.valueToKey \in [D -> Messages]
        /\ Hash[m] \in D
        /\ t.valueToKey[Hash[m]] = m
    BY DEF InStep, IsTable
  <2>2. D \union {Hash[m]} = D
    BY <2>1
  <2>3. t.valueToKey = [z \in D |-> t.valueToKey[z]]
    BY <2>1
  <2>4. MapSet(t.valueToKey, Hash[m], m)
        = [z \in D |-> IF z = Hash[m] THEN m ELSE t.valueToKey[z]]
    BY <2>2 DEF MapSet
  <2> QED
    <3>1. \A z \in D : (IF z = Hash[m] THEN m ELSE t.valueToKey[z]) = t.valueToKey[z]
      BY <2>1
    <3> HIDE DEF D
    <3> QED BY <2>3, <2>4, <3>1
<1>4. Put(t, m, Hash[m]) = t
  BY <1>1, <1>2, <1>3 DEF Put, InStep
<1>5. KeySize(t) = ValueSize(t)
  BY DEF InStep
<1> QED BY <1>4, <1>5, NoEviction DEF Set

\* Setting a new message whose short id is taken empties the table.
LEMMA SetClash ==
  ASSUME NEW t, InStep(t), Fits(t), NEW m \in Messages, m \notin ToSet(t.keys),
         Hash[m] \in DOMAIN t.valueToKey
  PROVE  Set(t, m, Hash[m]) = EmptyTable
<1> DEFINE p == Put(t, m, Hash[m])
<1>1. t.keys \in Seq(Messages) /\ DOMAIN t.keyToValue = ToSet(t.keys)
  BY DEF InStep, IsTable
<1>2. p.keys = Append(t.keys, m)
  BY <1>1 DEF Put
<1>3. KeySize(p) = KeySize(t) + 1 /\ KeySize(t) \in Nat
  <2>1. Len(Append(t.keys, m)) = Len(t.keys) + 1 /\ Len(t.keys) \in Nat
    BY <1>1, AppendProperties, LenProperties
  <2> QED BY <1>2, <2>1 DEF KeySize
<1>4. p.valueToKey = MapSet(t.valueToKey, Hash[m], m)
  BY DEF Put
<1>5. DOMAIN p.valueToKey = DOMAIN t.valueToKey
  BY <1>4 DEF MapSet
<1>6. ValueSize(p) = KeySize(t)
  BY <1>5 DEF ValueSize, InStep
<1>7. KeySize(p) # ValueSize(p)
  BY <1>3, <1>6
<1>8. Set(t, m, Hash[m]) = Evicted(EmptyTable)
  BY <1>7 DEF Set
<1> QED BY <1>8, EmptyInStep, NoEviction

\* Putting a new message with a free short id keeps the table in step.
LEMMA PutNew ==
  ASSUME NEW t, InStep(t), NEW m \in Messages, m \notin ToSet(t.keys),
         Hash[m] \notin DOMAIN t.valueToKey
  PROVE  /\ InStep(Put(t, m, Hash[m]))
         /\ Put(t, m, Hash[m]).keys = Append(t.keys, m)
         /\ KeySize(Put(t, m, Hash[m])) = KeySize(t) + 1
<1> DEFINE p == Put(t, m, Hash[m])
<1>1. /\ t.keys \in Seq(Messages) /\ IsInjective(t.keys)
      /\ t.keyToValue \in [ToSet(t.keys) -> ShortIds]
      /\ t.valueToKey \in [DOMAIN t.valueToKey -> Messages]
      /\ DOMAIN t.valueToKey \subseteq ShortIds
      /\ DOMAIN t.keyToValue = ToSet(t.keys)
  BY DEF InStep, IsTable
<1>2. /\ p.keys = Append(t.keys, m)
      /\ p.keyToValue = [k \in ToSet(t.keys) \union {m} |->
                            IF k = m THEN Hash[m] ELSE t.keyToValue[k]]
      /\ p.valueToKey = [v \in DOMAIN t.valueToKey \union {Hash[m]} |->
                            IF v = Hash[m] THEN m ELSE t.valueToKey[v]]
      /\ p = [keys |-> p.keys, keyToValue |-> p.keyToValue, valueToKey |-> p.valueToKey]
  BY <1>1 DEF Put, MapSet
<1> HIDE DEF p
<1>3. /\ p.keys \in Seq(Messages) /\ Len(p.keys) = Len(t.keys) + 1 /\ Len(t.keys) \in Nat
      /\ ToSet(p.keys) = ToSet(t.keys) \union {m}
      /\ IsInjective(p.keys)
  BY <1>1, <1>2, AppendNew, LenProperties
<1>4. ToSet(p.keys) = ToSet(t.keys) \union {m}
  BY <1>3
<1>5. IsInjective(p.keys)
  BY <1>3
<1>6. /\ DOMAIN p.valueToKey = DOMAIN t.valueToKey \union {Hash[m]}
      /\ p.valueToKey \in [DOMAIN p.valueToKey -> Messages]
      /\ DOMAIN p.valueToKey \subseteq ShortIds
      /\ p.keyToValue \in [ToSet(p.keys) -> ShortIds]
  BY <1>1, <1>2, <1>4
<1>7. IsFiniteSet(DOMAIN p.valueToKey) /\ ValueSize(p) = ValueSize(t) + 1
  <2>1. IsFiniteSet(DOMAIN t.valueToKey)
    BY DEF InStep
  <2> QED BY <1>6, <2>1, FS_AddElement DEF ValueSize
<1>8. ASSUME NEW k \in ToSet(p.keys)
      PROVE  /\ p.keyToValue[k] = Hash[k]
             /\ Hash[k] \in DOMAIN p.valueToKey
             /\ p.valueToKey[Hash[k]] = k
  <2>1. CASE k = m
    BY <1>2, <2>1
  <2>2. CASE k # m
    <3>1. k \in ToSet(t.keys)
      BY <1>4, <2>2
    <3>2. /\ t.keyToValue[k] = Hash[k]
          /\ Hash[k] \in DOMAIN t.valueToKey
          /\ t.valueToKey[Hash[k]] = k
      BY <3>1 DEF InStep
    <3> QED BY <1>2, <2>2, <3>1, <3>2
  <2> QED BY <2>1, <2>2
<1>9. ASSUME NEW v \in DOMAIN p.valueToKey
      PROVE  p.valueToKey[v] \in ToSet(p.keys) /\ Hash[p.valueToKey[v]] = v
  <2>1. CASE v = Hash[m]
    BY <1>2, <1>4, <2>1
  <2>2. CASE v # Hash[m]
    <3>1. v \in DOMAIN t.valueToKey /\ p.valueToKey[v] = t.valueToKey[v]
      BY <1>2, <2>2
    <3>2. t.valueToKey[v] \in ToSet(t.keys) /\ Hash[t.valueToKey[v]] = v
      BY <3>1 DEF InStep
    <3> QED BY <1>4, <3>1, <3>2
  <2> QED BY <2>1, <2>2
<1>10. KeySize(p) = KeySize(t) + 1 /\ ValueSize(p) = KeySize(p)
  BY <1>3, <1>7 DEF KeySize, InStep
<1>11. InStep(p)
  BY <1>2, <1>3, <1>5, <1>6, <1>7, <1>8, <1>9, <1>10 DEF InStep, IsTable
<1> QED BY <1>2, <1>10, <1>11 DEF p

\* What set does to a table in step, case by case.
LEMMA SetInStep ==
  ASSUME NEW t, InStep(t), Fits(t), NEW m \in Messages
  PROVE  LET u == Set(t, m, Hash[m])
         IN  /\ InStep(u) /\ Fits(u)
             /\ u = EmptyTable \/ m \in ToSet(u.keys)
             /\ IF m \in ToSet(t.keys) THEN u.keys = t.keys
                ELSE IF Hash[m] \in DOMAIN t.valueToKey THEN u.keys = <<>>
                ELSE IF Len(t.keys) < maxMap THEN u.keys = Append(t.keys, m)
                ELSE u.keys = Append(Tail(t.keys), m)
<1> DEFINE u == Set(t, m, Hash[m])
<1>1. CASE m \in ToSet(t.keys)
  BY <1>1, SetKnown
<1>2. CASE m \notin ToSet(t.keys) /\ Hash[m] \in DOMAIN t.valueToKey
  <2>1. u = EmptyTable
    BY <1>2, SetClash
  <2>2. EmptyTable.keys = <<>>
    BY DEF EmptyTable
  <2> QED BY <1>2, <2>1, <2>2, EmptyInStep
<1>3. CASE m \notin ToSet(t.keys) /\ Hash[m] \notin DOMAIN t.valueToKey
  <2> DEFINE p == Put(t, m, Hash[m])
  <2>1. InStep(p) /\ p.keys = Append(t.keys, m) /\ KeySize(p) = KeySize(t) + 1
    BY <1>3, PutNew
  <2>2. u = Evicted(p)
    BY <2>1 DEF Set, InStep
  <2>3. t.keys \in Seq(Messages) /\ Len(t.keys) \in Nat /\ Len(t.keys) <= maxMap
    BY DEF InStep, IsTable, Fits, KeySize
  <2> HIDE DEF p, u
  <2>4. CASE Len(t.keys) < maxMap
    <3>1. Fits(p)
      BY <2>1, <2>3, <2>4 DEF Fits, InStep, KeySize
    <3>2. u = p
      BY <2>1, <2>2, <3>1, NoEviction
    <3>3. m \in ToSet(u.keys)
      <4>1. /\ Append(t.keys, m) \in Seq(Messages)
            /\ Len(Append(t.keys, m)) = Len(t.keys) + 1
            /\ Append(t.keys, m)[Len(t.keys) + 1] = m
        BY <2>3, AppendProperties
      <4>2. Len(t.keys) + 1 \in 1..Len(Append(t.keys, m))
        BY <2>3, <4>1
      <4>3. m \in ToSet(Append(t.keys, m))
        <5> DEFINE s == Append(t.keys, m)
        <5>1. s \in Seq(Messages) /\ Len(t.keys) + 1 \in 1..Len(s) /\ s[Len(t.keys) + 1] = m
          BY <4>1, <4>2
        <5> HIDE DEF s
        <5>2. m \in ToSet(s)
          BY <5>1, ElementAt
        <5> QED BY <5>2 DEF s
      <4> QED BY <2>1, <3>2, <4>3
    <3>4. InStep(u) /\ Fits(u) /\ u.keys = Append(t.keys, m)
      BY <2>1, <3>1, <3>2
    <3> QED BY <1>3, <2>4, <3>3, <3>4 DEF u
  <2>5. CASE Len(t.keys) = maxMap
    <3>1. KeySize(p) = maxMap + 1
      BY <2>1, <2>5 DEF KeySize
    <3>2. InStep(u) /\ Fits(u) /\ u.keys = Tail(Append(t.keys, m))
      BY <2>1, <2>2, <3>1, OneEviction
    <3>3. t.keys # <<>>
      BY <2>5
    <3>4. u.keys = Append(Tail(t.keys), m)
      BY <2>3, <3>2, <3>3, HeadTailAppend
    <3>5. m \in ToSet(u.keys)
      <4>1. Tail(t.keys) \in Seq(Messages) /\ Len(Tail(t.keys)) \in Nat
        BY <2>3, <3>3, HeadTailProperties, LenProperties
      <4>2. /\ u.keys \in Seq(Messages)
            /\ Len(u.keys) = Len(Tail(t.keys)) + 1
            /\ u.keys[Len(Tail(t.keys)) + 1] = m
        <5> DEFINE rest == Tail(t.keys)
        <5>1. u.keys = Append(rest, m) /\ rest \in Seq(Messages)
          BY <3>4, <4>1
        <5> HIDE DEF rest
        <5>2. /\ Append(rest, m) \in Seq(Messages)
              /\ Len(Append(rest, m)) = Len(rest) + 1
              /\ Append(rest, m)[Len(rest) + 1] = m
          BY <5>1, AppendProperties
        <5> QED BY <5>1, <5>2 DEF rest
      <4>3. Len(Tail(t.keys)) + 1 \in 1..Len(u.keys)
        BY <4>1, <4>2
      <4> QED BY <4>2, <4>3, ElementAt
    <3>6. ~(Len(t.keys) < maxMap)
      BY <2>5
    <3> QED BY <1>3, <3>2, <3>4, <3>5, <3>6 DEF u
  <2> QED BY <2>3, <2>4, <2>5
<1> QED BY <1>1, <1>2, <1>3

-----------------------------------------------------------------------------
\* The inductive invariant: the data table is in step, and it holds the
\* message created last unless a collision emptied it.
DInv ==
    /\ InStep(msgDataMap)
    /\ Fits(msgDataMap)
    /\ created \in Messages \union {undefined}
    /\ created # undefined => created \in ToSet(msgDataMap.keys) \/ msgDataMap = EmptyTable

LEMMA DInvInit == Init => DInv
  BY EmptyInStep DEF Init, DInv

LEMMA DInvNext == DInv /\ [Next]_vars => DInv'
<1> SUFFICES ASSUME DInv, [Next]_vars PROVE DInv'
  OBVIOUS
<1>1. ASSUME NEW m \in Messages, createUniqueMsgId(m) PROVE DInv'
  <2>1. msgDataMap' = Set(msgDataMap, m, Hash[m]) /\ created' = m
    BY <1>1 DEF createUniqueMsgId
  <2>2. /\ InStep(Set(msgDataMap, m, Hash[m])) /\ Fits(Set(msgDataMap, m, Hash[m]))
        /\ \/ Set(msgDataMap, m, Hash[m]) = EmptyTable
           \/ m \in ToSet(Set(msgDataMap, m, Hash[m]).keys)
    BY SetInStep DEF DInv
  <2>3. InStep(msgDataMap') /\ Fits(msgDataMap')
    BY <2>1, <2>2
  <2>4. InStep(msgDataMap)' /\ Fits(msgDataMap)'
    BY <2>3 DEF InStep, Fits, IsTable, KeySize, ValueSize
  <2> QED BY <2>1, <2>2, <2>4 DEF DInv
<1>2. CASE UNCHANGED vars
  BY <1>2 DEF vars, DInv, InStep, Fits, IsTable, KeySize, ValueSize
<1> QED BY <1>1, <1>2 DEF Next

\* What the invariant says to a client.
LEMMA DInvSound == DInv => DataTableSound /\ FreshIdResolves
<1> SUFFICES ASSUME DInv PROVE DataTableSound /\ FreshIdResolves
  OBVIOUS
<1> DEFINE t == msgDataMap
<1>1. InStep(t) /\ Fits(t) /\ DOMAIN t.keyToValue = ToSet(t.keys)
  BY DEF DInv, InStep, IsTable
<1>2. ASSUME NEW k \in DOMAIN t.keyToValue
      PROVE  t.keyToValue[k] = Hash[k] /\ getKey(t, t.keyToValue[k]) = k
  BY <1>1 DEF InStep, getKey
<1>3. ASSUME NEW v \in DOMAIN t.valueToKey
      PROVE  getValue(t, t.valueToKey[v]) = v
  BY <1>1 DEF InStep, getValue
<1>4. DataTableSound
  BY <1>1, <1>2, <1>3 DEF DataTableSound, InverseMaps
<1>5. FreshIdResolves
  <2> SUFFICES ASSUME created # undefined, t # EmptyTable
               PROVE  getMsgIdAndPeerByShortId(Hash[created]) = created
    BY DEF FreshIdResolves
  <2>1. created \in ToSet(t.keys)
    BY DEF DInv
  <2> QED BY <1>1, <2>1 DEF getMsgIdAndPeerByShortId, getKey, InStep
<1> QED BY <1>4, <1>5

\* For every hash function the maps of the data table stay inverse of each
\* other, bounded and true to the hash.
THEOREM DataTableAlwaysSound == Spec => []DataTableSound
  BY DInvInit, DInvNext, DInvSound, PTL DEF Spec

\* An id that was just handed out resolves, unless it collided.
THEOREM FreshIdAlwaysResolves == Spec => []FreshIdResolves
  BY DInvInit, DInvNext, DInvSound, PTL DEF Spec

-----------------------------------------------------------------------------
\* The remembered messages that clash with m are found through its short id.
LEMMA ClashIsTaken ==
  ASSUME InStep(msgDataMap), NEW m \in Messages, m \notin ToSet(msgDataMap.keys)
  PROVE  Book!Clashes(m) <=> Hash[m] \in DOMAIN msgDataMap.valueToKey
<1>1. ASSUME Book!Clashes(m) PROVE Hash[m] \in DOMAIN msgDataMap.valueToKey
  <2>1. PICK o \in ToSet(msgDataMap.keys) : o # m /\ Hash[o] = Hash[m]
    BY <1>1 DEF Book!Clashes, Book!ToSet, ToSet
  <2> QED BY <2>1 DEF InStep
<1>2. ASSUME Hash[m] \in DOMAIN msgDataMap.valueToKey PROVE Book!Clashes(m)
  <2> DEFINE o == msgDataMap.valueToKey[Hash[m]]
  <2>1. o \in ToSet(msgDataMap.keys) /\ Hash[o] = Hash[m]
    BY <1>2 DEF InStep
  <2>2. o # m
    BY <2>1
  <2> QED BY <2>1, <2>2 DEF Book!Clashes, Book!ToSet, ToSet
<1> QED BY <1>1, <1>2

LEMMA BookStep == DInv /\ [Next]_vars => [Book!Next]_(msgDataMap.keys)
<1> SUFFICES ASSUME DInv, [Next]_vars PROVE [Book!Next]_(msgDataMap.keys)
  OBVIOUS
<1> DEFINE t == msgDataMap
<1>1. ASSUME NEW m \in Messages, createUniqueMsgId(m) PROVE Book!Next
  <2>1. InStep(t) /\ Fits(t) /\ t' = Set(t, m, Hash[m])
    BY <1>1 DEF DInv, createUniqueMsgId
  <2>2. IF m \in ToSet(t.keys) THEN t'.keys = t.keys
        ELSE IF Hash[m] \in DOMAIN t.valueToKey THEN t'.keys = <<>>
        ELSE IF Len(t.keys) < maxMap THEN t'.keys = Append(t.keys, m)
        ELSE t'.keys = Append(Tail(t.keys), m)
    BY <2>1, SetInStep
  <2>3. CASE m \in ToSet(t.keys)
    BY <2>2, <2>3 DEF Book!Next, Book!Again, Book!Known, Book!ToSet, ToSet
  <2>4. CASE m \notin ToSet(t.keys) /\ Hash[m] \in DOMAIN t.valueToKey
    <3>1. Book!Clashes(m)
      BY <2>1, <2>4, ClashIsTaken
    <3> QED BY <2>2, <2>4, <3>1 DEF Book!Next, Book!Forget, Book!Known, Book!ToSet, ToSet
  <2>5. CASE m \notin ToSet(t.keys) /\ Hash[m] \notin DOMAIN t.valueToKey
    <3>1. ~Book!Clashes(m)
      BY <2>1, <2>5, ClashIsTaken
    <3>2. t'.keys = IF Len(t.keys) < maxMap THEN Append(t.keys, m)
                    ELSE Append(Tail(t.keys), m)
      BY <2>2, <2>5
    <3> QED BY <2>5, <3>1, <3>2 DEF Book!Next, Book!Learn, Book!Known, Book!ToSet, ToSet
  <2> QED BY <2>3, <2>4, <2>5
<1>2. CASE UNCHANGED vars
  BY <1>2 DEF vars
<1> QED BY <1>1, <1>2 DEF Next

\* The two maps together implement the first-in first-out book of messages.
THEOREM TableIsBook == Spec => ImplementsBook
<1>1. Init => Book!Init
  BY DEF Init, Book!Init, EmptyTable
<1> QED BY <1>1, DInvInit, DInvNext, BookStep, PTL DEF Spec, ImplementsBook, Book!Spec

-----------------------------------------------------------------------------
(* Both tables.  The table of msgIds is not in step: one msgId may get     *)
(* several short ids.  What holds of it is weaker, and enough for the      *)
(* eviction loop.                                                          *)
Finite(t, K) == IsTable(t, K) /\ IsFiniteSet(DOMAIN t.valueToKey)

Bounded(t, K) == Finite(t, K) /\ Fits(t)

\* Any table without some of its oldest keys is a table.
LEMMA DropKeeps ==
  ASSUME NEW K, NEW t, Finite(t, K), NEW n \in 0..KeySize(t)
  PROVE  LET d == DropOldest(t, n)
         IN  /\ Finite(d, K)
             /\ KeySize(d) = KeySize(t) - n
             /\ DOMAIN d.valueToKey =
                   DOMAIN t.valueToKey \ {t.keyToValue[t.keys[i]] : i \in 1..n}
             /\ \A v \in DOMAIN d.valueToKey : d.valueToKey[v] = t.valueToKey[v]
<1> DEFINE gone == {t.keys[i] : i \in 1..n}
           goneValues == {t.keyToValue[k] : k \in gone}
           d == DropOldest(t, n)
<1>1. /\ t.keys \in Seq(K) /\ IsInjective(t.keys) /\ Len(t.keys) \in Nat
      /\ t.keyToValue \in [ToSet(t.keys) -> ShortIds]
      /\ DOMAIN t.valueToKey \subseteq ShortIds
      /\ t.valueToKey \in [DOMAIN t.valueToKey -> K]
      /\ n \in Nat /\ n <= Len(t.keys)
  BY DEF Finite, IsTable, KeySize
<1>2. /\ d.keys = SubSeq(t.keys, n + 1, Len(t.keys))
      /\ d.keyToValue = [k \in ToSet(t.keys) \ gone |-> t.keyToValue[k]]
      /\ d.valueToKey = [v \in DOMAIN t.valueToKey \ goneValues |-> t.valueToKey[v]]
  <2>1. DOMAIN t.keyToValue = ToSet(t.keys)
    BY <1>1
  <2> QED BY <2>1 DEF DropOldest, Restrict
<1>3. goneValues = {t.keyToValue[t.keys[i]] : i \in 1..n}
  OBVIOUS
<1> HIDE DEF d
<1>4. /\ d.keys \in Seq(K) /\ Len(d.keys) = Len(t.keys) - n
      /\ \A i \in 1..(Len(t.keys) - n) : d.keys[i] = t.keys[i + n]
  <2>1. \A i \in (n + 1)..Len(t.keys) : t.keys[i] \in K
    BY <1>1, ElementOfSeq
  <2> QED BY <1>1, <1>2, <2>1, SubSeqProperties, SMTT(20)
<1>5. IsInjective(d.keys)
  <2>1. DOMAIN d.keys = 1..(Len(t.keys) - n) /\ DOMAIN t.keys = 1..Len(t.keys)
    BY <1>1, <1>4, LenProperties
  <2>2. ASSUME NEW i \in DOMAIN d.keys, NEW j \in DOMAIN d.keys, d.keys[i] = d.keys[j]
        PROVE  i = j
    <3>1. /\ i \in 1..(Len(t.keys) - n) /\ j \in 1..(Len(t.keys) - n)
          /\ d.keys[i] = t.keys[i + n] /\ d.keys[j] = t.keys[j + n]
      BY <1>4, <2>1
    <3>4. i + n \in 1..Len(t.keys) /\ j + n \in 1..Len(t.keys)
      BY <1>1, <3>1
    <3>5. t.keys[i + n] = t.keys[j + n]
      BY <2>2, <3>1
    <3>3. /\ t.keys[i + n] = t.keys[j + n]
          /\ i + n \in DOMAIN t.keys /\ j + n \in DOMAIN t.keys
      BY <2>1, <3>4, <3>5
    <3>2. i + n = j + n
      BY <1>1, <3>3 DEF IsInjective
    <3> QED BY <1>1, <3>1, <3>2
  <2> QED BY <2>2 DEF IsInjective
<1>6. ToSet(d.keys) = ToSet(t.keys) \ gone
  <2>1. ASSUME NEW x \in ToSet(d.keys) PROVE x \in ToSet(t.keys) \ gone
    <3>1. PICK i \in 1..(Len(t.keys) - n) : d.keys[i] = x
      <4>1. d.keys \in Seq(K) /\ Len(d.keys) = Len(t.keys) - n
        BY <1>4
      <4>2. \E i \in 1..Len(d.keys) : d.keys[i] = x
        BY <4>1, ElementAt
      <4> QED BY <4>1, <4>2
    <3>2. x = t.keys[i + n] /\ i + n \in 1..Len(t.keys) /\ i + n \notin 1..n
      BY <1>1, <1>4, <3>1
    <3>3. \A j \in 1..n : t.keys[j] # t.keys[i + n]
      <4>1. DOMAIN t.keys = 1..Len(t.keys)
        BY <1>1, LenProperties
      <4> QED BY <1>1, <3>2, <4>1 DEF IsInjective
    <3> QED BY <1>1, <3>2, <3>3, ElementAt
  <2>2. ASSUME NEW x \in ToSet(t.keys) \ gone PROVE x \in ToSet(d.keys)
    <3>1. PICK i \in 1..Len(t.keys) : t.keys[i] = x
      BY <1>1, ElementAt
    <3>2. i \notin 1..n /\ i - n \in 1..(Len(t.keys) - n) /\ (i - n) + n = i
      BY <1>1, <3>1
    <3>3. d.keys[i - n] = x /\ i - n \in 1..Len(d.keys)
      BY <1>4, <3>1, <3>2
    <3> QED BY <1>4, <3>3, ElementAt
  <2> QED BY <2>1, <2>2
<1> HIDE DEF gone, goneValues
<1>7. /\ d.keyToValue \in [ToSet(d.keys) -> ShortIds]
      /\ DOMAIN d.valueToKey = DOMAIN t.valueToKey \ goneValues
      /\ d.valueToKey \in [DOMAIN d.valueToKey -> K]
      /\ DOMAIN d.valueToKey \subseteq ShortIds
      /\ \A v \in DOMAIN d.valueToKey : d.valueToKey[v] = t.valueToKey[v]
  BY <1>1, <1>2, <1>6
<1>8. IsFiniteSet(DOMAIN d.valueToKey)
  BY <1>7, FS_Subset DEF Finite
<1> QED BY <1>3, <1>4, <1>5, <1>7, <1>8 DEF Finite, IsTable, KeySize, d

\* A table with at most one entry too many, one of whose keys leads to a value
\* that is there: clearing it is one way the loop can end.
LEMMA LoopCanEnd ==
  ASSUME NEW K, NEW t, Finite(t, K),
         KeySize(t) <= maxMap + 1, ValueSize(t) <= maxMap + 1,
         \/ Fits(t)
         \/ \E k \in ToSet(t.keys) : t.keyToValue[k] \in DOMAIN t.valueToKey
  PROVE  Passes(t) # {}
<1> DEFINE n == KeySize(t)
           d == DropOldest(t, n)
           goneValues == {t.keyToValue[t.keys[i]] : i \in 1..n}
<1>1. n \in Nat /\ n \in 0..KeySize(t) /\ n = Len(t.keys) /\ t.keys \in Seq(K)
  BY LenProperties DEF Finite, IsTable, KeySize
<1>2. KeySize(d) = 0 /\ DOMAIN d.valueToKey = DOMAIN t.valueToKey \ goneValues
  BY <1>1, DropKeeps
<1>3. /\ IsFiniteSet(DOMAIN t.valueToKey) /\ Cardinality(DOMAIN t.valueToKey) \in Nat
      /\ ValueSize(t) = Cardinality(DOMAIN t.valueToKey)
  BY FS_CardinalityType DEF Finite, ValueSize
<1> HIDE DEF d, goneValues
<1>4. CASE Fits(t)
  <2>1. Cardinality(DOMAIN d.valueToKey) <= Cardinality(DOMAIN t.valueToKey)
    BY <1>2, <1>3, FS_Subset
  <2>2. Fits(d)
    BY <1>2, <1>3, <1>4, <2>1, FS_Subset, FS_CardinalityType DEF Fits, ValueSize
  <2> QED BY <1>1, <2>2 DEF Passes, d
<1>5. CASE \E k \in ToSet(t.keys) : t.keyToValue[k] \in DOMAIN t.valueToKey
  <2>1. PICK k \in ToSet(t.keys) : t.keyToValue[k] \in DOMAIN t.valueToKey
    BY <1>5
  <2>2. t.keyToValue[k] \in goneValues
    BY <1>1, <2>1, ElementAt DEF goneValues
  <2>3. /\ IsFiniteSet(DOMAIN t.valueToKey \ {t.keyToValue[k]})
        /\ Cardinality(DOMAIN t.valueToKey \ {t.keyToValue[k]})
             = Cardinality(DOMAIN t.valueToKey) - 1
    BY <1>3, <2>1, FS_RemoveElement
  <2>4. DOMAIN d.valueToKey \subseteq DOMAIN t.valueToKey \ {t.keyToValue[k]}
    BY <1>2, <2>2
  <2>5. /\ Cardinality(DOMAIN d.valueToKey)
              <= Cardinality(DOMAIN t.valueToKey \ {t.keyToValue[k]})
        /\ Cardinality(DOMAIN d.valueToKey) \in Nat
    BY <2>3, <2>4, FS_Subset, FS_CardinalityType
  <2>6. Fits(d)
    BY <1>2, <1>3, <2>3, <2>5 DEF Fits, ValueSize
  <2> QED BY <1>1, <2>6 DEF Passes, d
<1> QED BY <1>4, <1>5

\* Numbers have a least one.
LEMMA LeastOf ==
  ASSUME NEW S \in SUBSET Nat, S # {}
  PROVE  \E n \in S : \A i \in S : n <= i
<1>1. PICK n \in S : \A i \in S : <<i, n>> \notin OpToRel(<, Nat)
  BY NatLessThanWellFounded, WFMin, Zenon
<1>2. \A i \in S : ~(i < n)
  BY <1>1 DEF OpToRel
<1> QED BY <1>2

\* Where the eviction loop ends, it leaves a table that fits.
LEMMA EvictedBounded ==
  ASSUME NEW K, NEW t, Finite(t, K), Passes(t) # {}
  PROVE  /\ Bounded(Evicted(t), K)
         /\ \A v \in DOMAIN Evicted(t).valueToKey :
               v \in DOMAIN t.valueToKey /\ Evicted(t).valueToKey[v] = t.valueToKey[v]
<1> DEFINE n == CHOOSE n \in Passes(t) : \A i \in Passes(t) : n <= i
<1>1. Passes(t) \subseteq Nat
  BY DEF Passes
<1>2. n \in Passes(t)
  BY <1>1, LeastOf
<1> HIDE DEF n
<1>3. n \in 0..KeySize(t) /\ Fits(DropOldest(t, n))
  BY <1>2 DEF Passes
<1>4. Evicted(t) = DropOldest(t, n)
  BY DEF Evicted, n
<1> QED BY <1>3, <1>4, DropKeeps DEF Bounded

\* An entry more.
LEMMA PutKeeps ==
  ASSUME NEW K, NEW t, Bounded(t, K), NEW k \in K, NEW v \in ShortIds
  PROVE  LET p == Put(t, k, v)
         IN  /\ Finite(p, K)
             /\ KeySize(p) <= maxMap + 1 /\ ValueSize(p) <= maxMap + 1
             /\ k \in ToSet(p.keys) /\ p.keyToValue[k] = v
             /\ DOMAIN p.valueToKey = DOMAIN t.valueToKey \union {v}
             /\ p.valueToKey[v] = k
             /\ \A s \in DOMAIN t.valueToKey : s # v => p.valueToKey[s] = t.valueToKey[s]
<1> DEFINE p == Put(t, k, v)
<1>1. /\ t.keys \in Seq(K) /\ IsInjective(t.keys)
      /\ t.keyToValue \in [ToSet(t.keys) -> ShortIds]
      /\ DOMAIN t.keyToValue = ToSet(t.keys)
      /\ t.valueToKey \in [DOMAIN t.valueToKey -> K]
      /\ DOMAIN t.valueToKey \subseteq ShortIds
      /\ IsFiniteSet(DOMAIN t.valueToKey)
      /\ KeySize(t) <= maxMap /\ ValueSize(t) <= maxMap
  BY DEF Bounded, Finite, IsTable, Fits
<1>2. /\ p.keys = IF k \in ToSet(t.keys) THEN t.keys ELSE Append(t.keys, k)
      /\ p.keyToValue = [x \in ToSet(t.keys) \union {k} |->
                            IF x = k THEN v ELSE t.keyToValue[x]]
      /\ p.valueToKey = [s \in DOMAIN t.valueToKey \union {v} |->
                            IF s = v THEN k ELSE t.valueToKey[s]]
  BY <1>1 DEF Put, MapSet
<1> HIDE DEF p
<1>3. /\ p.keys \in Seq(K) /\ IsInjective(p.keys)
      /\ ToSet(p.keys) = ToSet(t.keys) \union {k}
      /\ Len(p.keys) <= Len(t.keys) + 1 /\ Len(t.keys) \in Nat
  <2>1. Len(t.keys) \in Nat
    BY <1>1, LenProperties
  <2>2. CASE k \in ToSet(t.keys)
    BY <1>1, <1>2, <2>1, <2>2
  <2>3. CASE k \notin ToSet(t.keys)
    BY <1>1, <1>2, <2>1, <2>3, AppendNew
  <2> QED BY <2>2, <2>3
<1>4. /\ p.keyToValue \in [ToSet(p.keys) -> ShortIds]
      /\ p.keyToValue[k] = v /\ k \in ToSet(p.keys)
  BY <1>1, <1>2, <1>3
<1>5. /\ DOMAIN p.valueToKey = DOMAIN t.valueToKey \union {v}
      /\ DOMAIN p.valueToKey \subseteq ShortIds
      /\ p.valueToKey \in [DOMAIN p.valueToKey -> K]
      /\ p.valueToKey[v] = k
      /\ \A s \in DOMAIN t.valueToKey : s # v => p.valueToKey[s] = t.valueToKey[s]
  BY <1>1, <1>2
<1>6. /\ IsFiniteSet(DOMAIN p.valueToKey)
      /\ Cardinality(DOMAIN p.valueToKey) <= Cardinality(DOMAIN t.valueToKey) + 1
  <2> DEFINE D == DOMAIN t.valueToKey
  <2>1. IsFiniteSet(D) /\ Cardinality(D) \in Nat
    BY <1>1, FS_CardinalityType
  <2> HIDE DEF D
  <2>3. /\ IsFiniteSet(D \union {v})
        /\ Cardinality(D \union {v}) = IF v \in D THEN Cardinality(D) ELSE Cardinality(D) + 1
    BY <2>1, FS_AddElement, Zenon
  <2>2. IsFiniteSet(D \union {v}) /\ Cardinality(D \union {v}) <= Cardinality(D) + 1
    BY <2>1, <2>3
  <2> QED BY <1>5, <2>2, Zenon DEF D
<1>7. ValueSize(p) <= maxMap + 1
  <2>1. Cardinality(DOMAIN t.valueToKey) \in Nat /\ Cardinality(DOMAIN p.valueToKey) \in Nat
    BY <1>1, <1>6, FS_CardinalityType
  <2> QED BY <1>1, <1>6, <2>1 DEF ValueSize
<1>8. KeySize(p) <= maxMap + 1
  BY <1>1, <1>3, LenProperties DEF KeySize
<1> QED BY <1>3, <1>4, <1>5, <1>6, <1>7, <1>8 DEF Finite, IsTable, p

\* The empty table is one for any kind of key.
LEMMA EmptyBounded ==
  ASSUME NEW K
  PROVE  Bounded(EmptyTable, K) /\ DOMAIN EmptyTable.valueToKey = {}
<1> DEFINE t == EmptyTable
<1>1. t.keys = <<>> /\ t.keyToValue = <<>> /\ t.valueToKey = <<>>
  BY DEF EmptyTable
<1>2. DOMAIN t.valueToKey = {} /\ DOMAIN t.keyToValue = {} /\ ToSet(t.keys) = {} /\ Len(t.keys) = 0
  BY <1>1 DEF ToSet
<1>3. IsFiniteSet(DOMAIN t.valueToKey) /\ ValueSize(t) = 0 /\ KeySize(t) = 0
  BY <1>2, FS_EmptySet DEF ValueSize, KeySize
<1>4. t.keyToValue \in [ToSet(t.keys) -> ShortIds] /\ t.valueToKey \in [DOMAIN t.valueToKey -> K]
  BY <1>1, <1>2
<1> QED BY <1>1, <1>2, <1>3, <1>4 DEF Bounded, Finite, Fits, IsTable, IsInjective

\* set keeps a bounded table bounded, and its values are those that were there
\* and the new one.
LEMMA SetBounded ==
  ASSUME NEW K, NEW t, Bounded(t, K), NEW k \in K, NEW v \in ShortIds
  PROVE  LET u == Set(t, k, v)
         IN  /\ Passes(Put(t, k, v)) # {}
             /\ Bounded(u, K)
             /\ \A s \in DOMAIN u.valueToKey :
                   IF s = v THEN u.valueToKey[s] = k
                   ELSE s \in DOMAIN t.valueToKey /\ u.valueToKey[s] = t.valueToKey[s]
<1> DEFINE p == Put(t, k, v)
           u == Set(t, k, v)
<1>1. /\ Finite(p, K)
      /\ KeySize(p) <= maxMap + 1 /\ ValueSize(p) <= maxMap + 1
      /\ k \in ToSet(p.keys) /\ p.keyToValue[k] = v
      /\ DOMAIN p.valueToKey = DOMAIN t.valueToKey \union {v}
      /\ p.valueToKey[v] = k
      /\ \A s \in DOMAIN t.valueToKey : s # v => p.valueToKey[s] = t.valueToKey[s]
  BY PutKeeps
<1>2. u = Evicted(IF KeySize(p) # ValueSize(p) THEN EmptyTable ELSE p)
  BY DEF Set
<1> HIDE DEF p, u
<1>3. Passes(p) # {}
  BY <1>1, LoopCanEnd
<1>4. CASE KeySize(p) # ValueSize(p)
  <2>1. Finite(EmptyTable, K) /\ Fits(EmptyTable) /\ DOMAIN EmptyTable.valueToKey = {}
    BY EmptyBounded DEF Bounded
  <2>2. Passes(EmptyTable) # {}
    <3>1. KeySize(EmptyTable) <= maxMap + 1 /\ ValueSize(EmptyTable) <= maxMap + 1
      <4>1. KeySize(EmptyTable) = 0 /\ ValueSize(EmptyTable) = 0
        BY <2>1, FS_EmptySet DEF KeySize, ValueSize, EmptyTable
      <4> QED BY <4>1
    <3> QED BY <2>1, <3>1, LoopCanEnd
  <2>3. Bounded(Evicted(EmptyTable), K) /\ DOMAIN Evicted(EmptyTable).valueToKey = {}
    BY <2>1, <2>2, EvictedBounded
  <2>4. u = Evicted(EmptyTable)
    BY <1>2, <1>4
  <2> QED BY <1>3, <2>3, <2>4 DEF p, u
<1>5. CASE KeySize(p) = ValueSize(p)
  <2>1. u = Evicted(p)
    BY <1>2, <1>5
  <2>2. /\ Bounded(u, K)
        /\ \A s \in DOMAIN u.valueToKey :
              s \in DOMAIN p.valueToKey /\ u.valueToKey[s] = p.valueToKey[s]
    BY <1>1, <1>3, <2>1, EvictedBounded
  <2>3. \A s \in DOMAIN u.valueToKey :
           IF s = v THEN u.valueToKey[s] = k
           ELSE s \in DOMAIN t.valueToKey /\ u.valueToKey[s] = t.valueToKey[s]
    BY <1>1, <2>2
  <2> QED BY <1>3, <2>2, <2>3 DEF p, u
<1> QED BY <1>4, <1>5

\* The two tables agree on the message a short id was last made for.
TablesAgree ==
    \A s \in DOMAIN msgIdMap.valueToKey \cap DOMAIN msgDataMap.valueToKey :
        msgIdMap.valueToKey[s] = msgDataMap.valueToKey[s][1]

TInv ==
    /\ Bounded(msgIdMap, MsgIds)
    /\ Bounded(msgDataMap, Messages)
    /\ created \in Messages \union {undefined}
    /\ TablesAgree

LEMMA TInvInit == Init => TInv
  BY EmptyBounded DEF Init, TInv, TablesAgree

LEMMA TInvNext == TInv /\ [Next]_vars => TInv'
<1> SUFFICES ASSUME TInv, [Next]_vars PROVE TInv'
  OBVIOUS
<1>1. ASSUME NEW m \in Messages, createUniqueMsgId(m) PROVE TInv'
  <2>1. /\ msgIdMap' = Set(msgIdMap, m[1], Hash[m])
        /\ msgDataMap' = Set(msgDataMap, m, Hash[m])
        /\ created' = m
        /\ m[1] \in MsgIds /\ Hash[m] \in ShortIds
    BY <1>1 DEF createUniqueMsgId, Messages
  <2>2. /\ Bounded(msgIdMap', MsgIds)
        /\ \A s \in DOMAIN msgIdMap'.valueToKey :
              IF s = Hash[m] THEN msgIdMap'.valueToKey[s] = m[1]
              ELSE /\ s \in DOMAIN msgIdMap.valueToKey
                   /\ msgIdMap'.valueToKey[s] = msgIdMap.valueToKey[s]
    BY <2>1, SetBounded DEF TInv
  <2>3. /\ Bounded(msgDataMap', Messages)
        /\ \A s \in DOMAIN msgDataMap'.valueToKey :
              IF s = Hash[m] THEN msgDataMap'.valueToKey[s] = m
              ELSE /\ s \in DOMAIN msgDataMap.valueToKey
                   /\ msgDataMap'.valueToKey[s] = msgDataMap.valueToKey[s]
    BY <2>1, SetBounded DEF TInv
  <2>4. TablesAgree'
    BY <2>2, <2>3 DEF TInv, TablesAgree
  <2>5. Bounded(msgIdMap, MsgIds)' /\ Bounded(msgDataMap, Messages)'
    BY <2>2, <2>3 DEF Bounded, Finite, Fits, IsTable, KeySize, ValueSize, Messages
  <2> QED BY <2>1, <2>4, <2>5 DEF TInv, Messages
<1>2. CASE UNCHANGED vars
  BY <1>2 DEF vars, TInv, TablesAgree, Bounded, Finite, Fits, IsTable, KeySize, ValueSize,
              Messages
<1> QED BY <1>1, <1>2 DEF Next

\* Both tables keep their types whatever collides in them.
THEOREM TablesTyped == Spec => []TypeOK
<1>1. TInv => TypeOK
  BY DEF TInv, TypeOK, Bounded, Finite
<1> QED BY <1>1, TInvInit, TInvNext, PTL DEF Spec

\* set's eviction loop ends for every next message, in the table of msgIds
\* too, whose maps may be out of step.
THEOREM EvictionAlwaysEnds == Spec => []EvictionEnds
<1>1. ASSUME TInv PROVE EvictionEnds
  <2>1. ASSUME NEW m \in Messages
        PROVE  /\ Passes(Put(msgIdMap, m[1], Hash[m])) # {}
               /\ Passes(Put(msgDataMap, m, Hash[m])) # {}
    <3>1. m[1] \in MsgIds /\ Hash[m] \in ShortIds
      BY DEF Messages
    <3>2. Bounded(msgIdMap, MsgIds) /\ Bounded(msgDataMap, Messages)
      BY <1>1 DEF TInv
    <3>3. Passes(Put(msgIdMap, m[1], Hash[m])) # {}
      BY <3>1, <3>2, SetBounded
    <3>4. Passes(Put(msgDataMap, m, Hash[m])) # {}
      BY <3>1, <3>2, SetBounded
    <3> QED BY <3>3, <3>4
  <2> QED BY <2>1 DEF EvictionEnds
<1> QED BY <1>1, TInvInit, TInvNext, PTL DEF Spec

\* While the maps of msgIdMap are in step, the peer found for a msgId is that
\* of a message with this msgId.
THEOREM PeerAlwaysOfRightMessage == Spec => []PeerOfRightMessage
<1>1. ASSUME TInv PROVE PeerOfRightMessage
  <2> SUFFICES ASSUME InverseMaps(msgIdMap), NEW id \in MsgIds,
                      getPeerByMsgId(id) # undefined
               PROVE  getPeerByMsgId(id)[1] = id
    BY DEF PeerOfRightMessage
  <2> DEFINE s == getValue(msgIdMap, id)
  <2>1. s # undefined /\ getPeerByMsgId(id) = getKey(msgDataMap, s)
    BY DEF getPeerByMsgId, getMsgIdAndPeerByShortId
  <2>2. id \in DOMAIN msgIdMap.keyToValue /\ s = msgIdMap.keyToValue[id]
    BY <2>1 DEF getValue
  <2>3. s \in DOMAIN msgDataMap.valueToKey /\ getPeerByMsgId(id) = msgDataMap.valueToKey[s]
    BY <2>1 DEF getKey
  <2> HIDE DEF s
  <2>4. getKey(msgIdMap, s) = id
    BY <2>2 DEF InverseMaps
  <2>5. s \in DOMAIN msgIdMap.valueToKey /\ msgIdMap.valueToKey[s] = id
    BY <2>4 DEF getKey
  <2> QED BY <1>1, <2>3, <2>5 DEF TInv, TablesAgree
<1> QED BY <1>1, TInvInit, TInvNext, PTL DEF Spec

=============================================================================
