------------------------ MODULE SimpleResponseProofs ------------------------
(***************************************************************************)
(* Theorems about SimpleResponse, for any strings, names, codes and widths *)
(* of the structure's fields, and any number of calls of get_response.     *)
(* The lemmas say what get_response makes of one string, of one map, and   *)
(* of the body and trailers; the invariant says what the object holds.     *)
(***************************************************************************)
EXTENDS SimpleResponse, FiniteSetTheorems, SequenceTheorems, TLAPS

-----------------------------------------------------------------------------
(* Lengths.                                                                *)

(* A length or count survives its field's width exactly when it is below.  *)
LEMMA ModFits ==
  ASSUME NEW n \in Nat, NEW w \in Nat, w > 0
  PROVE  /\ n % w \in Nat /\ n % w < w
         /\ n % w = n <=> n < w
  BY SMTT(30)

(* What is sent for a string is all of it exactly when its length fits.    *)
LEMMA SlotFits ==
  ASSUME NEW s \in Texts, NEW w \in Nat, w > 0
  PROVE  /\ Read(Slot(s, w)) = Whole(s) <=> Length[s] < w
         /\ Read(Slot(s, w))[1] = s
         /\ Whole(s)[1] = s
<1>1. Length[s] \in Nat
  BY LengthAssumption
<1>2. Length[s] % w = Length[s] <=> Length[s] < w
  BY <1>1, ModFits
<1> QED
  BY <1>2 DEF Read, Slot, Whole

-----------------------------------------------------------------------------
(* The order of a map's keys.                                              *)

(* Every finite set of numbers has an increasing enumeration: the inverse  *)
(* of the function that counts the members up to each one.                 *)
LEMMA OrderExists ==
  ASSUME NEW keys \in SUBSET Nat, IsFiniteSet(keys)
  PROVE  \E f \in [1..Cardinality(keys) -> keys] :
           \A i, j \in DOMAIN f : i < j => f[i] < f[j]
<1> DEFINE n == Cardinality(keys)
           upto(k) == {x \in keys : x <= k}
           rank == [k \in keys |-> Cardinality(upto(k))]
<1>0. \A x \in keys : x \in Nat
  OBVIOUS
<1>1. n \in Nat
  BY FS_CardinalityType
<1>2. \A k \in keys : IsFiniteSet(upto(k)) /\ Cardinality(upto(k)) \in 1..n
  <2> SUFFICES ASSUME NEW k \in keys
               PROVE  IsFiniteSet(upto(k)) /\ Cardinality(upto(k)) \in 1..n
    OBVIOUS
  <2>1. IsFiniteSet(upto(k)) /\ Cardinality(upto(k)) <= n
    BY FS_Subset, upto(k) \in SUBSET keys
  <2>2. Cardinality(upto(k)) \in Nat
    BY <2>1, FS_CardinalityType
  <2>3. k \in upto(k)
    OBVIOUS
  <2>4. Cardinality(upto(k)) # 0
    BY <2>1, <2>3, FS_EmptySet
  <2> QED
    BY <2>1, <2>2, <2>4, <1>1
<1>3. \A k, m \in keys : k < m => rank[k] < rank[m]
  <2> SUFFICES ASSUME NEW k \in keys, NEW m \in keys, k < m
               PROVE  rank[k] < rank[m]
    OBVIOUS
  <2>1. k \in Nat /\ m \in Nat
    BY <1>0
  <2>2. \A x \in keys : x <= k => x <= m
    BY <2>1, <1>0
  <2>3. m <= m /\ ~(m <= k)
    BY <2>1
  <2>4. upto(k) \in SUBSET upto(m) /\ m \in upto(m) /\ m \notin upto(k)
    BY <2>2, <2>3
  <2>5. Cardinality(upto(k)) <= Cardinality(upto(m))
        /\ Cardinality(upto(m)) # Cardinality(upto(k))
    BY <2>4, <1>2, FS_Subset
  <2>6. rank[k] = Cardinality(upto(k)) /\ rank[m] = Cardinality(upto(m))
    OBVIOUS
  <2>7. Cardinality(upto(k)) \in Nat /\ Cardinality(upto(m)) \in Nat
    BY <1>2, FS_CardinalityType
  <2> HIDE DEF rank, upto
  <2> QED
    BY <2>5, <2>6, <2>7
<1>4. rank \in Injection(keys, 1..n)
  <2>1. rank \in [keys -> 1..n]
    BY <1>2
  <2>2. \A k, m \in keys : rank[k] = rank[m] => k = m
    <3> HIDE DEF rank, n
    <3> QED BY <1>3, <2>1, <1>1
  <2> QED
    BY <2>1, <2>2 DEF Injection, IsInjective
<1>5. rank \in Surjection(keys, 1..n)
  <2>1. IsFiniteSet(1..n) /\ Cardinality(1..n) = n
    BY <1>1, FS_Interval
  <2> HIDE DEF rank
  <2> QED
    BY <1>4, <2>1, FS_Injection
<1> DEFINE f == [i \in 1..n |-> CHOOSE k \in keys : rank[k] = i]
<1>6. \A i \in 1..n : f[i] \in keys /\ rank[f[i]] = i
  <2> HIDE DEF rank, n
  <2> QED BY <1>5 DEF Surjection
<1>7. \A i, j \in 1..n : i < j => f[i] < f[j]
  <2> HIDE DEF rank, f, n
  <2> SUFFICES ASSUME NEW i \in 1..n, NEW j \in 1..n, i < j
               PROVE  f[i] < f[j]
    OBVIOUS
  <2>1. f[i] \in keys /\ f[j] \in keys /\ rank[f[i]] = i /\ rank[f[j]] = j
    BY <1>6
  <2>2. ~(f[j] < f[i]) /\ f[i] # f[j]
    <3>1. i \in Nat /\ j \in Nat /\ ~(j < i) /\ i # j
      BY <1>1
    <3>2. CASE f[j] < f[i]
      BY <3>1, <3>2, <2>1, <1>3
    <3>3. CASE f[i] = f[j]
      BY <3>1, <3>3, <2>1
    <3> QED BY <3>2, <3>3
  <2>3. f[i] \in Nat /\ f[j] \in Nat
    BY <2>1, <1>0
  <2> QED
    BY <2>2, <2>3
<1> HIDE DEF rank
<1> QED
  BY <1>6, <1>7

MapType == [NameSet -> Texts \cup {NoEntry}]

(* The keys of a map are finitely many indices of names that have a value. *)
LEMMA KeysFinite ==
  ASSUME NEW map \in MapType
  PROVE  /\ Keys(map) \in SUBSET Nat
         /\ IsFiniteSet(Keys(map)) /\ Cardinality(Keys(map)) \in Nat
         /\ \A i \in Keys(map) : /\ i \in DOMAIN Names
                                 /\ Names[i] \in Texts
                                 /\ map[Names[i]] \in Texts
<1>1. Len(Names) \in Nat /\ DOMAIN Names = 1..Len(Names)
      /\ \A i \in DOMAIN Names : Names[i] \in Texts
  BY NamesAssumption
<1>2. Keys(map) \in SUBSET (1..Len(Names))
  BY <1>1 DEF Keys
<1>3. IsFiniteSet(1..Len(Names))
  BY <1>1, FS_Interval
<1>4. IsFiniteSet(Keys(map)) /\ Cardinality(Keys(map)) \in Nat
  BY <1>2, <1>3, FS_Subset, FS_CardinalityType
<1>5. \A i \in Keys(map) : i \in DOMAIN Names /\ Names[i] \in NameSet /\ map[Names[i]] # NoEntry
  BY DEF Keys, NameSet
<1> QED
  BY <1>1, <1>2, <1>4, <1>5 DEF MapType

(* Iterating over a map visits each of its keys once.                      *)
LEMMA InOrderCovers ==
  ASSUME NEW map \in MapType
  PROVE  LET keys == Keys(map)
             n    == Cardinality(keys)
         IN  /\ InOrder(keys) \in [1..n -> keys]
             /\ \A i, j \in 1..n : InOrder(keys)[i] = InOrder(keys)[j] => i = j
             /\ \A k \in keys : \E i \in 1..n : InOrder(keys)[i] = k
<1> DEFINE keys == Keys(map)
           n    == Cardinality(keys)
           f    == InOrder(keys)
<1>1. keys \in SUBSET Nat /\ IsFiniteSet(keys) /\ n \in Nat
  BY KeysFinite
<1>2. f \in [1..n -> keys] /\ \A i, j \in DOMAIN f : i < j => f[i] < f[j]
  BY <1>1, OrderExists DEF InOrder
<1> HIDE DEF f, keys
<1>3. \A i, j \in 1..n : f[i] = f[j] => i = j
  <2> SUFFICES ASSUME NEW i \in 1..n, NEW j \in 1..n, f[i] = f[j]
               PROVE  i = j
    OBVIOUS
  <2>1. f[i] \in Nat /\ f[j] \in Nat
    BY <1>1, <1>2
  <2>2. ~(i < j) /\ ~(j < i)
    BY <1>2, <2>1
  <2> QED
    BY <2>2, <1>1
<1>4. f \in Injection(1..n, keys)
  BY <1>2, <1>3 DEF Injection, IsInjective
<1>5. IsFiniteSet(1..n) /\ Cardinality(1..n) = n
  BY <1>1, FS_Interval
<1>6. f \in Surjection(1..n, keys)
  BY <1>1, <1>4, <1>5, FS_Injection
<1> QED
  BY <1>2, <1>3, <1>6 DEF Surjection, f, keys

-----------------------------------------------------------------------------
(* What get_response makes of a map.                                       *)

SlotType(width) == [text : Texts, len : 0..(width - 1)]
ArrayType == Seq([name : SlotType(UShort), value : SlotType(UShort)])

(* A function on 1..n is a sequence of length n.                           *)
LEMMA FunctionIsSeq ==
  ASSUME NEW S, NEW n \in Nat, NEW h \in [1..n -> S]
  PROVE  h \in Seq(S) /\ Len(h) = n
  OBVIOUS

(* A slot is of its type.                                                  *)
LEMMA SlotTyped ==
  ASSUME NEW s \in Texts, NEW w \in Nat, w > 0
  PROVE  Slot(s, w) \in SlotType(w)
<1>1. Length[s] \in Nat
  BY LengthAssumption
<1>2. Length[s] % w \in 0..(w - 1)
  BY <1>1, ModFits
<1> QED
  BY <1>2 DEF Slot, SlotType

(* The array has one entry for each key of the map.                        *)
LEMMA HeaderArrayTyped ==
  ASSUME NEW map \in MapType
  PROVE  /\ HeaderArray(map) \in ArrayType
         /\ Len(HeaderArray(map)) = Cardinality(Keys(map))
         /\ \A i \in 1..Cardinality(Keys(map)) :
              LET k == InOrder(Keys(map))[i]
              IN  /\ HeaderArray(map)[i].name = Slot(Names[k], UShort)
                  /\ HeaderArray(map)[i].value = Slot(map[Names[k]], UShort)
<1> DEFINE n == Cardinality(Keys(map))
           f == InOrder(Keys(map))
           h == HeaderArray(map)
<1>1. n \in Nat
  BY KeysFinite
<1>2. DOMAIN f = 1..n /\ \A i \in 1..n : f[i] \in Keys(map)
  BY InOrderCovers
<1>3. h = [i \in 1..n |-> [name |-> Slot(Names[f[i]], UShort), value |-> Slot(map[Names[f[i]]], UShort)]]
  BY <1>2 DEF HeaderArray
<1>4. \A i \in 1..n : h[i] \in [name : SlotType(UShort), value : SlotType(UShort)]
  BY <1>2, <1>3, KeysFinite, SlotTyped, WidthAssumption
<1>5. h \in [1..n -> [name : SlotType(UShort), value : SlotType(UShort)]]
  BY <1>3, <1>4
<1> HIDE DEF h, n, f
<1>6. h \in ArrayType /\ Len(h) = n
  BY <1>1, <1>5, FunctionIsSeq DEF ArrayType
<1>7. \A i \in 1..n : /\ h[i].name = Slot(Names[f[i]], UShort)
                      /\ h[i].value = Slot(map[Names[f[i]]], UShort)
  BY <1>3
<1> QED
  BY <1>6, <1>7 DEF h, n, f

Sent(map) == ReadArray(HeaderArray(map), Len(HeaderArray(map)) % UShort)

(* A map that fits is sent as it is.                                       *)
LEMMA FittingMapSent ==
  ASSUME NEW map \in MapType, MapFits(map)
  PROVE  Sent(map) = Entries(map)
<1> DEFINE n == Cardinality(Keys(map))
           f == InOrder(Keys(map))
           h == HeaderArray(map)
<1>1. n \in Nat /\ Len(h) % UShort = n
  BY KeysFinite, HeaderArrayTyped, ModFits, WidthAssumption DEF MapFits
<1>2. \A i \in 1..n : f[i] \in Keys(map)
  BY InOrderCovers
<1>3. \A k \in Keys(map) : /\ Read(Slot(Names[k], UShort)) = Whole(Names[k])
                           /\ Read(Slot(map[Names[k]], UShort)) = Whole(map[Names[k]])
  BY KeysFinite, SlotFits, WidthAssumption DEF MapFits
<1>4. \A i \in 1..n : /\ Read(h[i].name) = Whole(Names[f[i]])
                      /\ Read(h[i].value) = Whole(map[Names[f[i]]])
  <2> SUFFICES ASSUME NEW i \in 1..n
               PROVE  /\ Read(h[i].name) = Whole(Names[f[i]])
                      /\ Read(h[i].value) = Whole(map[Names[f[i]]])
    OBVIOUS
  <2>1. h[i].name = Slot(Names[f[i]], UShort) /\ h[i].value = Slot(map[Names[f[i]]], UShort)
    BY HeaderArrayTyped
  <2> HIDE DEF h, f, n
  <2> QED
    BY <2>1, <1>2, <1>3
<1>5. \A k \in Keys(map) : \E i \in 1..n : f[i] = k
  BY InOrderCovers
<1>6. Sent(map) = {<<Read(h[i].name), Read(h[i].value)>> : i \in 1..n}
  BY <1>1 DEF Sent, ReadArray
<1> HIDE DEF h, f, n
<1>7. Sent(map) = {<<Whole(Names[f[i]]), Whole(map[Names[f[i]]])>> : i \in 1..n}
  BY <1>4, <1>6
<1> QED
  BY <1>2, <1>5, <1>7 DEF Entries

(* A map that does not fit is not: a string that is too long is cut, and   *)
(* an array that is too long loses entries, all of which are different.    *)
LEMMA SentMapFits ==
  ASSUME NEW map \in MapType, Sent(map) = Entries(map)
  PROVE  MapFits(map)
<1> DEFINE n == Cardinality(Keys(map))
           f == InOrder(Keys(map))
           h == HeaderArray(map)
           count == Len(h) % UShort
<1>1. n \in Nat /\ Len(h) = n /\ count \in Nat /\ count < UShort
      /\ (n < UShort => count = n)
  BY KeysFinite, HeaderArrayTyped, ModFits, WidthAssumption
<1>2. \A i \in 1..n : f[i] \in Keys(map)
  BY InOrderCovers
<1>3. ~(n < UShort) => count < n
  BY <1>1, WidthAssumption
<1>4. \A i \in 1..count : i \in 1..n
  BY <1>1, <1>3
<1>5. \A i \in 1..count :
        /\ Read(h[i].name) = Read(Slot(Names[f[i]], UShort))
        /\ Read(h[i].value) = Read(Slot(map[Names[f[i]]], UShort))
  <2> SUFFICES ASSUME NEW i \in 1..count
               PROVE  /\ Read(h[i].name) = Read(Slot(Names[f[i]], UShort))
                      /\ Read(h[i].value) = Read(Slot(map[Names[f[i]]], UShort))
    OBVIOUS
  <2>1. h[i].name = Slot(Names[f[i]], UShort) /\ h[i].value = Slot(map[Names[f[i]]], UShort)
    BY <1>4, HeaderArrayTyped
  <2> HIDE DEF h, f, count
  <2> QED
    BY <2>1
<1>6. Sent(map) = {<<Read(h[i].name), Read(h[i].value)>> : i \in 1..count}
  BY DEF Sent, ReadArray
<1> HIDE DEF h, f, count
(* The entry of a key is sent, so its position is counted and it fits.     *)
<1>7. ASSUME NEW k \in Keys(map)
      PROVE  /\ \E i \in 1..count : f[i] = k
             /\ Length[Names[k]] < UShort /\ Length[map[Names[k]]] < UShort
  <2>1. <<Whole(Names[k]), Whole(map[Names[k]])>> \in Sent(map)
    BY DEF Entries
  <2>2. PICK i \in 1..count : /\ Read(h[i].name) = Whole(Names[k])
                              /\ Read(h[i].value) = Whole(map[Names[k]])
    BY <2>1, <1>6
  <2>3. f[i] \in Keys(map)
    BY <1>2, <1>4
  <2>4. Names[f[i]] = Names[k]
    BY <2>2, <2>3, <1>5, KeysFinite, SlotFits, WidthAssumption
  <2>5. f[i] = k
    BY <2>3, <2>4, KeysFinite, NamesAssumption
  <2>6. /\ Read(Slot(Names[k], UShort)) = Whole(Names[k])
        /\ Read(Slot(map[Names[k]], UShort)) = Whole(map[Names[k]])
    BY <2>2, <2>5, <1>5
  <2> QED
    BY <2>5, <2>6, KeysFinite, SlotFits, WidthAssumption
<1>8. n < UShort
  <2>1. SUFFICES ASSUME ~(n < UShort)
                 PROVE  FALSE
    OBVIOUS
  <2>2. n \in 1..n /\ f[n] \in Keys(map)
    BY <2>1, <1>1, <1>2, WidthAssumption
  <2>3. PICK i \in 1..count : f[i] = f[n]
    BY <2>2, <1>7
  <2>4. i = n
    BY <2>2, <2>3, <1>4, InOrderCovers DEF f
  <2> QED
    BY <2>1, <2>4, <1>1, <1>3
<1> QED
  BY <1>7, <1>8 DEF MapFits

(* A map has entries exactly when its array has.                           *)
LEMMA EmptyMaps ==
  ASSUME NEW map \in MapType
  PROVE  HeaderArray(map) = << >> <=> Entries(map) = {}
<1>1. Keys(map) = {} <=> Cardinality(Keys(map)) = 0
  BY KeysFinite, FS_EmptySet
<1>2. HeaderArray(map) = << >> <=> Len(HeaderArray(map)) = 0
  BY HeaderArrayTyped, EmptySeq DEF ArrayType
<1>3. Entries(map) = {} <=> Keys(map) = {}
  BY DEF Entries
<1> QED
  BY <1>1, <1>2, <1>3, HeaderArrayTyped

-----------------------------------------------------------------------------
(* What get_response makes of the body and the trailers.                   *)

Chunk ==
  [type : {"memory"}, data : SlotType(ULong)]
    \cup [type : {"trailers"}, count : Nat, array : ArrayType]

(* Up to two items, each there or not, written as get_response pushes them *)
(* and as the handler wants them.                                          *)
LEMMA TwoOptional ==
  ASSUME NEW S, NEW a \in S, NEW b \in S, NEW hasA \in BOOLEAN, NEW hasB \in BOOLEAN,
         NEW s, s = (IF hasA THEN <<a>> ELSE << >>) \o (IF hasB THEN <<b>> ELSE << >>)
  PROVE  /\ s \in Seq(S)
         /\ Len(s) = (IF hasA THEN 1 ELSE 0) + (IF hasB THEN 1 ELSE 0)
         /\ hasA => s[1] = a
         /\ hasB => s[Len(s)] = b
<1>1. << >> \in Seq(S) /\ Len(<< >>) = 0
  OBVIOUS
<1>2. <<a>> \in Seq(S) /\ <<b>> \in Seq(S) /\ Len(<<a>>) = 1 /\ Len(<<b>>) = 1
      /\ <<a>>[1] = a /\ <<b>>[1] = b
  OBVIOUS
<1>3. CASE hasA /\ hasB
  BY <1>2, <1>3, ConcatProperties
<1>4. CASE hasA /\ ~hasB
  BY <1>1, <1>2, <1>4, ConcatEmptySeq
<1>5. CASE ~hasA /\ hasB
  BY <1>1, <1>2, <1>5, ConcatEmptySeq
<1>6. CASE ~hasA /\ ~hasB
  BY <1>1, <1>6, ConcatEmptySeq
<1> QED
  BY <1>3, <1>4, <1>5, <1>6

FieldTypes ==
  /\ status_code_ \in Codes \cup {Unset}
  /\ reason_ \in Texts /\ body_ \in Texts
  /\ known_headers_ \in [HeaderIds -> Texts \cup {NoEntry}]
  /\ unknown_headers_ \in MapType
  /\ trailers_ \in MapType

(* The chunks a call adds are as many as the handler wants, and send what  *)
(* it wants exactly when the body and the trailers fit.                    *)
LEMMA NewChunksWanted ==
  ASSUME FieldTypes
  PROVE  /\ NewChunks \in Seq(Chunk)
         /\ Len(WantedEntity) = Len(NewChunks)
         /\ WantedEntity = [i \in 1..Len(NewChunks) |-> WantedEntity[i]]
         /\ EntityFits <=> \A i \in 1..Len(NewChunks) : ReadChunk(NewChunks[i]) = WantedEntity[i]
<1> DEFINE array == HeaderArray(trailers_)
           m  == MemoryChunk(body_)
           t  == TrailersChunk(array)
           wm == <<"memory", Whole(body_)>>
           wt == <<"trailers", Entries(trailers_)>>
           hasBody     == body_ # Empty
           hasTrailers == array # << >>
<1>1. m \in Chunk
  BY SlotTyped, WidthAssumption DEF FieldTypes, MemoryChunk, Chunk
<1>2. t \in Chunk
  <2>1. array \in ArrayType /\ Len(array) \in Nat
    BY HeaderArrayTyped, KeysFinite DEF FieldTypes
  <2>2. Len(array) % UShort \in Nat
    BY <2>1, ModFits, WidthAssumption
  <2> HIDE DEF array
  <2> QED
    BY <2>1, <2>2 DEF TrailersChunk, Chunk
<1>3. ReadChunk(m) = wm <=> Length[body_] < ULong
  BY SlotFits, WidthAssumption DEF FieldTypes, ReadChunk, MemoryChunk
<1>4. ReadChunk(t) = wt <=> MapFits(trailers_)
  <2>1. ReadChunk(t) = <<"trailers", Sent(trailers_)>>
    BY DEF ReadChunk, TrailersChunk, Sent
  <2> QED
    BY <2>1, FittingMapSent, SentMapFits DEF FieldTypes
<1>5. ~hasBody => Length[body_] < ULong
  BY LengthAssumption, WidthAssumption DEF FieldTypes
<1>6. ~hasTrailers => MapFits(trailers_)
  <2>1. ~hasTrailers => Cardinality(Keys(trailers_)) = 0
    BY HeaderArrayTyped, EmptySeq DEF FieldTypes
  <2>2. Cardinality(Keys(trailers_)) = 0 => Keys(trailers_) = {}
    BY KeysFinite, FS_EmptySet DEF FieldTypes
  <2> QED
    BY <2>1, <2>2, WidthAssumption DEF MapFits
<1>7. hasTrailers <=> Entries(trailers_) # {}
  BY EmptyMaps DEF FieldTypes
<1>8. NewChunks = (IF hasBody THEN <<m>> ELSE << >>) \o (IF hasTrailers THEN <<t>> ELSE << >>)
  BY DEF NewChunks
<1>9. WantedEntity = (IF hasBody THEN <<wm>> ELSE << >>) \o (IF hasTrailers THEN <<wt>> ELSE << >>)
  BY <1>7 DEF WantedEntity
<1>10. EntityFits <=> (hasBody => ReadChunk(m) = wm) /\ (hasTrailers => ReadChunk(t) = wt)
  BY <1>3, <1>4, <1>5, <1>6 DEF EntityFits
<1> HIDE DEF m, t, wm, wt, hasBody, hasTrailers
<1>11. hasBody \in BOOLEAN /\ hasTrailers \in BOOLEAN
  BY DEF hasBody, hasTrailers
<1>12. /\ NewChunks \in Seq(Chunk)
       /\ Len(NewChunks) = (IF hasBody THEN 1 ELSE 0) + (IF hasTrailers THEN 1 ELSE 0)
       /\ hasBody => NewChunks[1] = m
       /\ hasTrailers => NewChunks[Len(NewChunks)] = t
  BY <1>1, <1>2, <1>8, <1>11, TwoOptional
<1>13. /\ WantedEntity \in Seq({wm, wt})
       /\ Len(WantedEntity) = (IF hasBody THEN 1 ELSE 0) + (IF hasTrailers THEN 1 ELSE 0)
       /\ hasBody => WantedEntity[1] = wm
       /\ hasTrailers => WantedEntity[Len(WantedEntity)] = wt
  BY <1>9, <1>11, TwoOptional, wm \in {wm, wt}, wt \in {wm, wt}
<1>14. /\ Len(WantedEntity) = Len(NewChunks)
       /\ WantedEntity = [i \in 1..Len(NewChunks) |-> WantedEntity[i]]
  <2>1. Len(WantedEntity) = Len(NewChunks)
    BY <1>12, <1>13
  <2>2. WantedEntity \in [1..Len(WantedEntity) -> {wm, wt}]
    BY <1>13, LenProperties
  <2> QED
    BY <2>1, <2>2
<1>15. (\A i \in 1..Len(NewChunks) : ReadChunk(NewChunks[i]) = WantedEntity[i])
         <=> (hasBody => ReadChunk(m) = wm) /\ (hasTrailers => ReadChunk(t) = wt)
  <2> DEFINE n == Len(NewChunks)
  <2>1. n = (IF hasBody THEN 1 ELSE 0) + (IF hasTrailers THEN 1 ELSE 0)
    BY <1>12
  <2>2. /\ hasBody => NewChunks[1] = m /\ WantedEntity[1] = wm
        /\ hasTrailers => NewChunks[n] = t /\ WantedEntity[n] = wt
    BY <1>12, <1>13, <1>14
  <2> HIDE DEF n
  <2>3. CASE hasBody /\ hasTrailers
    <3>1. 1..n = {1, 2} /\ n = 2
      BY <2>1, <2>3
    <3> QED BY <3>1, <2>2, <2>3 DEF n
  <2>4. CASE hasBody /\ ~hasTrailers
    <3>1. 1..n = {1} /\ n = 1
      BY <2>1, <2>4
    <3> QED BY <3>1, <2>2, <2>4 DEF n
  <2>5. CASE ~hasBody /\ hasTrailers
    <3>1. 1..n = {1} /\ n = 1
      BY <2>1, <2>5
    <3> QED BY <3>1, <2>2, <2>5 DEF n
  <2>6. CASE ~hasBody /\ ~hasTrailers
    <3>1. 1..n = {}
      BY <2>1, <2>6
    <3> QED BY <3>1, <2>6 DEF n
  <2> QED
    BY <2>3, <2>4, <2>5, <2>6
<1> QED
  BY <1>10, <1>12, <1>14, <1>15

-----------------------------------------------------------------------------
(* The invariant: a structure that was built since the last setter was     *)
(* called was built from the fields as they are, and the chunks it points  *)
(* at end with those its call added.                                       *)

BuiltFrom(code, earlier) ==
  /\ status_code_ # Unset => code = status_code_
  /\ data_chunks_ = earlier \o NewChunks
  /\ resp_ = Response(code, data_chunks_)
ResponseIsCurrent ==
  resp_ # Unset => \E code \in Codes, earlier \in Seq(Chunk) : BuiltFrom(code, earlier)

IInv ==
  /\ FieldTypes
  /\ data_chunks_ \in Seq(Chunk)
  /\ ResponseIsCurrent

(* The object starts empty.                                                *)
LEMMA InitIInv == Init => IInv
<1> SUFFICES ASSUME Init PROVE IInv
  OBVIOUS
<1>1. FieldTypes
  BY LengthAssumption DEF Init, FieldTypes, EmptyMap, MapType
<1>2. << >> \in Seq(Chunk)
  OBVIOUS
<1> QED
  BY <1>1, <1>2 DEF Init, IInv, ResponseIsCurrent

(* A setter keeps its field's type and withdraws the structure.            *)
LEMMA SetterIInv ==
  ASSUME IInv, Changed,
         \/ \E code \in Codes : set_status_code(code)
         \/ \E s \in Texts :
              \/ set_reason(s) \/ set_body(s)
              \/ \E id \in HeaderIds : add_known_header(id, s)
         \/ \E name \in NameSet, s \in Values : add_unknown_header(name, s) \/ add_trailer(name, s)
  PROVE  IInv'
<1>1. resp_' = Unset /\ data_chunks_' = data_chunks_
  BY DEF Changed
<1>2. FieldTypes'
  <2>1. CASE \E code \in Codes : set_status_code(code)
    BY <2>1 DEF IInv, FieldTypes, set_status_code
  <2>2. CASE \E s \in Texts : set_reason(s)
    BY <2>2 DEF IInv, FieldTypes, set_reason
  <2>3. CASE \E s \in Texts : set_body(s)
    BY <2>3 DEF IInv, FieldTypes, set_body
  <2>4. CASE \E s \in Texts, id \in HeaderIds : add_known_header(id, s)
    BY <2>4 DEF IInv, FieldTypes, add_known_header
  <2>5. CASE \E name \in NameSet, s \in Values : add_unknown_header(name, s)
    BY <2>5, LengthAssumption DEF IInv, FieldTypes, MapType, add_unknown_header
  <2>6. CASE \E name \in NameSet, s \in Values : add_trailer(name, s)
    BY <2>6, LengthAssumption DEF IInv, FieldTypes, MapType, add_trailer
  <2> QED
    BY <2>1, <2>2, <2>3, <2>4, <2>5, <2>6
<1> QED
  BY <1>1, <1>2 DEF IInv, ResponseIsCurrent

(* get_response builds the structure from the fields.                      *)
LEMMA GetResponseIInv ==
  ASSUME IInv, get_response
  PROVE  IInv'
<1>1. FieldTypes' /\ status_code_' = status_code_
  BY DEF IInv, FieldTypes, get_response, fieldVars
<1>2. NewChunks \in Seq(Chunk)
  BY NewChunksWanted DEF IInv
<1>3. data_chunks_ \in Seq(Chunk) /\ data_chunks_' = data_chunks_ \o NewChunks
  BY DEF IInv, get_response
<1>4. data_chunks_' \in Seq(Chunk)
  BY <1>2, <1>3, ConcatProperties
<1>5. PICK code \in IF status_code_ = Unset THEN Codes ELSE {status_code_} :
        resp_' = Response(code, data_chunks_ \o NewChunks)
  BY DEF get_response
<1>6. code \in Codes /\ (status_code_ # Unset => code = status_code_)
  BY <1>5 DEF IInv, FieldTypes
<1>7. PICK earlier \in Seq(Chunk) : earlier = data_chunks_
  BY <1>3
<1>8. UNCHANGED fieldVars
  BY DEF get_response
<1>9. (resp_ = Response(code, data_chunks_))'
  BY <1>3, <1>5, <1>8 DEF fieldVars, Response, KnownSlots
<1>10. (data_chunks_ = earlier \o NewChunks)'
  BY <1>3, <1>7, <1>8 DEF fieldVars, NewChunks
<1>11. BuiltFrom(code, earlier)'
  BY <1>1, <1>6, <1>9, <1>10 DEF BuiltFrom
<1> QED
  BY <1>1, <1>4, <1>6, <1>11 DEF IInv, ResponseIsCurrent

(* The invariant is inductive.                                             *)
LEMMA NextIInv == IInv /\ [Next]_vars => IInv'
<1> SUFFICES ASSUME IInv, [Next]_vars PROVE IInv'
  OBVIOUS
<1>1. CASE get_response
  BY <1>1, GetResponseIInv
<1>2. CASE Next /\ ~get_response
  BY <1>2, SetterIInv DEF Next, set_status_code, set_reason, set_body,
     add_known_header, add_unknown_header, add_trailer
<1>3. CASE UNCHANGED vars
  BY <1>3 DEF vars, fieldVars, IInv, FieldTypes, ResponseIsCurrent, BuiltFrom, NewChunks,
     Response, KnownSlots
<1> QED
  BY <1>1, <1>2, <1>3

(* The fields keep their types, and a structure handed out describes the   *)
(* object as it is: what every call of get_response and every setter of    *)
(* simple_response leaves behind.                                          *)
THEOREM ResponseInvariance == Spec => []IInv
<1> QED
  BY InitIInv, NextIInv, PTL DEF Spec

-----------------------------------------------------------------------------
(* The properties.                                                         *)

(* The head sent is the one wanted exactly when it fits and has a status.  *)
LEMMA HeadSent ==
  ASSUME IInv, NEW code \in Codes, NEW earlier \in Seq(Chunk), BuiltFrom(code, earlier)
  PROVE  SentHead = WantedHead <=> status_code_ # Unset /\ HeadFits
<1> DEFINE value(id) == IF known_headers_[id] = NoEntry THEN Empty ELSE known_headers_[id]
<1>1. SentHead = [status  |-> code,
                  reason  |-> Read(Slot(reason_, UShort)),
                  known   |-> [id \in HeaderIds |-> Read(Slot(value(id), UShort))],
                  unknown |-> Sent(unknown_headers_)]
  BY DEF BuiltFrom, SentHead, Response, KnownSlots, Sent
<1>2. WantedHead = [status  |-> status_code_,
                    reason  |-> Whole(reason_),
                    known   |-> [id \in HeaderIds |-> Whole(value(id))],
                    unknown |-> Entries(unknown_headers_)]
  BY DEF WantedHead
<1>3. code = status_code_ <=> status_code_ # Unset
  BY SentinelAssumption DEF BuiltFrom
<1>4. Read(Slot(reason_, UShort)) = Whole(reason_) <=> Length[reason_] < UShort
  BY SlotFits, WidthAssumption DEF IInv, FieldTypes
<1>5. [id \in HeaderIds |-> Read(Slot(value(id), UShort))] = [id \in HeaderIds |-> Whole(value(id))]
        <=> \A id \in HeaderIds : known_headers_[id] # NoEntry => Length[known_headers_[id]] < UShort
  <2>1. \A id \in HeaderIds : value(id) \in Texts
    BY LengthAssumption DEF IInv, FieldTypes
  <2>2. \A id \in HeaderIds : Read(Slot(value(id), UShort)) = Whole(value(id))
                               <=> Length[value(id)] < UShort
    <3> HIDE DEF value
    <3> QED BY <2>1, SlotFits, WidthAssumption
  <2>3. \A id \in HeaderIds : Length[value(id)] < UShort
          <=> (known_headers_[id] # NoEntry => Length[known_headers_[id]] < UShort)
    BY LengthAssumption, WidthAssumption
  <2>4. [id \in HeaderIds |-> Read(Slot(value(id), UShort))] = [id \in HeaderIds |-> Whole(value(id))]
          <=> \A id \in HeaderIds : Read(Slot(value(id), UShort)) = Whole(value(id))
    <3> HIDE DEF value
    <3> QED OBVIOUS
  <2> HIDE DEF value
  <2> QED
    BY <2>2, <2>3, <2>4
<1>6. Sent(unknown_headers_) = Entries(unknown_headers_) <=> MapFits(unknown_headers_)
  BY FittingMapSent, SentMapFits DEF IInv, FieldTypes
<1>7. SentHead = WantedHead <=>
        /\ code = status_code_
        /\ Read(Slot(reason_, UShort)) = Whole(reason_)
        /\ [id \in HeaderIds |-> Read(Slot(value(id), UShort))] = [id \in HeaderIds |-> Whole(value(id))]
        /\ Sent(unknown_headers_) = Entries(unknown_headers_)
  <2> HIDE DEF value
  <2> QED BY <1>1, <1>2
<1> HIDE DEF value
<1> QED
  BY <1>3, <1>4, <1>5, <1>6, <1>7 DEF HeadFits

(* The entity sent is what earlier calls left, then what this one added.   *)
LEMMA EntitySent ==
  ASSUME IInv, NEW code \in Codes, NEW earlier \in Seq(Chunk), BuiltFrom(code, earlier),
         Len(data_chunks_) < UShort
  PROVE  /\ Len(earlier) \in Nat /\ Len(WantedEntity) \in Nat
         /\ Len(data_chunks_) = Len(earlier) + Len(WantedEntity)
         /\ DOMAIN WantedEntity = 1..Len(WantedEntity)
         /\ Len(SentEntity) = Len(data_chunks_)
         /\ SentEntity = [i \in 1..Len(data_chunks_) |-> SentEntity[i]]
         /\ \A i \in 1..Len(WantedEntity) : SentEntity[Len(earlier) + i] = ReadChunk(NewChunks[i])
<1>1. /\ NewChunks \in Seq(Chunk) /\ Len(WantedEntity) = Len(NewChunks)
      /\ DOMAIN WantedEntity = 1..Len(NewChunks)
  BY NewChunksWanted DEF IInv
<1>2. Len(earlier) \in Nat /\ Len(NewChunks) \in Nat
  BY <1>1
<1>3. /\ Len(data_chunks_) = Len(earlier) + Len(NewChunks)
      /\ \A i \in 1..(Len(earlier) + Len(NewChunks)) :
           data_chunks_[i] = IF i <= Len(earlier) THEN earlier[i] ELSE NewChunks[i - Len(earlier)]
  BY <1>1, ConcatProperties DEF BuiltFrom
<1> DEFINE total == Len(data_chunks_)
           e == Len(earlier)
           n == Len(NewChunks)
<1>4. total \in Nat /\ total % UShort = total
  BY <1>2, <1>3, ModFits, WidthAssumption
<1>5. SentEntity = [i \in 1..total |-> ReadChunk(data_chunks_[i])]
  BY <1>4 DEF SentEntity, BuiltFrom, Response
<1> HIDE DEF total, e, n
<1>6. SentEntity = [i \in 1..total |-> SentEntity[i]] /\ Len(SentEntity) = total
  BY <1>4, <1>5
<1>7. \A i \in 1..n : SentEntity[e + i] = ReadChunk(NewChunks[i])
  <2> SUFFICES ASSUME NEW i \in 1..n
               PROVE  SentEntity[e + i] = ReadChunk(NewChunks[i])
    OBVIOUS
  <2>1. /\ e \in Nat /\ n \in Nat /\ total = e + n
    BY <1>2, <1>3 DEF total, e, n
  <2>2. e + i \in 1..total /\ ~(e + i <= e) /\ (e + i) - e = i
    BY <2>1
  <2>3. data_chunks_[e + i] = NewChunks[i]
    BY <1>3, <2>1, <2>2 DEF e, n
  <2> QED
    BY <1>5, <2>2, <2>3
<1> QED
  BY <1>1, <1>2, <1>3, <1>6, <1>7 DEF total, e, n

(* The invariant gives the two properties.                                 *)
LEMMA IInvDescribes == IInv => DescribesExactlyWhen
<1> SUFFICES ASSUME IInv, resp_ # Unset, Len(data_chunks_) < UShort
             PROVE  SentHead = WantedHead /\ SentEntity = WantedEntity
                      <=> /\ status_code_ # Unset
                          /\ HeadFits /\ EntityFits
                          /\ Len(data_chunks_) = Len(WantedEntity)
  BY DEF DescribesExactlyWhen
<1>1. PICK code \in Codes, earlier \in Seq(Chunk) : BuiltFrom(code, earlier)
  BY DEF IInv, ResponseIsCurrent
<1>2. SentHead = WantedHead <=> status_code_ # Unset /\ HeadFits
  BY <1>1, HeadSent
<1> DEFINE total == Len(data_chunks_)
           e == Len(earlier)
           n == Len(WantedEntity)
<1>3. /\ e \in Nat /\ n \in Nat /\ total = e + n
      /\ Len(SentEntity) = total
      /\ SentEntity = [i \in 1..total |-> SentEntity[i]]
      /\ \A i \in 1..n : SentEntity[e + i] = ReadChunk(NewChunks[i])
  BY <1>1, EntitySent
<1>4. /\ WantedEntity = [i \in 1..n |-> WantedEntity[i]]
      /\ EntityFits <=> \A i \in 1..n : ReadChunk(NewChunks[i]) = WantedEntity[i]
  BY NewChunksWanted, <1>3 DEF IInv
<1> HIDE DEF total, e, n
<1>5. CASE total = n
  <2>1. e = 0 /\ \A i \in 1..n : e + i = i
    BY <1>3, <1>5
  <2>2. \A i \in 1..n : SentEntity[i] = ReadChunk(NewChunks[i])
    BY <1>3, <2>1
  <2>3. SentEntity = WantedEntity <=> \A i \in 1..n : SentEntity[i] = WantedEntity[i]
    BY <1>3, <1>4, <1>5
  <2> QED
    BY <1>2, <1>4, <1>5, <2>2, <2>3 DEF total, n
<1>6. CASE total # n
  <2>1. SentEntity # WantedEntity
    BY <1>3, <1>6 DEF n
  <2> QED
    BY <2>1, <1>6 DEF total, n
<1> QED
  BY <1>5, <1>6

LEMMA IInvReuse == IInv => ReuseOnlyAddsChunks
<1> SUFFICES ASSUME IInv, resp_ # Unset
             PROVE  /\ status_code_ # Unset /\ HeadFits => SentHead = WantedHead
                    /\ EntityFits /\ Len(data_chunks_) < UShort =>
                         \A i \in DOMAIN WantedEntity :
                           SentEntity[Len(SentEntity) - Len(WantedEntity) + i] = WantedEntity[i]
  BY DEF ReuseOnlyAddsChunks
<1>1. PICK code \in Codes, earlier \in Seq(Chunk) : BuiltFrom(code, earlier)
  BY DEF IInv, ResponseIsCurrent
<1>2. status_code_ # Unset /\ HeadFits => SentHead = WantedHead
  BY <1>1, HeadSent
<1>3. ASSUME EntityFits, Len(data_chunks_) < UShort, NEW i \in DOMAIN WantedEntity
      PROVE  SentEntity[Len(SentEntity) - Len(WantedEntity) + i] = WantedEntity[i]
  <2> DEFINE e == Len(earlier)
             n == Len(WantedEntity)
             total == Len(SentEntity)
  <2>1. /\ e \in Nat /\ n \in Nat /\ total = e + n /\ i \in 1..n
        /\ SentEntity[e + i] = ReadChunk(NewChunks[i])
    BY <1>1, <1>3, EntitySent
  <2>2. ReadChunk(NewChunks[i]) = WantedEntity[i]
    BY <1>3, NewChunksWanted DEF IInv
  <2> HIDE DEF e, n, total
  <2>3. total - n = e
    BY <2>1
  <2> QED
    BY <2>1, <2>2, <2>3 DEF n, total
<1> QED
  BY <1>2, <1>3

(* What get_response returns describes what the handler set exactly when a *)
(* status was set, everything fits the structure's fields and nothing of   *)
(* an earlier call is left.                                                *)
THEOREM ResponseDescribes == Spec => []DescribesExactlyWhen
<1> QED
  BY ResponseInvariance, IInvDescribes, PTL

(* However often get_response was called before, the head is right and the *)
(* body and trailers come last.                                            *)
THEOREM ResponseReuse == Spec => []ReuseOnlyAddsChunks
<1> QED
  BY ResponseInvariance, IInvReuse, PTL
=============================================================================
