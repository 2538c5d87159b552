--------------------------- MODULE RawTableProofs ---------------------------
(***************************************************************************)
(* The theorems about RawTable: it implements a map from keys to values,   *)
(* its length is a border, and a traversal misses nothing and repeats      *)
(* nothing, for any number of keys, any sizes of both parts, and whatever  *)
(* hashbrown does with buckets.                                            *)
(***************************************************************************)
EXTENDS RawTable, StackLemmas

-----------------------------------------------------------------------------
(* Keys. *)

\* No two objects are equal strings; README section 4 says what happens otherwise.
DistinctKeys == \A o, p \in Objects : Bytes[o] = Bytes[p] => o = p

\* What the fields of a key are.
LEMMA KeyFields ==
  ASSUME NEW k \in Keys
  PROVE  \/ k.type = "integer" /\ k.of \in Ints /\ k = IntKey(k.of)
         \/ k.type = "object" /\ k.of \in Objects /\ k = [type |-> "object", of |-> k.of]
  BY DEF Keys, IntKey

\* Keys with different bytes are equal only to themselves.
LEMMA KeyEquality ==
  ASSUME DistinctKeys, NEW k \in Keys, NEW l \in Keys
  PROVE  SameKey(k, l) <=> k = l
  BY KeyFields DEF SameKey, DistinctKeys, IntKey

\* An input that is valid stands for a key, at the same place.
LEMMA InputFacts ==
  ASSUME NEW k \in Inputs
  PROVE  /\ ArrayIndex(k) \in Nat
         /\ ArrayIndex(k) > 0 => ValidKey(k) /\ CanonicalKey(k) = IntKey(ArrayIndex(k))
         /\ ValidKey(k) => CanonicalKey(k) \in Keys /\ ArrayIndex(CanonicalKey(k)) = ArrayIndex(k)
<1>1. CASE k \in Keys
  BY <1>1, KeyFields, TableAssumption DEF ArrayIndex, ValidKey, CanonicalKey, IntKey
<1>2. CASE k \in [type : {"float"}, of : Ints]
  <2>1. k.type = "float" /\ k.of \in Ints /\ k.of \in Int
    BY <1>2, TableAssumption
  <2>2. CanonicalKey(k) = IntKey(k.of) /\ IntKey(k.of) \in Keys /\ ValidKey(k)
    BY <2>1 DEF CanonicalKey, Keys, ValidKey
  <2> QED
    BY <2>1, <2>2 DEF ArrayIndex, IntKey
<1>3. CASE k \in [type : {"nil", "nan"}, of : {Nil}]
  BY <1>3 DEF ArrayIndex, ValidKey
<1> QED
  BY <1>1, <1>2, <1>3 DEF Inputs

\* Keys of the model are canonical, and one with an index is that integer.
LEMMA KeyIndex ==
  ASSUME NEW k \in Keys
  PROVE  /\ ArrayIndex(k) \in Nat /\ ValidKey(k) /\ CanonicalKey(k) = k
         /\ ArrayIndex(k) > 0 => k = IntKey(ArrayIndex(k))
  BY KeyFields, TableAssumption DEF ArrayIndex, ValidKey, CanonicalKey, IntKey

\* A positive integer is a canonical key and its own index.
LEMMA IntKeyIndex ==
  ASSUME NEW i \in Nat, i > 0
  PROVE  ArrayIndex(IntKey(i)) = i /\ ValidKey(IntKey(i)) /\ CanonicalKey(IntKey(i)) = IntKey(i)
  BY DEF ArrayIndex, IntKey, ValidKey, CanonicalKey

-----------------------------------------------------------------------------
(* The map part. *)

Bucket == MapEntry \cup {Empty, Tombstone}

\* MapWellFormed of any map, next to an array of n elements.
Kept(m, n) ==
  /\ \A b, c \in Items(m) : m[b].key = m[c].key => b = c
  /\ \A b \in Items(m) : ArrayIndex(m[b].key) \notin 1..n
  /\ \A b \in Items(m) : m[b].dead => m[b].val = Nil

\* The buckets of a map.
LEMMA Buckets ==
  ASSUME NEW m \in Seq(Bucket)
  PROVE  /\ Len(m) \in Nat /\ DOMAIN m = 1..Len(m)
         /\ \A b \in DOMAIN m : m[b] \in Bucket
         /\ Items(m) \subseteq 1..Len(m)
         /\ \A b \in DOMAIN m : b \in Items(m) <=> m[b] \notin {Empty, Tombstone}
         /\ \A b \in Items(m) : m[b] \in MapEntry
         /\ IsFiniteSet(Items(m)) /\ Cardinality(Items(m)) \in Nat
<1>1. Len(m) \in Nat /\ DOMAIN m = 1..Len(m) /\ \A b \in DOMAIN m : m[b] \in Bucket
  OBVIOUS
<1>2. \A e \in Bucket : e.state = "FULL" <=> e \notin {Empty, Tombstone}
  BY DEF Bucket, MapEntry, Empty, Tombstone
<1>3. Items(m) \subseteq 1..Len(m)
  BY <1>1 DEF Items
<1>4. \A b \in DOMAIN m : b \in Items(m) <=> m[b] \notin {Empty, Tombstone}
  BY <1>1, <1>2 DEF Items, Full
<1>5. \A b \in Items(m) : m[b] \in MapEntry
  BY <1>1, <1>3, <1>4 DEF Bucket
<1>6. IsFiniteSet(Items(m))
  <2>1. IsFiniteSet(1..Len(m))
    BY <1>1, FS_Interval
  <2> QED
    BY <1>3, <2>1, FS_Subset
<1> QED
  BY <1>1, <1>3, <1>4, <1>5, <1>6, FS_CardinalityType

\* Which entries a lookup can find.
LEMMA HoldingKey ==
  ASSUME DistinctKeys, NEW m \in Seq(Bucket), NEW k \in Keys
  PROVE  Holding(m, k) = {b \in Items(m) : m[b].key = k}
<1>1. \A b \in Items(m) : m[b].key \in Keys
  BY Buckets DEF MapEntry
<1> QED
  BY <1>1, KeyEquality DEF Holding, Matches

\* What a lookup gives.
LEMMA LookupValue ==
  ASSUME DistinctKeys, NEW m \in Seq(Bucket), NEW n, Kept(m, n), NEW b \in Items(m)
  PROVE  Holding(m, m[b].key) = {b} /\ Lookup(m, m[b].key) = m[b].val
<1>1. m[b].key \in Keys
  BY Buckets DEF MapEntry
<1>2. Holding(m, m[b].key) = {b}
  BY <1>1, HoldingKey DEF Kept
<1> QED
  BY <1>2 DEF Lookup

\* Erasing entries.
LEMMA RetainedMap ==
  ASSUME NEW m \in Seq(Bucket), NEW gone \in SUBSET Items(m), NEW tombs \in SUBSET gone
  PROVE  /\ Retained(m, gone, tombs) \in Seq(Bucket)
         /\ Len(Retained(m, gone, tombs)) = Len(m)
         /\ Items(Retained(m, gone, tombs)) = Items(m) \ gone
         /\ \A b \in Items(m) \ gone : Retained(m, gone, tombs)[b] = m[b]
<1> DEFINE r == Retained(m, gone, tombs)
<1>1. /\ Len(m) \in Nat /\ DOMAIN m = 1..Len(m) /\ \A b \in DOMAIN m : m[b] \in Bucket
      /\ gone \subseteq 1..Len(m) /\ tombs \subseteq 1..Len(m)
  BY Buckets
<1>2. Empty \in Bucket /\ Tombstone \in Bucket
  BY DEF Bucket
<1>3. r = [b \in 1..Len(m) |-> IF b \in tombs THEN Tombstone ELSE IF b \in gone THEN Empty ELSE m[b]]
  BY <1>1 DEF Retained
<1> HIDE DEF r
<1>4. r \in Seq(Bucket) /\ Len(r) = Len(m)
  <2>1. r \in [1..Len(m) -> Bucket]
    BY <1>1, <1>2, <1>3
  <2> QED
    BY <1>1, <2>1
<1>5. \A b \in 1..Len(m) : b \in gone => r[b] \in {Empty, Tombstone}
  BY <1>3
<1>6. \A b \in 1..Len(m) : b \notin gone => r[b] = m[b]
  BY <1>3
<1>7. Items(r) = Items(m) \ gone
  BY <1>1, <1>4, <1>5, <1>6, Buckets
<1> QED
  BY <1>1, <1>4, <1>6, <1>7, Buckets DEF r

\* Fewer entries are as well kept.
LEMMA FewerKept ==
  ASSUME NEW m, NEW r, NEW n, Kept(m, n), \A b \in Items(r) : b \in Items(m) /\ r[b] = m[b]
  PROVE  Kept(r, n)
  BY DEF Kept

\* Entries put into other buckets.
LEMMA RehashedTyped ==
  ASSUME NEW m \in Seq(Bucket), NEW n \in Nat, NEW r \in Rehashed(m, n)
  PROVE  /\ r \in Seq(Bucket) /\ Len(r) = n
         /\ Cardinality(Items(r)) = Cardinality(Items(m))
         /\ \A b \in Items(m) : \E c \in Items(r) : r[c] = m[b]
         /\ \A c \in Items(r) : \E b \in Items(m) : r[c] = m[b]
<1>1. /\ r \in [1..n -> {Empty} \cup {m[b] : b \in Items(m)}]
      /\ Cardinality(Items(r)) = Cardinality(Items(m))
      /\ \A b \in Items(m) : \E c \in Items(r) : r[c] = m[b]
  BY DEF Rehashed
<1>2. {Empty} \cup {m[b] : b \in Items(m)} \subseteq Bucket
  BY Buckets DEF Bucket
<1>3. r \in Seq(Bucket) /\ Len(r) = n /\ DOMAIN r = 1..n
  BY <1>1, <1>2
<1>4. ASSUME NEW c \in Items(r) PROVE \E b \in Items(m) : r[c] = m[b]
  <2>1. c \in 1..n /\ r[c] # Empty
    BY <1>3, Buckets
  <2> QED
    BY <1>1, <2>1
<1> QED
  BY <1>1, <1>3, <1>4

\* None of them is there twice.
LEMMA RehashedMap ==
  ASSUME NEW m \in Seq(Bucket), NEW n \in Nat, NEW r \in Rehashed(m, n), NEW k, Kept(m, k)
  PROVE  Kept(r, k)
<1> DEFINE E == {m[b] : b \in Items(m)}
           f == [c \in Items(r) |-> r[c]]
           g == [b \in Items(m) |-> m[b]]
<1>1. IsFiniteSet(Items(m)) /\ r \in Seq(Bucket) /\ IsFiniteSet(Items(r))
  BY RehashedTyped, Buckets
<1>2. g \in Bijection(Items(m), E)
  <2>1. g \in [Items(m) -> E] /\ \A e \in E : \E b \in Items(m) : g[b] = e
    OBVIOUS
  <2>2. \A a, b \in Items(m) : g[a] = g[b] => a = b
    BY DEF Kept
  <2> HIDE DEF E, g
  <2>3. g \in Injection(Items(m), E)
    BY <2>1, <2>2 DEF Injection, IsInjective
  <2>4. g \in Surjection(Items(m), E)
    BY <2>1 DEF Surjection
  <2> QED
    BY <2>3, <2>4 DEF Bijection
<1>3. Cardinality(E) = Cardinality(Items(r))
  BY <1>1, <1>2, FS_Bijection, RehashedTyped DEF ExistsBijection
<1>4. f \in Surjection(Items(r), E)
  <2>1. \A c \in Items(r) : f[c] \in E
    BY RehashedTyped
  <2>2. \A e \in E : \E c \in Items(r) : f[c] = e
    BY RehashedTyped
  <2> QED
    BY <2>1, <2>2 DEF Surjection
<1>5. f \in Injection(Items(r), E)
  BY <1>1, <1>3, <1>4, FS_SurjSameCardinalityImpliesInj
<1>6. \A b, c \in Items(r) : r[b] = r[c] => b = c
  <2>1. \A b, c \in Items(r) : f[b] = f[c] => b = c
    BY <1>5 DEF Injection, IsInjective
  <2> QED
    BY <2>1
<1>7. \A b, c \in Items(r) : r[b].key = r[c].key => r[b] = r[c]
  BY RehashedTyped DEF Kept
<1>8. \A b \in Items(r) : ArrayIndex(r[b].key) \notin 1..k /\ (r[b].dead => r[b].val = Nil)
  BY RehashedTyped DEF Kept
<1> QED
  BY <1>6, <1>7, <1>8 DEF Kept

\* A new entry.
LEMMA PutEntry ==
  ASSUME NEW m \in Seq(Bucket), NEW b \in DOMAIN m \ Items(m),
         NEW k \in Keys, NEW v \in Vals \cup {Nil}
  PROVE  /\ [m EXCEPT ![b] = Entry(k, v)] \in Seq(Bucket)
         /\ Len([m EXCEPT ![b] = Entry(k, v)]) = Len(m)
         /\ Items([m EXCEPT ![b] = Entry(k, v)]) = Items(m) \cup {b}
         /\ [m EXCEPT ![b] = Entry(k, v)][b] = Entry(k, v)
         /\ \A c \in Items(m) : [m EXCEPT ![b] = Entry(k, v)][c] = m[c]
<1> DEFINE r == [m EXCEPT ![b] = Entry(k, v)]
<1>1. Entry(k, v) \in MapEntry /\ Entry(k, v) \in Bucket /\ Entry(k, v) \notin {Empty, Tombstone}
  BY DEF Entry, MapEntry, Bucket, Empty, Tombstone
<1>2. r \in Seq(Bucket) /\ Len(r) = Len(m) /\ DOMAIN r = DOMAIN m
  BY <1>1
<1>3. r[b] = Entry(k, v) /\ \A c \in DOMAIN m : c # b => r[c] = m[c]
  OBVIOUS
<1> HIDE DEF r
<1>4. \A c \in DOMAIN m : c \in Items(r) <=> c = b \/ c \in Items(m)
  BY <1>1, <1>2, <1>3, Buckets
<1>5. Items(r) = Items(m) \cup {b}
  BY <1>2, <1>4, Buckets
<1>6. \A c \in Items(m) : r[c] = m[c]
  BY <1>3, Buckets
<1> QED
  BY <1>2, <1>3, <1>5, <1>6 DEF r

\* It is as well kept, if nothing has its key.
LEMMA PutKept ==
  ASSUME NEW m \in Seq(Bucket), NEW n, Kept(m, n), NEW b \in DOMAIN m \ Items(m),
         NEW k \in Keys, NEW v \in Vals \cup {Nil},
         ArrayIndex(k) \notin 1..n, \A c \in Items(m) : m[c].key # k
  PROVE  Kept([m EXCEPT ![b] = Entry(k, v)], n)
<1> DEFINE r == [m EXCEPT ![b] = Entry(k, v)]
<1>1. Entry(k, v).key = k /\ Entry(k, v).dead = FALSE
  BY DEF Entry
<1>2. Items(r) = Items(m) \cup {b} /\ r[b] = Entry(k, v) /\ \A c \in Items(m) : r[c] = m[c]
  BY PutEntry
<1> HIDE DEF r
<1>3. \A c \in Items(m) : r[c].key # r[b].key
  BY <1>1, <1>2
<1>4. \A c, d \in Items(r) : r[c].key = r[d].key => c = d
  BY <1>2, <1>3 DEF Kept
<1> QED
  BY <1>1, <1>2, <1>4 DEF Kept, r

\* Where a new entry goes, and what is left to fill.
LEMMA PlacesFree ==
  ASSUME NEW m \in Seq(Bucket), NEW left \in Nat, NEW b \in InsertPlaces(m, left)
  PROVE  b \in DOMAIN m \ Items(m) /\ LeftAfter(m, left, b) \in Nat
<1>1. b \in DOMAIN m /\ (m[b] = Tombstone \/ (m[b] = Empty /\ left > 0))
  BY DEF InsertPlaces
<1>2. b \notin Items(m)
  BY <1>1, Buckets
<1>3. Empty # Tombstone
  BY DEF Empty, Tombstone
<1> QED
  BY <1>1, <1>2, <1>3 DEF LeftAfter

\* The map after reserve_map: the entries of the old one, but for some with nil.
Reordered(m, r) ==
  /\ \A c \in Items(r) : \E b \in Items(m) : r[c] = m[b]
  /\ \A b \in Items(m) : m[b].val # Nil => \E c \in Items(r) : r[c] = m[b]

\* reserve leaves the same buckets in some order, or a new map of the live ones.
LEMMA ReservedTyped ==
  ASSUME map \in Seq(Bucket), growth_left \in Nat, NEW additional \in Nat, NEW r \in Reserved(additional)
  PROVE  r.map \in Seq(Bucket) /\ r.left \in Nat /\ Reordered(map, r.map)
<1>1. CASE additional <= growth_left
  <2>1. r.map = map /\ r.left = growth_left
    BY <1>1 DEF Reserved
  <2> QED
    BY <2>1 DEF Reordered
<1>2. CASE ~(additional <= growth_left)
  <2> DEFINE nils == NilEntries(map)
             keeps(tombs) == Retained(map, nils, tombs)
             left(tombs) == growth_left + Cardinality(nils \ tombs)
             need(tombs) == Cardinality(Items(keeps(tombs))) + additional
             grows(tombs) ==
               UNION { {[map |-> q, left |-> Capacity(n) - Cardinality(Items(keeps(tombs)))] :
                          q \in Rehashed(keeps(tombs), n)} :
                       n \in {c \in BucketCounts : need(tombs) <= Capacity(c)} }
  <2>1. PICK tombs \in SUBSET nils :
          r \in IF additional <= left(tombs) THEN {[map |-> keeps(tombs), left |-> left(tombs)]}
                ELSE grows(tombs)
    BY <1>2 DEF Reserved
  <2>2. nils \in SUBSET Items(map) /\ \A b \in Items(map) : map[b].val # Nil => b \notin nils
    BY DEF NilEntries
  <2> HIDE DEF nils
  <2>3. /\ keeps(tombs) \in Seq(Bucket) /\ Items(keeps(tombs)) = Items(map) \ nils
        /\ \A b \in Items(map) \ nils : keeps(tombs)[b] = map[b]
    <3>0. map \in Seq(Bucket) /\ nils \in SUBSET Items(map) /\ tombs \in SUBSET nils
      BY <2>2
    <3>1. /\ Retained(map, nils, tombs) \in Seq(Bucket)
          /\ Len(Retained(map, nils, tombs)) = Len(map)
          /\ Items(Retained(map, nils, tombs)) = Items(map) \ nils
          /\ \A b \in Items(map) \ nils : Retained(map, nils, tombs)[b] = map[b]
      BY <3>0, RetainedMap, Zenon
    <3> QED
      BY <3>1
  <2>4. Reordered(map, keeps(tombs))
    <3> HIDE DEF keeps
    <3> QED
      BY <2>2, <2>3 DEF Reordered
  <2>5. left(tombs) \in Nat
    <3>1. IsFiniteSet(nils \ tombs)
      BY <2>2, Buckets, FS_Subset
    <3> QED
      BY <3>1, FS_CardinalityType
  <2>6. CASE additional <= left(tombs)
    <3>1. r.map = keeps(tombs) /\ r.left = left(tombs)
      BY <2>1, <2>6
    <3> QED
      BY <2>3, <2>4, <2>5, <3>1
  <2>7. CASE ~(additional <= left(tombs))
    <3>1. PICK n \in BucketCounts :
            /\ need(tombs) <= Capacity(n)
            /\ \E q \in Rehashed(keeps(tombs), n) :
                 r = [map |-> q, left |-> Capacity(n) - Cardinality(Items(keeps(tombs)))]
      BY <2>1, <2>7
    <3>2. /\ r.map \in Rehashed(keeps(tombs), n)
          /\ r.left = Capacity(n) - Cardinality(Items(keeps(tombs)))
      BY <3>1
    <3>3. n \in Nat
      BY TableAssumption
    <3> HIDE DEF keeps
    <3>4. /\ r.map \in Seq(Bucket)
          /\ \A b \in Items(keeps(tombs)) : \E c \in Items(r.map) : r.map[c] = keeps(tombs)[b]
          /\ \A c \in Items(r.map) : \E b \in Items(keeps(tombs)) : r.map[c] = keeps(tombs)[b]
      BY <2>3, <3>2, <3>3, RehashedTyped
    <3>5. Reordered(map, r.map)
      BY <2>4, <3>4 DEF Reordered
    <3>6. Cardinality(Items(keeps(tombs))) \in Nat
      BY <2>3, Buckets
    <3>7. r.left \in Nat
      BY <3>1, <3>2, <3>3, <3>6 DEF Capacity
    <3> QED
      BY <3>4, <3>5, <3>7
  <2> QED
    BY <2>6, <2>7
<1> QED
  BY <1>1, <1>2

\* reserve neither repeats a key nor loses the form of a dead one.
LEMMA ReservedKept ==
  ASSUME map \in Seq(Bucket), NEW additional \in Nat, NEW r \in Reserved(additional),
         NEW k, Kept(map, k)
  PROVE  Kept(r.map, k)
<1>1. CASE additional <= growth_left
  BY <1>1 DEF Reserved
<1>2. CASE ~(additional <= growth_left)
  <2> DEFINE nils == NilEntries(map)
             keeps(tombs) == Retained(map, nils, tombs)
  <2> DEFINE left(tombs) == growth_left + Cardinality(nils \ tombs)
             need(tombs) == Cardinality(Items(keeps(tombs))) + additional
             grows(tombs) ==
               UNION { {[map |-> q, left |-> Capacity(n) - Cardinality(Items(keeps(tombs)))] :
                          q \in Rehashed(keeps(tombs), n)} :
                       n \in {c \in BucketCounts : need(tombs) <= Capacity(c)} }
  <2>0. PICK tombs \in SUBSET nils :
          r \in IF additional <= left(tombs) THEN {[map |-> keeps(tombs), left |-> left(tombs)]}
                ELSE grows(tombs)
    BY <1>2 DEF Reserved
  <2>1. r.map = keeps(tombs) \/ \E n \in BucketCounts : r.map \in Rehashed(keeps(tombs), n)
    <3> HIDE DEF keeps, left, need
    <3>1. CASE r \in grows(tombs)
      BY <3>1
    <3> QED
      BY <2>0, <3>1
  <2>2. nils \in SUBSET Items(map)
    BY DEF NilEntries
  <2> HIDE DEF nils
  <2>3. keeps(tombs) \in Seq(Bucket) /\ Kept(keeps(tombs), k)
    <3>1. /\ keeps(tombs) \in Seq(Bucket) /\ Items(keeps(tombs)) = Items(map) \ nils
          /\ \A b \in Items(map) \ nils : keeps(tombs)[b] = map[b]
      BY <2>2, RetainedMap
    <3> HIDE DEF keeps
    <3> QED
      BY <3>1, FewerKept
  <2> HIDE DEF keeps
  <2>4. BucketCounts \subseteq Nat
    BY TableAssumption
  <2> QED
    BY <2>1, <2>3, <2>4, RehashedMap
<1> QED
  BY <1>1, <1>2

\* Entries with new values under their old keys.
Rewritten(m, r) ==
  /\ r \in [DOMAIN m -> Bucket]
  /\ \A c \in DOMAIN m :
       r[c] = m[c] \/ (c \in Items(m) /\ r[c] \in MapEntry /\ r[c].key = m[c].key)

\* A map some of whose buckets got another value or died has the same keys in the same
\* places.
LEMMA RewrittenMap ==
  ASSUME NEW m \in Seq(Bucket), NEW r, Rewritten(m, r)
  PROVE  /\ r \in Seq(Bucket) /\ Len(r) = Len(m) /\ Items(r) = Items(m)
         /\ \A c \in Items(m) : r[c] \in MapEntry /\ r[c].key = m[c].key
<1>1. DOMAIN m = 1..Len(m) /\ Len(m) \in Nat /\ Items(m) \subseteq 1..Len(m)
  BY Buckets
<1>2. r \in Seq(Bucket) /\ Len(r) = Len(m) /\ DOMAIN r = 1..Len(m)
  BY <1>1 DEF Rewritten
<1>3. \A c \in MapEntry : c \notin {Empty, Tombstone}
  BY DEF MapEntry, Empty, Tombstone
<1>4. \A c \in 1..Len(m) : c \in Items(r) <=> c \in Items(m)
  BY <1>1, <1>2, <1>3, Buckets DEF Rewritten
<1>5. Items(r) = Items(m)
  BY <1>1, <1>2, <1>4, Buckets
<1>6. \A c \in Items(m) : r[c] \in MapEntry /\ r[c].key = m[c].key
  BY <1>1, Buckets DEF Rewritten
<1> QED
  BY <1>2, <1>5, <1>6

\* It stays well formed if the buckets that died hold nil.
LEMMA RewrittenKept ==
  ASSUME NEW m \in Seq(Bucket), NEW r, Rewritten(m, r), NEW n, Kept(m, n),
         \A c \in Items(m) : r[c].dead => r[c].val = Nil
  PROVE  Kept(r, n)
  BY RewrittenMap DEF Kept

-----------------------------------------------------------------------------
(* Reading. *)

\* Get, from any two parts.
Value(a, m, k) ==
  IF ArrayIndex(k) \in 1..Len(a) THEN a[ArrayIndex(k)]
  ELSE IF Holding(m, k) # {} THEN Lookup(m, k)
  ELSE Nil

\* Get, for any input.
LEMMA GetValue ==
  ASSUME NEW k \in Inputs, ValidKey(k)
  PROVE  Get(k) = Value(array, map, CanonicalKey(k))
  BY InputFacts DEF Get, Value, InArray

\* get reads the part of the table that has the key.
LEMMA GetKey ==
  ASSUME NEW k \in Keys
  PROVE  Get(k) = Value(array, map, k)
  BY KeyIndex DEF Get, Value, InArray

\* What it gives is of its type.
LEMMA LookupTyped ==
  ASSUME NEW m \in Seq(Bucket), NEW k, Holding(m, k) # {}
  PROVE  Lookup(m, k) \in Vals \cup {Nil}
<1> DEFINE b == CHOOSE b \in Holding(m, k) : TRUE
<1>1. b \in Holding(m, k) /\ Lookup(m, k) = m[b].val
  BY DEF Lookup
<1>2. b \in Items(m)
  BY <1>1 DEF Holding
<1> QED
  BY <1>1, <1>2, Buckets DEF MapEntry

\* What a table holds under a key is a value or nil.
LEMMA ValueTyped ==
  ASSUME NEW a \in Seq(Vals \cup {Nil}), NEW m \in Seq(Bucket), NEW k
  PROVE  Value(a, m, k) \in Vals \cup {Nil}
  BY LookupTyped DEF Value

\* A key has the value of its slot or of its entry, or none.
LEMMA ValueFacts ==
  ASSUME DistinctKeys, NEW a, NEW m \in Seq(Bucket), Kept(m, Len(a)), NEW k \in Keys
  PROVE  /\ ArrayIndex(k) \in 1..Len(a) => Value(a, m, k) = a[ArrayIndex(k)]
         /\ ArrayIndex(k) \notin 1..Len(a) =>
              /\ \A b \in Items(m) : m[b].key = k => Value(a, m, k) = m[b].val
              /\ (\A b \in Items(m) : m[b].key # k) => Value(a, m, k) = Nil
<1>1. ASSUME ArrayIndex(k) \notin 1..Len(a), NEW b \in Items(m), m[b].key = k
      PROVE  Value(a, m, k) = m[b].val
  BY <1>1, LookupValue DEF Value
<1>2. ASSUME ArrayIndex(k) \notin 1..Len(a), \A b \in Items(m) : m[b].key # k
      PROVE  Value(a, m, k) = Nil
  BY <1>2, HoldingKey DEF Value
<1> QED
  BY <1>1, <1>2 DEF Value

\* Entries in other buckets show the same.
LEMMA ReorderedValue ==
  ASSUME DistinctKeys, NEW a \in Seq(Vals \cup {Nil}), NEW m \in Seq(Bucket), NEW r \in Seq(Bucket),
         Kept(m, Len(a)), Kept(r, Len(a)), Reordered(m, r), NEW k \in Keys
  PROVE  Value(a, r, k) = Value(a, m, k)
<1>1. CASE ArrayIndex(k) \in 1..Len(a)
  BY <1>1 DEF Value
<1>2. CASE ArrayIndex(k) \notin 1..Len(a) /\ \E b \in Items(m) : m[b].key = k /\ m[b].val # Nil
  <2>1. PICK b \in Items(m) : m[b].key = k /\ m[b].val # Nil
    BY <1>2
  <2>2. PICK c \in Items(r) : r[c] = m[b]
    BY <2>1 DEF Reordered
  <2> QED
    BY <1>2, <2>1, <2>2, ValueFacts
<1>3. CASE ArrayIndex(k) \notin 1..Len(a) /\ \A b \in Items(m) : m[b].key = k => m[b].val = Nil
  <2>1. \A c \in Items(r) : r[c].key = k => r[c].val = Nil
    BY <1>3 DEF Reordered
  <2>2. Value(a, m, k) = Nil
    BY <1>3, ValueFacts
  <2>3. Value(a, r, k) = Nil
    BY <1>3, <2>1, ValueFacts
  <2> QED
    BY <2>2, <2>3
<1> QED
  BY <1>1, <1>2, <1>3

-----------------------------------------------------------------------------
(* Writing: types. *)

\* The array part never reaches the largest integer.
TypesInv == TypeOK /\ Len(array) <= MaxArray
WellKept == Kept(map, Len(array))

\* The types of the table's parts, spelled out.
LEMMA TypesFacts ==
  ASSUME TypesInv
  PROVE  /\ array \in Seq(Vals \cup {Nil}) /\ Len(array) \in Nat /\ Len(array) <= MaxArray
         /\ map \in Seq(Bucket) /\ growth_left \in Nat
  BY DEF TypesInv, TypeOK, Bucket

\* get of a valid key returns a value or nil.
LEMMA GetTyped ==
  ASSUME TypesInv, NEW k \in Inputs, ValidKey(k)
  PROVE  Get(k) \in Vals \cup {Nil}
  BY TypesFacts, GetValue, ValueTyped

\* Nil is put over the value of the key.
LEMMA RemoveEffect ==
  ASSUME TypesInv, NEW k \in Inputs, Remove(k)
  PROVE  /\ Rewritten(map, map')
         /\ \A c \in Holding(map, CanonicalKey(k)) : map'[c].val = Nil
         /\ \A c \in DOMAIN map : c \notin Holding(map, CanonicalKey(k)) => map'[c] = map[c]
<1> DEFINE H == Holding(map, CanonicalKey(k))
           d == (k.type = "object")
           new(c) == [map[c] EXCEPT !.val = Nil, !.dead = d]
<1>1. map \in Seq(Bucket) /\ \A c \in DOMAIN map : map[c] \in Bucket
  BY TypesFacts, Buckets
<1>2. H \subseteq Items(map) /\ H \subseteq DOMAIN map
  BY <1>1, Buckets DEF Holding
<1>3. map' = [c \in DOMAIN map |-> IF c \in H THEN new(c) ELSE map[c]]
  BY DEF Remove
<1>4. \A c \in H : new(c) \in MapEntry /\ new(c).key = map[c].key /\ new(c).val = Nil
  <2>1. \A c \in H : map[c] \in MapEntry
    BY <1>1, <1>2, Buckets
  <2>2. d \in BOOLEAN
    OBVIOUS
  <2> HIDE DEF d
  <2> QED
    BY <2>1, <2>2 DEF MapEntry
<1> HIDE DEF H, new
<1>5. map' \in [DOMAIN map -> Bucket]
  BY <1>1, <1>2, <1>3, <1>4 DEF Bucket
<1> QED
  BY <1>2, <1>3, <1>4, <1>5 DEF Rewritten, H

\* The value is put over the old one.
LEMMA ReplaceEffect ==
  ASSUME TypesInv, NEW k \in Inputs, NEW v \in Vals, Replace(k, v)
  PROVE  /\ Rewritten(map, map')
         /\ \E b \in Holding(map, CanonicalKey(k)) :
              /\ map'[b].val = v /\ ~map'[b].dead /\ reply' = map[b].val
              /\ \A c \in DOMAIN map : c # b => map'[c] = map[c]
<1>1. map \in Seq(Bucket) /\ \A c \in DOMAIN map : map[c] \in Bucket
  BY TypesFacts, Buckets
<1>2. PICK b \in Holding(map, CanonicalKey(k)) :
        /\ map' = [map EXCEPT ![b].val = v, ![b].dead = FALSE]
        /\ reply' = map[b].val
  BY DEF Replace
<1>3. b \in Items(map) /\ b \in DOMAIN map /\ map[b] \in MapEntry
  BY <1>1, Buckets DEF Holding
<1>4. /\ map'[b] = [map[b] EXCEPT !.val = v, !.dead = FALSE]
      /\ DOMAIN map' = DOMAIN map
      /\ \A c \in DOMAIN map : c # b => map'[c] = map[c]
      /\ map' = [c \in DOMAIN map |-> map'[c]]
  BY <1>1, <1>2, <1>3
<1>5. /\ map'[b] \in MapEntry /\ map'[b].key = map[b].key
      /\ map'[b].val = v /\ ~map'[b].dead
  BY <1>3, <1>4 DEF MapEntry
<1>6. map' \in [DOMAIN map -> Bucket]
  BY <1>1, <1>4, <1>5 DEF Bucket
<1> QED
  BY <1>2, <1>3, <1>4, <1>5, <1>6 DEF Rewritten

\* What the array has after it has grown.
LEMMA GrownTyped ==
  ASSUME TypesInv, NEW n \in Len(array)..MaxArray
  PROVE  Grown(n) \in Seq(Vals \cup {Nil}) /\ Len(Grown(n)) = n /\ n \in Nat
<1>1. n \in Nat
  BY TypesFacts, TableAssumption
<1>2. \A i \in 1..n : MapHas(i) => Lookup(map, IntKey(i)) \in Vals \cup {Nil}
  BY TypesFacts, LookupTyped DEF MapHas
<1>3. Grown(n) \in [1..n -> Vals \cup {Nil}]
  BY <1>2, TypesFacts DEF Grown
<1> QED
  BY <1>1, <1>3

\* The map keeps what does not move.
LEMMA DropMovedMap ==
  ASSUME TypesInv, NEW n \in Nat, DropMoved(n)
  PROVE  /\ map' \in Seq(Bucket) /\ growth_left' \in Nat
         /\ Items(map') = {b \in Items(map) : ArrayIndex(map[b].key) \notin 1..n /\ map[b].val # Nil}
         /\ \A b \in Items(map') : map'[b] = map[b]
<1> DEFINE gone == Moved(n) \cup NilEntries(map)
<1>1. PICK tombs \in SUBSET gone :
        /\ map' = Retained(map, gone, tombs)
        /\ growth_left' = growth_left + Cardinality(gone \ tombs)
  BY DEF DropMoved
<1>2. /\ gone \in SUBSET Items(map)
      /\ \A b \in Items(map) :
           b \in gone <=> ~(ArrayIndex(map[b].key) \notin 1..n /\ map[b].val # Nil)
  BY DEF Moved, NilEntries
<1> HIDE DEF gone
<1>3. IsFiniteSet(gone \ tombs)
  BY <1>2, TypesFacts, Buckets, FS_Subset
<1>4. growth_left' \in Nat
  BY <1>1, <1>3, TypesFacts, FS_CardinalityType
<1> DEFINE r == Retained(map, gone, tombs)
<1>5. map \in Seq(Bucket) /\ gone \in SUBSET Items(map) /\ tombs \in SUBSET gone
  BY <1>2, TypesFacts
<1>6. /\ r \in Seq(Bucket) /\ Len(r) = Len(map) /\ Items(r) = Items(map) \ gone
      /\ \A b \in Items(map) \ gone : r[b] = map[b]
  BY <1>5, RetainedMap, Zenon
<1>7. map' = r
  BY <1>1
<1> HIDE DEF r
<1> QED
  BY <1>2, <1>4, <1>6, <1>7

\* Every call of set keeps the types.
LEMMA SetTyped ==
  ASSUME TypesInv, NEW k \in Inputs, NEW v \in Vals \cup {Nil}, Set(k, v)
  PROVE  TypesInv'
<1> USE DEF TypesInv
<1>1. CASE SetArray(k, v)
  <2>1. /\ array' = [array EXCEPT ![ArrayIndex(k)] = v]
        /\ reply' = array[ArrayIndex(k)] /\ ArrayIndex(k) \in 1..Len(array)
        /\ map' = map /\ growth_left' = growth_left
    BY <1>1 DEF SetArray, InArray
  <2> QED
    BY <2>1 DEF TypeOK
<1>2. CASE SetInvalid(k)
  BY <1>2 DEF SetInvalid, TypeOK
<1>3. CASE v = Nil /\ Remove(k)
  <2>1. map' \in Seq(Bucket)
    BY <1>3, RemoveEffect, RewrittenMap, TypesFacts
  <2>2. reply' \in Vals \cup {Nil} /\ array' = array /\ growth_left' = growth_left
    BY <1>3, GetTyped DEF Remove
  <2> QED
    BY <2>1, <2>2 DEF TypeOK, Bucket
<1>4. CASE v # Nil /\ Replace(k, v)
  <2>1. map' \in Seq(Bucket)
    BY <1>4, ReplaceEffect, RewrittenMap, TypesFacts
  <2>2. \A b \in Holding(map, CanonicalKey(k)) : map[b].val \in Vals \cup {Nil}
    BY TypesFacts, Buckets DEF Holding, MapEntry
  <2>3. reply' \in Vals \cup {Nil} /\ array' = array /\ growth_left' = growth_left
    BY <1>4, <2>2 DEF Replace
  <2> QED
    BY <2>1, <2>3 DEF TypeOK, Bucket
<1>5. CASE v # Nil /\ Insert(k, v)
  <2>1. PICK b \in InsertPlaces(map, growth_left) :
          /\ map' = [map EXCEPT ![b] = Entry(CanonicalKey(k), v)]
          /\ growth_left' = LeftAfter(map, growth_left, b)
    BY <1>5 DEF Insert
  <2>2. CanonicalKey(k) \in Keys /\ reply' = Nil /\ array' = array
    BY <1>5, InputFacts DEF Insert
  <2>3. map' \in Seq(Bucket) /\ growth_left' \in Nat
    BY <2>1, <2>2, TypesFacts, PlacesFree, PutEntry
  <2> QED
    BY <2>2, <2>3 DEF TypeOK, Bucket
<1>6. CASE v # Nil /\ InsertGrowingArray(k, v)
  <2>1. PICK n \in ArrayIndex(k)..MaxArray :
          array' = [Grown(n) EXCEPT ![ArrayIndex(k)] = v] /\ DropMoved(n)
    BY <1>6 DEF InsertGrowingArray
  <2>2. ArrayIndex(k) > Len(array) /\ ArrayIndex(k) \in Nat /\ reply' = Nil
    BY <1>6, TypesFacts, InputFacts DEF InsertGrowingArray, MustGrow, InArray
  <2>3. n \in Len(array)..MaxArray
    BY <2>1, <2>2, TypesFacts
  <2>4. array' \in Seq(Vals \cup {Nil}) /\ Len(array') = n /\ n \in Nat
    BY <2>1, <2>2, <2>3, GrownTyped
  <2> QED
    BY <2>1, <2>2, <2>3, <2>4, DropMovedMap DEF TypeOK, Bucket
<1>7. CASE v # Nil /\ InsertGrowingMap(k, v)
  <2> DEFINE more == IF Items(map) = {} THEN 1 ELSE Cardinality(Items(map))
  <2>0. PICK r \in Reserved(more) :
          \E b \in InsertPlaces(r.map, r.left) :
            /\ map' = [r.map EXCEPT ![b] = Entry(CanonicalKey(k), v)]
            /\ growth_left' = LeftAfter(r.map, r.left, b)
    BY <1>7 DEF InsertGrowingMap
  <2>1. PICK b \in InsertPlaces(r.map, r.left) :
          /\ map' = [r.map EXCEPT ![b] = Entry(CanonicalKey(k), v)]
          /\ growth_left' = LeftAfter(r.map, r.left, b)
    BY <2>0
  <2>2. CanonicalKey(k) \in Keys /\ reply' = Nil /\ array' = array
    BY <1>7, InputFacts DEF InsertGrowingMap, MustGrow
  <2>3. more \in Nat
    BY TypesFacts, Buckets
  <2>4. r.map \in Seq(Bucket) /\ r.left \in Nat
    BY <2>3, TypesFacts, ReservedTyped
  <2>5. map' \in Seq(Bucket) /\ growth_left' \in Nat
    BY <2>1, <2>2, <2>4, PlacesFree, PutEntry
  <2> QED
    BY <2>2, <2>5 DEF TypeOK, Bucket
<1> QED
  BY <1>1, <1>2, <1>3, <1>4, <1>5, <1>6, <1>7 DEF Set

\* So do the host's calls and a traversal.
LEMMA GrowArrayTyped ==
  ASSUME TypesInv, NEW n \in Len(array)..MaxArray, GrowArray(n)
  PROVE  TypesInv'
<1>1. array' = Grown(n) /\ DropMoved(n) /\ reply' = reply
  BY DEF GrowArray
<1>2. array' \in Seq(Vals \cup {Nil}) /\ Len(array') = n /\ n \in Nat /\ n <= MaxArray
  BY <1>1, GrownTyped
<1> QED
  BY <1>1, <1>2, DropMovedMap DEF TypesInv, TypeOK, Bucket

\* Growing the map keeps the types.
LEMMA ReserveMapTyped ==
  ASSUME TypesInv, NEW n \in Nat, ReserveMap(n)
  PROVE  TypesInv'
<1>1. PICK r \in Reserved(n) : map' = r.map /\ growth_left' = r.left
  BY DEF ReserveMap
<1>2. r.map \in Seq(Bucket) /\ r.left \in Nat
  BY TypesFacts, ReservedTyped
<1> QED
  BY <1>1, <1>2 DEF ReserveMap, TypesInv, TypeOK, Bucket

\* Every step keeps the types.
LEMMA NextTyped == TypesInv /\ [Next]_vars => TypesInv'
<1> SUFFICES ASSUME TypesInv, [Next]_vars PROVE TypesInv'
  OBVIOUS
<1>1. CASE \E k \in Inputs, v \in Vals \cup {Nil} : Set(k, v)
  BY <1>1, SetTyped
<1>2. CASE \E n \in Len(array)..MaxArray : GrowArray(n)
  BY <1>2, GrowArrayTyped
<1>3. CASE \E n \in 1..2 : ReserveMap(n)
  BY <1>3, ReserveMapTyped
<1>4. CASE IterStart \/ IterNext \/ IterEnd \/ UNCHANGED vars
  BY <1>4 DEF IterStart, IterNext, IterEnd, vars, TypesInv, TypeOK
<1> QED
  BY <1>1, <1>2, <1>3, <1>4 DEF Next

\* The types hold at the start.
LEMMA InitTyped == Init => TypesInv
  BY TableAssumption DEF Init, TypesInv, TypeOK

\* The types hold always, with no condition on the keys.
LEMMA TypesHold == Spec => []TypesInv
  BY InitTyped, NextTyped, PTL DEF Spec

\* RawTable::set, next and grow_array keep every slot and bucket of its type, and
\* growth_left never goes below zero: no insertion takes a bucket that hashbrown
\* has to keep EMPTY.
THEOREM TableTyped == Spec => []TypeOK
<1>1. TypesInv => TypeOK
  BY DEF TypesInv
<1> QED
  BY <1>1, TypesHold, PTL
-----------------------------------------------------------------------------
(* Writing: what set changes. *)

\* The first parts show what the others do, but for one key.
Sets(a, m, aa, mm, k, v) ==
  \A l \in Keys : Value(aa, mm, l) = IF l = k THEN v ELSE Value(a, m, l)

\* A slot of the array is a key of its own.
LEMMA SlotValue ==
  ASSUME NEW a \in Seq(Vals \cup {Nil}), NEW m, NEW k \in Keys, ArrayIndex(k) \in 1..Len(a),
         NEW v \in Vals \cup {Nil}
  PROVE  Sets(a, m, [a EXCEPT ![ArrayIndex(k)] = v], m, k, v)
<1> DEFINE aa == [a EXCEPT ![ArrayIndex(k)] = v]
<1>1. /\ Len(aa) = Len(a) /\ aa[ArrayIndex(k)] = v
      /\ \A i \in 1..Len(a) : i # ArrayIndex(k) => aa[i] = a[i]
  OBVIOUS
<1> HIDE DEF aa
<1>2. ASSUME NEW l \in Keys PROVE Value(aa, m, l) = IF l = k THEN v ELSE Value(a, m, l)
  <2>1. CASE ArrayIndex(l) \in 1..Len(a)
    <3>1. l = k <=> ArrayIndex(l) = ArrayIndex(k)
      BY <2>1, KeyIndex
    <3> QED
      BY <1>1, <2>1, <3>1 DEF Value
  <2>2. CASE ArrayIndex(l) \notin 1..Len(a)
    BY <1>1, <2>2 DEF Value
  <2> QED
    BY <2>1, <2>2
<1> QED
  BY <1>2 DEF Sets, aa

\* Entries whose value stays show the same.
LEMMA RewrittenValue ==
  ASSUME DistinctKeys, NEW a, NEW m \in Seq(Bucket), NEW r, Rewritten(m, r),
         Kept(m, Len(a)), Kept(r, Len(a)), NEW l \in Keys,
         \A c \in Items(m) : m[c].key = l => r[c] = m[c]
  PROVE  Value(a, r, l) = Value(a, m, l)
<1>1. /\ r \in Seq(Bucket) /\ Items(r) = Items(m)
      /\ \A c \in Items(m) : r[c].key = m[c].key
  BY RewrittenMap
<1>2. CASE ArrayIndex(l) \in 1..Len(a)
  BY <1>2 DEF Value
<1>3. CASE ArrayIndex(l) \notin 1..Len(a) /\ \E b \in Items(m) : m[b].key = l
  <2>1. PICK b \in Items(m) : m[b].key = l
    BY <1>3
  <2>2. Value(a, m, l) = m[b].val
    BY <1>3, <2>1, ValueFacts
  <2>3. Value(a, r, l) = r[b].val
    BY <1>1, <1>3, <2>1, ValueFacts
  <2> QED
    BY <2>1, <2>2, <2>3
<1>4. CASE ArrayIndex(l) \notin 1..Len(a) /\ \A b \in Items(m) : m[b].key # l
  <2>1. Value(a, m, l) = Nil
    BY <1>4, ValueFacts
  <2>2. Value(a, r, l) = Nil
    BY <1>1, <1>4, ValueFacts
  <2> QED
    BY <2>1, <2>2
<1> QED
  BY <1>2, <1>3, <1>4

\* A new entry shows its value.
LEMMA PutValue ==
  ASSUME DistinctKeys, NEW a, NEW m \in Seq(Bucket), Kept(m, Len(a)), NEW b \in DOMAIN m \ Items(m),
         NEW k \in Keys, NEW v \in Vals \cup {Nil},
         ArrayIndex(k) \notin 1..Len(a), \A c \in Items(m) : m[c].key # k
  PROVE  Sets(a, m, a, [m EXCEPT ![b] = Entry(k, v)], k, v)
<1> DEFINE r == [m EXCEPT ![b] = Entry(k, v)]
<1>1. /\ r \in Seq(Bucket) /\ Items(r) = Items(m) \cup {b}
      /\ r[b] = Entry(k, v) /\ \A c \in Items(m) : r[c] = m[c]
  BY PutEntry
<1>2. Kept(r, Len(a))
  BY PutKept
<1> HIDE DEF r
<1>3. r[b].key = k /\ r[b].val = v
  BY <1>1 DEF Entry
<1>4. Value(a, r, k) = v
  BY <1>1, <1>2, <1>3, ValueFacts
<1>5. ASSUME NEW l \in Keys, l # k PROVE Value(a, r, l) = Value(a, m, l)
  <2>1. CASE ArrayIndex(l) \in 1..Len(a)
    BY <2>1 DEF Value
  <2>2. CASE ArrayIndex(l) \notin 1..Len(a) /\ \E c \in Items(m) : m[c].key = l
    <3>1. PICK c \in Items(m) : m[c].key = l
      BY <2>2
    <3>2. Value(a, m, l) = m[c].val
      BY <2>2, <3>1, ValueFacts
    <3>3. Value(a, r, l) = r[c].val
      BY <1>1, <1>2, <2>2, <3>1, ValueFacts
    <3> QED
      BY <1>1, <3>2, <3>3
  <2>3. CASE ArrayIndex(l) \notin 1..Len(a) /\ \A c \in Items(m) : m[c].key # l
    <3>1. Value(a, m, l) = Nil
      BY <2>3, ValueFacts
    <3>2. \A c \in Items(r) : r[c].key # l
      BY <1>1, <1>3, <1>5, <2>3
    <3>3. Value(a, r, l) = Nil
      BY <1>1, <1>2, <2>3, <3>2, ValueFacts
    <3> QED
      BY <3>1, <3>3
  <2> QED
    BY <2>1, <2>2, <2>3
<1> QED
  BY <1>4, <1>5 DEF Sets, r

\* What the array grows by is what the map held there.
LEMMA GrownValue ==
  ASSUME DistinctKeys, TypesInv, WellKept, NEW n \in Len(array)..MaxArray, DropMoved(n)
  PROVE  /\ Kept(map', n)
         /\ \A l \in Keys : Value(Grown(n), map', l) = Value(array, map, l)
<1>1. /\ array \in Seq(Vals \cup {Nil}) /\ Len(array) \in Nat
      /\ map \in Seq(Bucket) /\ Kept(map, Len(array)) /\ n \in Nat
      /\ Grown(n) \in Seq(Vals \cup {Nil}) /\ Len(Grown(n)) = n
  BY TypesFacts, GrownTyped DEF WellKept
<1>2. /\ map' \in Seq(Bucket)
      /\ Items(map') = {b \in Items(map) : ArrayIndex(map[b].key) \notin 1..n /\ map[b].val # Nil}
      /\ \A b \in Items(map') : map'[b] = map[b]
  BY <1>1, DropMovedMap
<1>3. Kept(map', n)
  BY <1>1, <1>2 DEF Kept
<1>4. ASSUME NEW l \in Keys PROVE Value(Grown(n), map', l) = Value(array, map, l)
  <2>1. CASE ArrayIndex(l) \in 1..n
    <3> DEFINE i == ArrayIndex(l)
    <3>1. i \in 1..n /\ l = IntKey(i)
      BY <2>1, KeyIndex
    <3> HIDE DEF i
    <3>2. /\ Value(Grown(n), map', l) = Grown(n)[i]
          /\ Grown(n)[i] = IF MapHas(i) THEN Lookup(map, l)
                           ELSE IF i <= Len(array) THEN array[i] ELSE Nil
      BY <1>1, <2>1, <3>1 DEF Value, Grown, i
    <3>3. CASE i <= Len(array)
      <4>1. \A b \in Items(map) : map[b].key # l
        BY <1>1, <3>1, <3>3 DEF Kept, i
      <4>2. ~MapHas(i)
        BY <1>1, <3>1, <4>1, HoldingKey DEF MapHas
      <4> QED
        BY <1>1, <3>1, <3>2, <3>3, <4>2 DEF Value, i
    <3>4. CASE ~(i <= Len(array))
      BY <1>1, <3>1, <3>2, <3>4 DEF Value, MapHas, i
    <3> QED
      BY <3>3, <3>4
  <2>2. CASE ArrayIndex(l) \notin 1..n /\ \E b \in Items(map) : map[b].key = l /\ map[b].val # Nil
    <3>1. PICK b \in Items(map) : map[b].key = l /\ map[b].val # Nil
      BY <2>2
    <3>2. ArrayIndex(l) \notin 1..Len(array)
      BY <1>1, <2>2
    <3>3. Value(array, map, l) = map[b].val
      BY <1>1, <3>1, <3>2, ValueFacts
    <3>4. b \in Items(map') /\ map'[b] = map[b]
      BY <1>2, <2>2, <3>1
    <3>5. Value(Grown(n), map', l) = map'[b].val
      BY <1>1, <1>2, <1>3, <2>2, <3>1, <3>4, ValueFacts
    <3> QED
      BY <3>3, <3>4, <3>5
  <2>3. CASE ArrayIndex(l) \notin 1..n /\ \A b \in Items(map) : map[b].key = l => map[b].val = Nil
    <3>1. ArrayIndex(l) \notin 1..Len(array)
      BY <1>1, <2>3
    <3>2. Value(array, map, l) = Nil
      BY <1>1, <2>3, <3>1, ValueFacts
    <3>3. \A b \in Items(map') : map'[b].key # l
      BY <1>2, <2>3
    <3>4. Value(Grown(n), map', l) = Nil
      BY <1>1, <1>2, <1>3, <2>3, <3>3, ValueFacts
    <3> QED
      BY <3>2, <3>4
  <2> QED
    BY <2>1, <2>2, <2>3
<1> QED
  BY <1>3, <1>4

\* What a set does to a well kept table: the key gets its value, nothing else is
\* seen to change, and the reply is what the key had.
Assigns(k, v) ==
  /\ WellKept'
  /\ Sets(array, map, array', map', CanonicalKey(k), v)
  /\ reply' = Value(array, map, CanonicalKey(k))

\* Setting a slot of the array part assigns that key and no other.
LEMMA SetArrayAssigns ==
  ASSUME DistinctKeys, TypesInv, WellKept, NEW k \in Inputs, NEW v \in Vals \cup {Nil}, SetArray(k, v)
  PROVE  Assigns(k, v)
<1>1. /\ ArrayIndex(k) \in 1..Len(array) /\ array' = [array EXCEPT ![ArrayIndex(k)] = v]
      /\ reply' = array[ArrayIndex(k)] /\ map' = map
  BY DEF SetArray, InArray
<1>2. CanonicalKey(k) \in Keys /\ ArrayIndex(CanonicalKey(k)) = ArrayIndex(k)
  BY <1>1, InputFacts
<1>3. Sets(array, map, array', map, CanonicalKey(k), v)
  BY <1>1, <1>2, TypesFacts, SlotValue
<1>4. WellKept'
  BY <1>1, TypesFacts DEF WellKept
<1>5. reply' = Value(array, map, CanonicalKey(k))
  BY <1>1, <1>2 DEF Value
<1> QED
  BY <1>1, <1>3, <1>4, <1>5 DEF Assigns

\* Removing a key from the map assigns it nil and changes no other.
LEMMA RemoveAssigns ==
  ASSUME DistinctKeys, TypesInv, WellKept, NEW k \in Inputs, Remove(k)
  PROVE  Assigns(k, Nil)
<1> DEFINE K == CanonicalKey(k)
<1>0. ~InArray(k) /\ ValidKey(k) /\ reply' = Get(k) /\ array' = array
  BY Zenon DEF Remove
<1>1. K \in Keys /\ ArrayIndex(K) \notin 1..Len(array) /\ array' = array
  BY <1>0, InputFacts DEF InArray
<1>2. reply' = Value(array, map, K)
  BY <1>0, GetValue
<1>3. /\ Rewritten(map, map')
      /\ \A c \in Holding(map, K) : map'[c].val = Nil
      /\ \A c \in DOMAIN map : c \notin Holding(map, K) => map'[c] = map[c]
  BY RemoveEffect
<1> HIDE DEF K
<1>4. Holding(map, K) = {c \in Items(map) : map[c].key = K} /\ map \in Seq(Bucket)
  BY <1>1, TypesFacts, HoldingKey
<1>5. Kept(map, Len(array))
  BY DEF WellKept
<1>6. \A c \in Items(map) : IF map[c].key = K THEN map'[c].val = Nil ELSE map'[c] = map[c]
  BY <1>3, <1>4, Buckets
<1>7. Kept(map', Len(array))
  <2>1. \A c \in Items(map) : map'[c].dead => map'[c].val = Nil
    BY <1>5, <1>6 DEF Kept
  <2> QED
    BY <1>3, <1>4, <1>5, <2>1, RewrittenKept
<1>8. map' \in Seq(Bucket) /\ Items(map') = Items(map) /\ \A c \in Items(map) : map'[c].key = map[c].key
  BY <1>3, <1>4, RewrittenMap
<1>9. Value(array, map', K) = Nil
  BY <1>1, <1>6, <1>7, <1>8, ValueFacts
<1>10. \A l \in Keys : l # K => Value(array, map', l) = Value(array, map, l)
  BY <1>3, <1>4, <1>5, <1>6, <1>7, RewrittenValue
<1> QED
  BY <1>1, <1>2, <1>7, <1>9, <1>10 DEF Assigns, Sets, WellKept, K

\* Replacing a value in the map assigns that key and no other.
LEMMA ReplaceAssigns ==
  ASSUME DistinctKeys, TypesInv, WellKept, NEW k \in Inputs, NEW v \in Vals, Replace(k, v)
  PROVE  Assigns(k, v)
<1> DEFINE K == CanonicalKey(k)
<1>1. K \in Keys /\ ArrayIndex(K) \notin 1..Len(array) /\ array' = array
  BY InputFacts DEF Replace, InArray
<1>2. Rewritten(map, map')
  BY ReplaceEffect
<1>3. PICK b \in Holding(map, K) :
        /\ map'[b].val = v /\ ~map'[b].dead /\ reply' = map[b].val
        /\ \A c \in DOMAIN map : c # b => map'[c] = map[c]
  BY ReplaceEffect
<1> HIDE DEF K
<1>4. b \in Items(map) /\ map[b].key = K /\ map \in Seq(Bucket) /\ Items(map) \subseteq DOMAIN map
  BY <1>1, TypesFacts, HoldingKey, Buckets
<1>5. Kept(map, Len(array))
  BY DEF WellKept
<1>6. \A c \in Items(map) : map[c].key # K => map'[c] = map[c]
  BY <1>3, <1>4
<1>7. Kept(map', Len(array))
  <2>1. \A c \in Items(map) : map'[c].dead => map'[c].val = Nil
    BY <1>3, <1>4, <1>5 DEF Kept
  <2> QED
    BY <1>2, <1>4, <1>5, <2>1, RewrittenKept
<1>8. map' \in Seq(Bucket) /\ Items(map') = Items(map) /\ map'[b].key = K
  BY <1>2, <1>4, RewrittenMap
<1>9. Value(array, map', K) = v /\ Value(array, map, K) = map[b].val
  BY <1>1, <1>3, <1>4, <1>5, <1>7, <1>8, ValueFacts
<1>10. \A l \in Keys : l # K => Value(array, map', l) = Value(array, map, l)
  BY <1>2, <1>4, <1>5, <1>6, <1>7, RewrittenValue
<1> QED
  BY <1>1, <1>3, <1>7, <1>9, <1>10 DEF Assigns, Sets, WellKept, K

\* A key without an entry.
LEMMA AbsentKey ==
  ASSUME DistinctKeys, TypesInv, WellKept, NEW k \in Inputs, ~InArray(k), ValidKey(k),
         Holding(map, CanonicalKey(k)) = {}
  PROVE  /\ CanonicalKey(k) \in Keys /\ ArrayIndex(CanonicalKey(k)) = ArrayIndex(k)
         /\ ArrayIndex(k) \notin 1..Len(array)
         /\ \A c \in Items(map) : map[c].key # CanonicalKey(k)
         /\ Value(array, map, CanonicalKey(k)) = Nil
<1>1. /\ CanonicalKey(k) \in Keys /\ ArrayIndex(CanonicalKey(k)) = ArrayIndex(k)
      /\ ArrayIndex(k) \notin 1..Len(array)
  BY InputFacts DEF InArray
<1>2. \A c \in Items(map) : map[c].key # CanonicalKey(k)
  BY <1>1, TypesFacts, HoldingKey
<1> QED
  BY <1>1, <1>2 DEF Value

\* Inserting into a map with room assigns that key and no other.
LEMMA InsertAssigns ==
  ASSUME DistinctKeys, TypesInv, WellKept, NEW k \in Inputs, NEW v \in Vals, Insert(k, v)
  PROVE  Assigns(k, v)
<1> DEFINE K == CanonicalKey(k)
<1>1. PICK b \in InsertPlaces(map, growth_left) : map' = [map EXCEPT ![b] = Entry(K, v)]
  BY DEF Insert
<1>2. /\ K \in Keys /\ ArrayIndex(K) \notin 1..Len(array)
      /\ (\A c \in Items(map) : map[c].key # K) /\ Value(array, map, K) = Nil
  BY AbsentKey DEF Insert
<1>3. reply' = Nil /\ array' = array
  BY DEF Insert
<1> HIDE DEF K
<1>4. b \in DOMAIN map \ Items(map) /\ map \in Seq(Bucket) /\ Kept(map, Len(array))
  BY TypesFacts, PlacesFree DEF WellKept
<1>5. Kept([map EXCEPT ![b] = Entry(K, v)], Len(array))
  BY <1>2, <1>4, PutKept
<1>6. Sets(array, map, array, [map EXCEPT ![b] = Entry(K, v)], K, v)
  BY <1>2, <1>4, PutValue
<1> QED
  BY <1>1, <1>2, <1>3, <1>5, <1>6 DEF Assigns, WellKept, K

\* Inserting when the array part grows assigns that key, and the moved ones keep their
\* values.
LEMMA InsertGrowingArrayAssigns ==
  ASSUME DistinctKeys, TypesInv, WellKept, NEW k \in Inputs, NEW v \in Vals, InsertGrowingArray(k, v)
  PROVE  Assigns(k, v)
<1> DEFINE K == CanonicalKey(k)
<1>1. PICK n \in ArrayIndex(k)..MaxArray :
        array' = [Grown(n) EXCEPT ![ArrayIndex(k)] = v] /\ DropMoved(n)
  BY DEF InsertGrowingArray
<1>2. /\ K \in Keys /\ ArrayIndex(K) = ArrayIndex(k) /\ ArrayIndex(k) \notin 1..Len(array)
      /\ Value(array, map, K) = Nil
  BY AbsentKey DEF InsertGrowingArray, MustGrow
<1>3. reply' = Nil /\ ArrayIndex(k) > 0 /\ ArrayIndex(k) \in Nat
  BY InputFacts DEF InsertGrowingArray
<1> HIDE DEF K
<1>4. n \in Len(array)..MaxArray /\ ArrayIndex(k) \in 1..n
  BY <1>1, <1>2, <1>3, TypesFacts
<1>5. Grown(n) \in Seq(Vals \cup {Nil}) /\ Len(Grown(n)) = n
  BY <1>4, GrownTyped
<1>6. Kept(map', n) /\ \A l \in Keys : Value(Grown(n), map', l) = Value(array, map, l)
  BY <1>1, <1>4, GrownValue
<1>7. Sets(Grown(n), map', array', map', K, v)
  BY <1>1, <1>2, <1>4, <1>5, SlotValue
<1>8. Len(array') = n
  BY <1>1, <1>5
<1> QED
  BY <1>2, <1>3, <1>6, <1>7, <1>8 DEF Assigns, Sets, WellKept, K

\* Inserting when the map grows assigns that key, and the others keep their values.
LEMMA InsertGrowingMapAssigns ==
  ASSUME DistinctKeys, TypesInv, WellKept, NEW k \in Inputs, NEW v \in Vals, InsertGrowingMap(k, v)
  PROVE  Assigns(k, v)
<1> DEFINE K == CanonicalKey(k)
           more == IF Items(map) = {} THEN 1 ELSE Cardinality(Items(map))
<1>1. PICK r \in Reserved(more) :
        \E b \in InsertPlaces(r.map, r.left) : map' = [r.map EXCEPT ![b] = Entry(K, v)]
  BY DEF InsertGrowingMap
<1>2. /\ K \in Keys /\ ArrayIndex(K) \notin 1..Len(array)
      /\ (\A c \in Items(map) : map[c].key # K) /\ Value(array, map, K) = Nil
  BY AbsentKey DEF InsertGrowingMap, MustGrow
<1>3. reply' = Nil /\ array' = array
  BY DEF InsertGrowingMap
<1>4. more \in Nat
  BY TypesFacts, Buckets
<1> HIDE DEF K, more
<1>5. PICK b \in InsertPlaces(r.map, r.left) : map' = [r.map EXCEPT ![b] = Entry(K, v)]
  BY <1>1
<1>6. map \in Seq(Bucket) /\ Kept(map, Len(array)) /\ array \in Seq(Vals \cup {Nil})
  BY TypesFacts DEF WellKept
<1>7. r.map \in Seq(Bucket) /\ r.left \in Nat /\ Reordered(map, r.map) /\ Kept(r.map, Len(array))
  BY <1>4, <1>6, TypesFacts, ReservedTyped, ReservedKept
<1>8. \A l \in Keys : Value(array, r.map, l) = Value(array, map, l)
  BY <1>6, <1>7, ReorderedValue
<1>9. \A c \in Items(r.map) : r.map[c].key # K
  BY <1>2, <1>7 DEF Reordered
<1>10. b \in DOMAIN r.map \ Items(r.map)
  BY <1>7, PlacesFree
<1>11. Kept([r.map EXCEPT ![b] = Entry(K, v)], Len(array))
  BY <1>2, <1>7, <1>9, <1>10, PutKept
<1>12. Sets(array, r.map, array, [r.map EXCEPT ![b] = Entry(K, v)], K, v)
  BY <1>2, <1>7, <1>9, <1>10, PutValue
<1> QED
  BY <1>2, <1>3, <1>5, <1>8, <1>11, <1>12 DEF Assigns, Sets, WellKept, K

\* RawTable::set, whichever way it takes.
LEMMA SetAssigns ==
  ASSUME DistinctKeys, TypesInv, WellKept, NEW k \in Inputs, ValidKey(k),
         NEW v \in Vals \cup {Nil}, Set(k, v)
  PROVE  Assigns(k, v)
<1>1. SetArray(k, v) => Assigns(k, v)
  BY SetArrayAssigns
<1>2. v = Nil /\ Remove(k) => Assigns(k, v)
  BY RemoveAssigns
<1>3. v # Nil /\ Replace(k, v) => Assigns(k, v)
  BY ReplaceAssigns
<1>4. v # Nil /\ Insert(k, v) => Assigns(k, v)
  BY InsertAssigns
<1>5. v # Nil /\ InsertGrowingArray(k, v) => Assigns(k, v)
  BY InsertGrowingArrayAssigns
<1>6. v # Nil /\ InsertGrowingMap(k, v) => Assigns(k, v)
  BY InsertGrowingMapAssigns
<1>7. ~SetInvalid(k)
  BY DEF SetInvalid
<1> QED
  BY <1>1, <1>2, <1>3, <1>4, <1>5, <1>6, <1>7 DEF Set

\* nil and NaN are rejected.
LEMMA SetRejects ==
  ASSUME TypesInv, NEW k \in Inputs, ~ValidKey(k), NEW v \in Vals \cup {Nil}, Set(k, v)
  PROVE  SetInvalid(k)
<1>1. ~InArray(k)
  BY InputFacts, TypesFacts DEF InArray
<1>2. /\ ~SetArray(k, v) /\ ~Remove(k) /\ ~Replace(k, v) /\ ~Insert(k, v)
      /\ ~InsertGrowingArray(k, v) /\ ~InsertGrowingMap(k, v)
  BY <1>1, Zenon
     DEF SetArray, Remove, Replace, Insert, InsertGrowingArray, InsertGrowingMap, MustGrow
<1> QED
  BY <1>2 DEF Set

\* Nothing is seen to change.
Shows == \A l \in Keys : Value(array', map', l) = Value(array, map, l)

\* Growing the array part alone changes no entry.
LEMMA GrowArrayShows ==
  ASSUME DistinctKeys, TypesInv, WellKept, NEW n \in Len(array)..MaxArray, GrowArray(n)
  PROVE  WellKept' /\ Shows /\ reply' = reply
<1>1. array' = Grown(n) /\ DropMoved(n) /\ reply' = reply
  BY DEF GrowArray
<1>2. Len(Grown(n)) = n
  BY GrownTyped
<1> QED
  BY <1>1, <1>2, GrownValue DEF WellKept, Shows

\* Growing the map alone changes no entry.
LEMMA ReserveMapShows ==
  ASSUME DistinctKeys, TypesInv, WellKept, NEW n \in Nat, ReserveMap(n)
  PROVE  WellKept' /\ Shows /\ reply' = reply
<1>1. PICK r \in Reserved(n) : map' = r.map
  BY DEF ReserveMap
<1>2. array' = array /\ reply' = reply
  BY DEF ReserveMap
<1>3. map \in Seq(Bucket) /\ Kept(map, Len(array)) /\ array \in Seq(Vals \cup {Nil})
  BY TypesFacts DEF WellKept
<1>4. r.map \in Seq(Bucket) /\ Reordered(map, r.map) /\ Kept(r.map, Len(array))
  BY <1>3, TypesFacts, ReservedTyped, ReservedKept
<1> QED
  BY <1>1, <1>2, <1>3, <1>4, ReorderedValue DEF WellKept, Shows

\* The inductive invariant: what it means for the table's parts to be one map.
TableInv == TypesInv /\ WellKept

\* Every step keeps the map well formed.
LEMMA NextKept == DistinctKeys /\ TableInv /\ [Next]_vars => TableInv'
<1> SUFFICES ASSUME DistinctKeys, TypesInv, WellKept, [Next]_vars PROVE WellKept'
  BY NextTyped DEF TableInv
<1>1. ASSUME NEW k \in Inputs, NEW v \in Vals \cup {Nil}, Set(k, v) PROVE WellKept'
  <2>1. CASE ValidKey(k)
    BY <1>1, <2>1, SetAssigns DEF Assigns
  <2>2. CASE ~ValidKey(k)
    <3>1. SetInvalid(k)
      BY <1>1, <2>2, SetRejects
    <3> QED
      BY <3>1 DEF SetInvalid, WellKept
  <2> QED
    BY <2>1, <2>2
<1>2. CASE \E n \in Len(array)..MaxArray : GrowArray(n)
  BY <1>2, GrowArrayShows
<1>3. CASE \E n \in 1..2 : ReserveMap(n)
  BY <1>3, ReserveMapShows
<1>4. CASE IterStart \/ IterNext \/ IterEnd \/ UNCHANGED vars
  BY <1>4 DEF IterStart, IterNext, IterEnd, vars, WellKept
<1> QED
  BY <1>1, <1>2, <1>3, <1>4 DEF Next

\* The map is well formed at the start.
LEMMA InitKept == Init => TableInv
<1> SUFFICES ASSUME Init PROVE WellKept
  BY InitTyped DEF TableInv
<1>1. Items(map) = {}
  BY DEF Init, Items
<1> QED
  BY <1>1 DEF WellKept, Kept

\* The map is well formed always.
LEMMA TableHolds == DistinctKeys /\ Spec => []TableInv
<1> SUFFICES ASSUME DistinctKeys PROVE Spec => []TableInv
  OBVIOUS
<1>1. TableInv /\ [Next]_vars => TableInv'
  BY NextKept
<1> QED
  BY <1>1, InitKept, PTL DEF Spec

\* A key has one entry, none that belongs in the array part, and a dead one holds
\* nil, as grow_array, set and next expect.
THEOREM MapKept == DistinctKeys /\ Spec => []MapWellFormed
<1> SUFFICES ASSUME DistinctKeys PROVE Spec => []MapWellFormed
  OBVIOUS
<1>1. TableInv => MapWellFormed
  <2> SUFFICES ASSUME TableInv PROVE MapWellFormed
    OBVIOUS
  <2>1. \A b \in Items(map) : map[b].key \in Keys
    BY TypesFacts, Buckets DEF TableInv, MapEntry
  <2> QED
    BY <2>1, KeyEquality DEF TableInv, WellKept, Kept, MapWellFormed, InArray
<1> QED
  BY <1>1, TableHolds, PTL

-----------------------------------------------------------------------------
(* The table is a map from keys to values. *)

\* The same for get in the next state.
LEMMA GetPrimed ==
  ASSUME NEW k \in Keys
  PROVE  Get(k)' = Value(array', map', k)
  BY KeyIndex DEF Get, Value, InArray

\* Every step sets a key of the map, rejects a key, or shows nothing.
LEMMA TableStep ==
  ASSUME DistinctKeys, TableInv, [Next]_vars
  PROVE  [T!Next]_(T!vars)
<1> USE DEF TableInv
<1>1. ASSUME NEW k \in Inputs, NEW v \in Vals \cup {Nil}, Set(k, v) PROVE T!Next
  <2>1. CASE ValidKey(k)
    <3> DEFINE K == CanonicalKey(k)
    <3>1. K \in Keys /\ Assigns(k, v)
      BY <1>1, <2>1, SetAssigns, InputFacts
    <3>2. \A l \in Keys : Get(l)' = IF l = K THEN v ELSE Get(l)
      BY <3>1, GetPrimed, GetKey DEF Assigns, Sets
    <3>3. reply' = Get(K)
      BY <3>1, GetKey DEF Assigns
    <3> HIDE DEF K
    <3>4. [l \in Keys |-> Get(l)'] = [[l \in Keys |-> Get(l)] EXCEPT ![K] = v]
      BY <3>1, <3>2
    <3>5. T!Set(K, v)
      BY <3>1, <3>3, <3>4 DEF T!Set
    <3> QED
      BY <3>1, <3>5 DEF T!Next
  <2>2. CASE ~ValidKey(k)
    <3>1. SetInvalid(k)
      BY <1>1, <2>2, SetRejects
    <3>2. \A l \in Keys : Get(l)' = Get(l)
      BY <3>1, GetPrimed, GetKey DEF SetInvalid
    <3> QED
      BY <3>1, <3>2 DEF T!Next, T!SetInvalid, SetInvalid
  <2> QED
    BY <2>1, <2>2
<1>2. CASE \E n \in Len(array)..MaxArray : GrowArray(n)
  <2>1. Shows /\ reply' = reply
    BY <1>2, GrowArrayShows
  <2> QED
    BY <2>1, GetPrimed, GetKey DEF T!vars, Shows
<1>3. CASE \E n \in 1..2 : ReserveMap(n)
  <2>1. Shows /\ reply' = reply
    BY <1>3, ReserveMapShows
  <2> QED
    BY <2>1, GetPrimed, GetKey DEF T!vars, Shows
<1>4. CASE IterStart \/ IterNext \/ IterEnd \/ UNCHANGED vars
  <2>1. array' = array /\ map' = map /\ reply' = reply
    BY <1>4 DEF IterStart, IterNext, IterEnd, vars
  <2> QED
    BY <2>1, GetPrimed, GetKey DEF T!vars
<1> QED
  BY <1>1, <1>2, <1>3, <1>4 DEF Next

\* Moving entries between the parts, growing, rehashing and killing keys are
\* invisible: RawTable implements LuaTable, a map from keys to values of which set
\* returns the previous one.
THEOREM TableImplemented == DistinctKeys /\ Spec => ImplementsTable
<1> SUFFICES ASSUME DistinctKeys PROVE Spec => ImplementsTable
  OBVIOUS
<1>1. Init => T!Init
  <2> SUFFICES ASSUME Init PROVE \A k \in Keys : Get(k) = Nil
    BY DEF Init, T!Init
  <2>1. array = << >> /\ \A k \in Keys : Holding(map, k) = {}
    BY DEF Init, Holding, Items
  <2> QED
    BY <2>1, KeyIndex DEF Get, InArray
<1>2. TableInv /\ [Next]_vars => [T!Next]_(T!vars)
  BY TableStep
<1>3. Spec => []TableInv
  BY TableHolds
<1> QED
  BY <1>1, <1>2, <1>3, PTL DEF Spec, ImplementsTable, T!Spec

-----------------------------------------------------------------------------
(* Traversals. *)

Last == [type |-> "Last"]

\* The traversal is after slot i of the array and bucket b of the map.
AtPlace(i, b) ==
  \/ iter.at = NilKey /\ i = 0 /\ b = 0
  \/ iter.at = IntKey(i) /\ i \in 1..Len(array) /\ b = 0
  \/ i = Len(array) /\ b \in Items(map) /\ iter.at = map[b].key
  \/ i = Len(array) /\ b = Len(map) /\ iter.at = Last

\* Up to there it has seen every key that is present, and none after.
SeenUpTo(i, b) ==
  /\ \A j \in 1..Len(array) : j <= i => array[j] = Nil \/ IntKey(j) \in iter.seen
  /\ \A j \in 1..Len(array) : IntKey(j) \in iter.seen => j <= i
  /\ \A c \in Items(map) : c <= b => map[c].val = Nil \/ map[c].key \in iter.seen
  /\ \A c \in Items(map) : map[c].key \in iter.seen => c <= b

IterInv ==
  /\ iter = [on |-> iter.on, at |-> iter.at, seen |-> iter.seen]
  /\ iter.on => \E i \in 0..Len(array), b \in 0..Len(map) : AtPlace(i, b) /\ SeenUpTo(i, b)

\* What the entries of a well kept map are.
LEMMA EntryFacts ==
  ASSUME TableInv, NEW b \in Items(map)
  PROVE  /\ b \in 1..Len(map) /\ Len(map) \in Nat
         /\ map[b].key \in Keys /\ map[b].key.type \in {"integer", "object"}
         /\ ~InArray(map[b].key) /\ ValidKey(map[b].key) /\ CanonicalKey(map[b].key) = map[b].key
<1>1. /\ b \in 1..Len(map) /\ Len(map) \in Nat /\ map[b].key \in Keys
      /\ ArrayIndex(map[b].key) \notin 1..Len(array)
  BY TypesFacts, Buckets DEF TableInv, MapEntry, WellKept, Kept
<1> QED
  BY <1>1, KeyFields, KeyIndex DEF InArray

\* Wherever a traversal is, next goes on right after it.
LEMMA NextFromPlace ==
  ASSUME DistinctKeys, TableInv, NEW i \in 0..Len(array), NEW b \in 0..Len(map), AtPlace(i, b),
         iter.at.type \notin {"Last", "NotFound"}
  PROVE  NextKey(iter.at) = FirstFrom(i + 1, b + 1)
<1>0. Len(array) \in Nat
  BY TypesFacts DEF TableInv
<1>1. CASE iter.at = NilKey /\ i = 0 /\ b = 0
  BY <1>1 DEF NextKey, NilKey
<1>2. CASE iter.at = IntKey(i) /\ i \in 1..Len(array) /\ b = 0
  <2>1. ArrayIndex(iter.at) = i /\ iter.at.type = "integer"
    BY <1>0, <1>2, IntKeyIndex DEF IntKey
  <2>2. InArray(iter.at)
    BY <1>2, <2>1 DEF InArray
  <2> QED
    BY <1>2, <2>1, <2>2 DEF NextKey
<1>3. CASE i = Len(array) /\ b \in Items(map) /\ iter.at = map[b].key
  <2> DEFINE k == iter.at
  <2>1. ~InArray(k) /\ ValidKey(k) /\ CanonicalKey(k) = k /\ k.type # "nil"
    BY <1>3, EntryFacts
  <2>2. Holding(map, k) = {b}
    BY <1>3, TypesFacts, LookupValue DEF TableInv, WellKept
  <2> HIDE DEF k
  <2>3. NextKey(k) = FirstFrom(Len(array) + 1, b + 1)
    BY <2>1, <2>2 DEF NextKey
  <2> QED
    BY <1>3, <2>3 DEF k
<1>4. CASE iter.at = Last
  BY <1>4 DEF Last
<1> QED
  BY <1>1, <1>2, <1>3, <1>4 DEF AtPlace

\* What the next place is: the next slot in use, else the next bucket, else the end.
LEMMA FirstPlace ==
  ASSUME TypesInv, NEW i \in 0..Len(array), NEW b \in 0..Len(map)
  PROVE  \/ \E j \in (i + 1)..Len(array) :
              /\ FirstFrom(i + 1, b + 1) = IntKey(j) /\ array[j] # Nil
              /\ \A l \in (i + 1)..(j - 1) : array[l] = Nil
         \/ /\ \A l \in (i + 1)..Len(array) : array[l] = Nil
            /\ \E c \in Items(map) :
                 /\ FirstFrom(i + 1, b + 1) = map[c].key /\ c > b /\ map[c].val # Nil
                 /\ \A d \in Items(map) : b < d /\ d < c => map[d].val = Nil
         \/ /\ \A l \in (i + 1)..Len(array) : array[l] = Nil
            /\ \A d \in Items(map) : b < d => map[d].val = Nil
            /\ FirstFrom(i + 1, b + 1) = Last
<1> DEFINE inArray == {j \in 1..Len(array) : j >= i + 1 /\ array[j] # Nil}
           inMap == {c \in Items(map) : c >= b + 1 /\ map[c].val # Nil}
           first(S) == CHOOSE x \in S : \A y \in S : x <= y
<1>1. FirstFrom(i + 1, b + 1) =
        IF inArray # {} THEN IntKey(first(inArray))
        ELSE IF inMap # {} THEN map[first(inMap)].key ELSE Last
  BY DEF FirstFrom, Last
<1>2. /\ Len(array) \in Nat /\ Len(map) \in Nat /\ Items(map) \subseteq 1..Len(map)
      /\ i \in Nat /\ b \in Nat
  BY TypesFacts, Buckets
<1>3. ASSUME NEW S \in SUBSET Nat, S # {} PROVE first(S) \in S /\ \A y \in S : first(S) <= y
  BY <1>3, Least
<1>4. inArray \in SUBSET Nat /\ inMap \in SUBSET Nat
  BY <1>2
<1>5. CASE inArray # {}
  <2> DEFINE j == first(inArray)
  <2>1. j \in inArray /\ \A y \in inArray : j <= y
    BY <1>3, <1>4, <1>5
  <2>2. FirstFrom(i + 1, b + 1) = IntKey(j)
    BY <1>1, <1>5
  <2> HIDE DEF j, first
  <2>3. j \in (i + 1)..Len(array) /\ array[j] # Nil
    BY <1>2, <2>1
  <2>4. \A l \in (i + 1)..(j - 1) : array[l] = Nil
    BY <1>2, <2>1, <2>3
  <2> QED
    BY <2>2, <2>3, <2>4
<1>6. CASE inArray = {} /\ inMap # {}
  <2> DEFINE c == first(inMap)
  <2>1. c \in inMap /\ \A y \in inMap : c <= y
    BY <1>3, <1>4, <1>6
  <2>2. FirstFrom(i + 1, b + 1) = map[c].key
    BY <1>1, <1>6
  <2> HIDE DEF c, first
  <2>3. c \in Items(map) /\ c > b /\ map[c].val # Nil
    BY <1>2, <2>1
  <2>4. \A d \in Items(map) : b < d /\ d < c => map[d].val = Nil
    BY <1>2, <2>1, <2>3
  <2>5. \A l \in (i + 1)..Len(array) : array[l] = Nil
    BY <1>2, <1>6
  <2> QED
    BY <2>2, <2>3, <2>4, <2>5
<1>7. CASE inArray = {} /\ inMap = {}
  <2>1. FirstFrom(i + 1, b + 1) = Last
    BY <1>1, <1>7
  <2>2. \A l \in (i + 1)..Len(array) : array[l] = Nil
    BY <1>2, <1>7
  <2>3. \A d \in Items(map) : b < d => map[d].val = Nil
    BY <1>2, <1>7
  <2> QED
    BY <2>1, <2>2, <2>3
<1> QED
  BY <1>5, <1>6, <1>7

\* A traversal that is at a place goes on to a later one, to a key it has not seen.
LEMMA IterNextPlace ==
  ASSUME DistinctKeys, TableInv, IterInv, IterNext
  PROVE  IterInv' /\ (iter'.at.type # "Last" => iter'.at \notin iter.seen)
<1>1. iter.on /\ iter.at.type \notin {"Last", "NotFound"} /\ array' = array /\ map' = map
  BY DEF IterNext
<1>2. PICK i \in 0..Len(array), b \in 0..Len(map) : AtPlace(i, b) /\ SeenUpTo(i, b)
  BY <1>1 DEF IterInv
<1> DEFINE k == FirstFrom(i + 1, b + 1)
           new == IF k.type \in {"Last", "NotFound"} THEN iter.seen ELSE iter.seen \cup {k}
<1>3. iter' = [on |-> iter.on, at |-> k, seen |-> new]
  <2>1. NextKey(iter.at) = k
    BY <1>1, <1>2, NextFromPlace
  <2> HIDE DEF k
  <2>2. iter' = [iter EXCEPT !.at = k, !.seen = new]
    BY <2>1 DEF IterNext
  <2> QED
    BY <2>2 DEF IterInv
<1>4. /\ Len(array) \in Nat /\ Len(map) \in Nat /\ Items(map) \subseteq 1..Len(map)
      /\ i \in Nat /\ b \in Nat /\ i <= Len(array) /\ b <= Len(map)
  BY TypesFacts, Buckets DEF TableInv
<1>5. \A x, y : IntKey(x) = IntKey(y) => x = y
  BY DEF IntKey
<1>6. \A c \in Items(map) : \A j \in 1..Len(array) : map[c].key # IntKey(j)
  BY <1>4, IntKeyIndex, EntryFacts DEF InArray
<1>7. \A c, d \in Items(map) : map[c].key = map[d].key => c = d
  BY DEF TableInv, WellKept, Kept
<1>8. \/ \E j \in (i + 1)..Len(array) :
            /\ k = IntKey(j) /\ array[j] # Nil
            /\ \A l \in (i + 1)..(j - 1) : array[l] = Nil
      \/ /\ \A l \in (i + 1)..Len(array) : array[l] = Nil
         /\ \E c \in Items(map) :
              /\ k = map[c].key /\ c > b /\ map[c].val # Nil
              /\ \A d \in Items(map) : b < d /\ d < c => map[d].val = Nil
      \/ /\ \A l \in (i + 1)..Len(array) : array[l] = Nil
         /\ \A d \in Items(map) : b < d => map[d].val = Nil
         /\ k = Last
  BY FirstPlace DEF TableInv
<1>9. iter' = [on |-> iter'.on, at |-> iter'.at, seen |-> iter'.seen]
      /\ iter'.on = iter.on /\ iter'.at = k /\ iter'.seen = new
  BY <1>3
<1> HIDE DEF k
<1>10. ASSUME NEW j \in (i + 1)..Len(array), k = IntKey(j), array[j] # Nil,
              \A l \in (i + 1)..(j - 1) : array[l] = Nil
       PROVE  AtPlace(j, 0)' /\ SeenUpTo(j, 0)' /\ k \notin iter.seen
  <2>1. b = 0
    BY <1>2, <1>4, <1>10, <1>1 DEF AtPlace, Last
  <2>2. new = iter.seen \cup {IntKey(j)} /\ j \in 1..Len(array) /\ i < j
    BY <1>4, <1>10 DEF IntKey
  <2> HIDE DEF new
  <2>3. AtPlace(j, 0)'
    BY <1>1, <1>9, <1>10, <2>2 DEF AtPlace
  <2>4. \A l \in 1..Len(array) : l <= j => array[l] = Nil \/ IntKey(l) \in new
    <3> SUFFICES ASSUME NEW l \in 1..Len(array), l <= j PROVE array[l] = Nil \/ IntKey(l) \in new
      OBVIOUS
    <3>1. l <= i \/ l \in (i + 1)..(j - 1) \/ l = j
      BY <1>4, <2>2
    <3> QED
      BY <1>2, <1>10, <2>2, <3>1 DEF SeenUpTo
  <2>5. \A l \in 1..Len(array) : IntKey(l) \in new => l <= j
    BY <1>2, <1>4, <1>5, <2>2 DEF SeenUpTo
  <2>6. \A c \in Items(map) : map[c].key \notin new
    <3>1. \A c \in Items(map) : ~(c <= 0)
      BY <1>4
    <3> QED
      BY <1>2, <1>6, <2>1, <2>2, <3>1 DEF SeenUpTo
  <2>7. \A c \in Items(map) : ~(c <= 0)
    BY <1>4
  <2>8. SeenUpTo(j, 0)'
    BY <1>1, <1>9, <2>4, <2>5, <2>6, <2>7 DEF SeenUpTo
  <2>9. k \notin iter.seen
    BY <1>2, <1>4, <1>10, <2>2 DEF SeenUpTo
  <2> QED
    BY <2>3, <2>8, <2>9
<1>11. ASSUME \A l \in (i + 1)..Len(array) : array[l] = Nil,
              NEW c \in Items(map), k = map[c].key, c > b, map[c].val # Nil,
              \A d \in Items(map) : b < d /\ d < c => map[d].val = Nil
       PROVE  AtPlace(Len(array), c)' /\ SeenUpTo(Len(array), c)' /\ k \notin iter.seen
  <2>1. new = iter.seen \cup {k}
    BY <1>11, EntryFacts
  <2> HIDE DEF new
  <2>2. AtPlace(Len(array), c)'
    BY <1>1, <1>9, <1>11 DEF AtPlace
  <2>3. \A l \in 1..Len(array) : array[l] = Nil \/ IntKey(l) \in new
    BY <1>2, <1>4, <1>11, <2>1 DEF SeenUpTo
  <2>4. \A d \in Items(map) : d <= c => map[d].val = Nil \/ map[d].key \in new
    <3> SUFFICES ASSUME NEW d \in Items(map), d <= c PROVE map[d].val = Nil \/ map[d].key \in new
      OBVIOUS
    <3>1. d <= b \/ (b < d /\ d < c) \/ d = c
      BY <1>4
    <3> QED
      BY <1>2, <1>11, <2>1, <3>1 DEF SeenUpTo
  <2>5. \A d \in Items(map) : map[d].key \in new => d <= c
    <3> SUFFICES ASSUME NEW d \in Items(map), map[d].key \in new PROVE d <= c
      OBVIOUS
    <3>1. d <= b \/ d = c
      BY <1>2, <1>7, <1>11, <2>1 DEF SeenUpTo
    <3> QED
      BY <1>4, <1>11, <3>1
  <2>6. SeenUpTo(Len(array), c)'
    BY <1>1, <1>9, <2>3, <2>4, <2>5 DEF SeenUpTo
  <2>7. k \notin iter.seen
    BY <1>2, <1>4, <1>11 DEF SeenUpTo
  <2> QED
    BY <2>2, <2>6, <2>7
<1>12. ASSUME \A l \in (i + 1)..Len(array) : array[l] = Nil,
              \A d \in Items(map) : b < d => map[d].val = Nil, k = Last
       PROVE  AtPlace(Len(array), Len(map))' /\ SeenUpTo(Len(array), Len(map))'
  <2>1. new = iter.seen
    BY <1>12 DEF Last
  <2>2. AtPlace(Len(array), Len(map))'
    BY <1>1, <1>9, <1>12 DEF AtPlace
  <2>3. \A l \in 1..Len(array) : array[l] = Nil \/ IntKey(l) \in iter.seen
    BY <1>2, <1>4, <1>12 DEF SeenUpTo
  <2>4. \A d \in Items(map) : map[d].val = Nil \/ map[d].key \in iter.seen
    BY <1>2, <1>4, <1>12 DEF SeenUpTo
  <2>5. \A d \in Items(map) : d <= Len(map)
    BY <1>4
  <2>6. SeenUpTo(Len(array), Len(map))'
    BY <1>1, <1>9, <2>1, <2>3, <2>4, <2>5 DEF SeenUpTo
  <2> QED
    BY <2>2, <2>6
<1>13. \E j \in 0..Len(array), c \in 0..Len(map) :
         AtPlace(j, c)' /\ SeenUpTo(j, c)' /\ (k = Last \/ k \notin iter.seen)
  <2>1. /\ 0 \in 0..Len(map) /\ Len(array) \in 0..Len(array) /\ Len(map) \in 0..Len(map)
        /\ \A j \in (i + 1)..Len(array) : j \in 0..Len(array)
        /\ \A c \in Items(map) : c \in 0..Len(map)
    BY <1>4
  <2>2. CASE \E j \in (i + 1)..Len(array) :
               /\ k = IntKey(j) /\ array[j] # Nil
               /\ \A l \in (i + 1)..(j - 1) : array[l] = Nil
    BY <1>10, <2>1, <2>2
  <2>3. CASE /\ \A l \in (i + 1)..Len(array) : array[l] = Nil
             /\ \E c \in Items(map) :
                  /\ k = map[c].key /\ c > b /\ map[c].val # Nil
                  /\ \A d \in Items(map) : b < d /\ d < c => map[d].val = Nil
    BY <1>1, <1>11, <2>1, <2>3
  <2>4. CASE /\ \A l \in (i + 1)..Len(array) : array[l] = Nil
             /\ \A d \in Items(map) : b < d => map[d].val = Nil
             /\ k = Last
    BY <1>1, <1>12, <2>1, <2>4
  <2> QED
    BY <1>8, <2>2, <2>3, <2>4
<1>14. IterInv'
  BY <1>1, <1>9, <1>13 DEF IterInv
<1> QED
  BY <1>9, <1>13, <1>14 DEF Last

\* Values that stay, or become nil, under the same keys leave a traversal in place.
LEMMA PlaceKept ==
  ASSUME IterInv, iter' = iter, Len(array') = Len(array), Len(map') = Len(map), Items(map') = Items(map),
         \A c \in Items(map) : map'[c].key = map[c].key,
         \A j \in 1..Len(array) : array[j] = Nil => array'[j] = Nil,
         \A c \in Items(map) : map[c].val = Nil => map'[c].val = Nil
  PROVE  IterInv'
<1>1. ASSUME NEW i \in 0..Len(array), NEW b \in 0..Len(map), AtPlace(i, b), SeenUpTo(i, b)
      PROVE  AtPlace(i, b)' /\ SeenUpTo(i, b)'
  <2>1. AtPlace(i, b)'
    BY <1>1 DEF AtPlace
  <2>2. SeenUpTo(i, b)'
    BY <1>1 DEF SeenUpTo
  <2> QED
    BY <2>1, <2>2
<1> QED
  BY <1>1 DEF IterInv

\* A traversal that is over.
LEMMA IdlePlace == ASSUME iter' = Idle PROVE IterInv'
  BY DEF Idle, IterInv

\* A set that puts a new key into the table ends it.
LEMMA SetPlace ==
  ASSUME DistinctKeys, TableInv, IterInv, NEW k \in Inputs, NEW v \in Vals \cup {Nil}, Set(k, v)
  PROVE  IterInv'
<1> USE DEF TableInv
<1>1. CASE SetArray(k, v)
  <2>1. /\ ArrayIndex(k) \in 1..Len(array) /\ array' = [array EXCEPT ![ArrayIndex(k)] = v]
        /\ map' = map /\ iter' = IF Interrupts(k, v) THEN Idle ELSE iter
    BY <1>1 DEF SetArray, InArray, Traverse
  <2>2. Get(k) = array[ArrayIndex(k)]
    BY <2>1 DEF Get, InArray
  <2>3. CASE Interrupts(k, v)
    BY <2>1, <2>3, IdlePlace
  <2>4. CASE ~Interrupts(k, v)
    <3>1. v = Nil \/ array[ArrayIndex(k)] # Nil
      BY <2>2, <2>4 DEF Interrupts
    <3>2. Len(array') = Len(array) /\ \A j \in 1..Len(array) : array[j] = Nil => array'[j] = Nil
      BY <2>1, <3>1, TypesFacts
    <3> QED
      BY <2>1, <2>4, <3>2, PlaceKept
  <2> QED
    BY <2>3, <2>4
<1>2. CASE SetInvalid(k)
  BY <1>2, PlaceKept DEF SetInvalid
<1>3. CASE v = Nil /\ Remove(k)
  <2>1. array' = array /\ iter' = iter
    BY <1>3, Zenon DEF Remove
  <2>2. /\ Rewritten(map, map')
        /\ \A c \in Holding(map, CanonicalKey(k)) : map'[c].val = Nil
        /\ \A c \in DOMAIN map : c \notin Holding(map, CanonicalKey(k)) => map'[c] = map[c]
    BY <1>3, RemoveEffect
  <2>3. /\ Len(map') = Len(map) /\ Items(map') = Items(map)
        /\ \A c \in Items(map) : map'[c].key = map[c].key
    BY <2>2, RewrittenMap, TypesFacts
  <2>4. \A c \in Items(map) : map[c].val = Nil => map'[c].val = Nil
    BY <2>2 DEF Items
  <2> QED
    BY <2>1, <2>3, <2>4, PlaceKept
<1>4. CASE v # Nil /\ Replace(k, v)
  <2> DEFINE K == CanonicalKey(k)
  <2>1. /\ ~InArray(k) /\ ValidKey(k) /\ array' = array
        /\ iter' = IF Interrupts(k, v) THEN Idle ELSE iter
    BY <1>4 DEF Replace, Traverse
  <2>2. Rewritten(map, map')
    BY <1>4, ReplaceEffect
  <2>3. PICK b \in Holding(map, K) : \A c \in DOMAIN map : c # b => map'[c] = map[c]
    BY <1>4, ReplaceEffect
  <2>4. /\ Len(map') = Len(map) /\ Items(map') = Items(map)
        /\ \A c \in Items(map) : map'[c].key = map[c].key
    BY <2>2, RewrittenMap, TypesFacts
  <2>5. K \in Keys
    BY <2>1, InputFacts
  <2>6. Get(k) = map[b].val
    <3> HIDE DEF K
    <3>1. b \in Items(map) /\ map[b].key = K
      BY <2>3, <2>5, TypesFacts, HoldingKey
    <3>2. Holding(map, K) = {b} /\ Lookup(map, K) = map[b].val
      BY <3>1, TypesFacts, LookupValue DEF WellKept
    <3> QED
      BY <2>1, <3>2 DEF Get, K
  <2>7. CASE Interrupts(k, v)
    BY <2>1, <2>7, IdlePlace
  <2>8. CASE ~Interrupts(k, v)
    <3>1. map[b].val # Nil
      BY <1>4, <2>6, <2>8 DEF Interrupts
    <3>2. \A c \in Items(map) : map[c].val = Nil => map'[c].val = Nil
      BY <2>3, <3>1 DEF Items
    <3> QED
      BY <2>1, <2>4, <2>8, <3>2, PlaceKept
  <2> QED
    BY <2>7, <2>8
<1>5. CASE v # Nil /\ (Insert(k, v) \/ InsertGrowingArray(k, v) \/ InsertGrowingMap(k, v))
  <2>1. ~InArray(k) /\ ValidKey(k) /\ Holding(map, CanonicalKey(k)) = {} /\ Traverse(k, v)
    BY <1>5 DEF Insert, InsertGrowingArray, InsertGrowingMap, MustGrow
  <2>2. Get(k) = Nil
    BY <2>1 DEF Get
  <2> QED
    BY <1>5, <2>1, <2>2, IdlePlace DEF Traverse, Interrupts
<1> QED
  BY <1>1, <1>2, <1>3, <1>4, <1>5 DEF Set

\* A traversal starts before everything.
LEMMA StartPlace ==
  ASSUME TableInv, IterStart
  PROVE  IterInv'
<1>1. /\ iter' = [on |-> TRUE, at |-> NilKey, seen |-> {}]
      /\ array' = array /\ map' = map
  BY DEF IterStart, Idle
<1>2. Len(array) \in Nat /\ Len(map) \in Nat /\ Items(map) \subseteq 1..Len(map)
  BY TypesFacts, Buckets DEF TableInv
<1>3. AtPlace(0, 0)'
  BY <1>1 DEF AtPlace
<1>4. SeenUpTo(0, 0)'
  BY <1>1, <1>2 DEF SeenUpTo
<1>5. \E i \in 0..Len(array), b \in 0..Len(map) : AtPlace(i, b)' /\ SeenUpTo(i, b)'
  BY <1>2, <1>3, <1>4
<1> QED
  BY <1>1, <1>5 DEF IterInv

\* Every step keeps the place of a traversal.
LEMMA NextPlace == DistinctKeys /\ TableInv /\ IterInv /\ [Next]_vars => IterInv'
<1> SUFFICES ASSUME DistinctKeys, TableInv, IterInv, [Next]_vars PROVE IterInv'
  OBVIOUS
<1>1. CASE \E k \in Inputs, v \in Vals \cup {Nil} : Set(k, v)
  BY <1>1, SetPlace
<1>2. CASE (\E n \in Len(array)..MaxArray : GrowArray(n)) \/ (\E n \in 1..2 : ReserveMap(n)) \/ IterEnd
  BY <1>2, IdlePlace DEF GrowArray, ReserveMap, IterEnd
<1>3. CASE IterStart
  BY <1>3, StartPlace
<1>4. CASE IterNext
  BY <1>4, IterNextPlace
<1>5. CASE UNCHANGED vars
  BY <1>5, PlaceKept DEF vars
<1> QED
  BY <1>1, <1>2, <1>3, <1>4, <1>5 DEF Next

\* Table and traversal keep their invariant always.
LEMMA PlacesHold == DistinctKeys /\ Spec => [](TableInv /\ IterInv)
<1> SUFFICES ASSUME DistinctKeys PROVE Spec => [](TableInv /\ IterInv)
  OBVIOUS
<1>1. Init => IterInv
  BY DEF Init, IterInv, Idle
<1>2. TableInv /\ IterInv /\ [Next]_vars => IterInv'
  BY NextPlace
<1> QED
  BY <1>1, <1>2, TableHolds, PTL DEF Spec

\* However the table is assigned to and removed from on the way, a traversal never
\* loses its place ("NotFound"), and at its end has seen every key still there.
THEOREM TraversalMissesNothing == DistinctKeys /\ Spec => []TraversalComplete
<1> SUFFICES ASSUME DistinctKeys PROVE Spec => []TraversalComplete
  OBVIOUS
<1>1. TableInv /\ IterInv => TraversalComplete
  <2> SUFFICES ASSUME TableInv, IterInv, iter.on
               PROVE  /\ iter.at.type # "NotFound"
                      /\ iter.at.type = "Last" => \A k \in Keys : Get(k) # Nil => k \in iter.seen
    BY DEF TraversalComplete
  <2>1. PICK i \in 0..Len(array), b \in 0..Len(map) : AtPlace(i, b) /\ SeenUpTo(i, b)
    BY DEF IterInv
  <2>2. iter.at.type # "NotFound"
    BY <2>1, EntryFacts DEF AtPlace, NilKey, IntKey, Last
  <2>3. ASSUME iter.at.type = "Last", NEW k \in Keys, Get(k) # Nil PROVE k \in iter.seen
    <3>1. i = Len(array) /\ b = Len(map)
      BY <2>1, <2>3, EntryFacts DEF AtPlace, NilKey, IntKey
    <3>2. Value(array, map, k) # Nil
      BY <2>3, GetKey
    <3>3. /\ Len(array) \in Nat /\ map \in Seq(Bucket) /\ Kept(map, Len(array))
          /\ \A c \in Items(map) : c <= Len(map)
      BY TypesFacts, Buckets DEF TableInv, WellKept
    <3>4. CASE ArrayIndex(k) \in 1..Len(array)
      <4>1. k = IntKey(ArrayIndex(k)) /\ array[ArrayIndex(k)] # Nil
        BY <3>2, <3>4, KeyIndex DEF Value
      <4> QED
        BY <2>1, <3>1, <3>4, <4>1 DEF SeenUpTo
    <3>5. CASE ArrayIndex(k) \notin 1..Len(array)
      <4>1. PICK c \in Items(map) : map[c].key = k
        BY <3>2, <3>3, <3>5, ValueFacts
      <4>2. map[c].val # Nil
        BY <3>2, <3>3, <3>5, <4>1, ValueFacts
      <4> QED
        BY <2>1, <3>1, <3>3, <4>1, <4>2 DEF SeenUpTo
    <3> QED
      BY <3>4, <3>5
  <2> QED
    BY <2>2, <2>3
<1> QED
  BY <1>1, PlacesHold, PTL

\* No step of next gives a key the traversal has already seen.
THEOREM TraversalRepeatsNothing == DistinctKeys /\ Spec => NoKeyTwice
<1> SUFFICES ASSUME DistinctKeys PROVE Spec => NoKeyTwice
  OBVIOUS
<1>1. TableInv /\ IterInv /\ [Next]_vars
        => [IterNext /\ iter'.at.type # "Last" => iter'.at \notin iter.seen]_vars
  BY IterNextPlace
<1> QED
  BY <1>1, PlacesHold, PTL DEF Spec, NoKeyTwice

-----------------------------------------------------------------------------
(* The length. *)

Windows(max) == (0..max) \X (0..max)
Half(w) == w[1] + (w[2] - w[1]) \div 2

\* The step of BinarySearch from a window, with its results for smaller ones.
SearchStep(f, w, absent) ==
  IF w[2] - w[1] <= 1 THEN w[1]
  ELSE f[IF Half(w) \in absent THEN <<w[1], Half(w)>> ELSE <<Half(w), w[2]>>]

\* Both halves of a window are smaller windows.
LEMMA Halves ==
  ASSUME NEW max \in Nat, NEW w \in Windows(max), ~(w[2] - w[1] <= 1)
  PROVE  /\ Half(w) \in 0..max /\ w[1] < Half(w) /\ Half(w) < w[2]
         /\ <<w[1], Half(w)>> \in Windows(max) /\ <<Half(w), w[2]>> \in Windows(max)
<1>1. w[1] \in 0..max /\ w[2] \in 0..max
  BY DEF Windows
<1>2. Half(w) \in 0..max /\ w[1] < Half(w) /\ Half(w) < w[2]
  <2> DEFINE a == w[1]  b == w[2]
  <2>1. a \in Nat /\ b \in Nat /\ b - a > 1 /\ b <= max
    BY <1>1
  <2> HIDE DEF a, b
  <2>2. LET h == a + (b - a) \div 2 IN h \in Nat /\ a < h /\ h < b
    BY <2>1
  <2> QED
    BY <2>1, <2>2 DEF Half, a, b
<1> QED
  BY <1>1, <1>2 DEF Windows

\* The recursion of BinarySearch ends: some function does what every step says.
LEMMA SearchDefined ==
  ASSUME NEW max \in Nat, NEW absent
  PROVE  \E f : f = [w \in Windows(max) |-> SearchStep(f, w, absent)]
<1> DEFINE W == Windows(max)
           Works(f, n) == \A w \in W : w[2] - w[1] <= n => f[w] = SearchStep(f, w, absent)
           Bad == {n \in Nat : ~ \E f \in [W -> 0..max] : Works(f, n)}
<1>1. \A w \in W : w[1] \in 0..max /\ w[2] \in 0..max
  BY DEF Windows
<1>2. 0 \notin Bad
  <2> DEFINE f == [w \in W |-> w[1]]
  <2>1. f \in [W -> 0..max]
    BY <1>1
  <2>2. Works(f, 0)
    BY <1>1 DEF SearchStep
  <2> QED
    BY <2>1, <2>2
<1>3. ASSUME NEW n \in Nat, n \notin Bad PROVE n + 1 \notin Bad
  <2>1. PICK f \in [W -> 0..max] : Works(f, n)
    BY <1>3
  <2> DEFINE g == [w \in W |-> IF w[2] - w[1] <= n THEN f[w] ELSE SearchStep(f, w, absent)]
  <2>2. \A w \in W : SearchStep(f, w, absent) \in 0..max
    BY <1>1, Halves DEF SearchStep
  <2>3. g \in [W -> 0..max]
    BY <2>2
  <2>4. ASSUME NEW w \in W, w[2] - w[1] <= n + 1
        PROVE  SearchStep(g, w, absent) = SearchStep(f, w, absent)
    <3>1. CASE w[2] - w[1] <= 1
      BY <3>1 DEF SearchStep
    <3>2. CASE ~(w[2] - w[1] <= 1)
      <4>1. /\ <<w[1], Half(w)>> \in W /\ <<Half(w), w[2]>> \in W
            /\ Half(w) - w[1] <= n /\ w[2] - Half(w) <= n
        BY <1>1, <2>4, <3>2, Halves
      <4>2. g[<<w[1], Half(w)>>] = f[<<w[1], Half(w)>>] /\ g[<<Half(w), w[2]>>] = f[<<Half(w), w[2]>>]
        BY <4>1
      <4> HIDE DEF g
      <4> QED
        BY <3>2, <4>2 DEF SearchStep
    <3> QED
      BY <3>1, <3>2
  <2>5. \A w \in W : w[2] - w[1] <= n => g[w] = SearchStep(f, w, absent)
    BY <2>1
  <2>6. \A w \in W : ~(w[2] - w[1] <= n) => g[w] = SearchStep(f, w, absent)
    OBVIOUS
  <2> HIDE DEF g, W
  <2>7. Works(g, n + 1)
    BY <2>4, <2>5, <2>6
  <2> QED
    BY <2>3, <2>7
<1>4. Bad = {}
  <2> HIDE DEF Bad
  <2> SUFFICES ASSUME Bad # {} PROVE FALSE
    OBVIOUS
  <2>1. Bad \in SUBSET Nat
    BY DEF Bad
  <2>2. PICK n \in Bad : \A m \in Bad : n <= m
    BY <2>1, Least
  <2>3. n \in Nat /\ n # 0 /\ n - 1 \in Nat /\ n - 1 \notin Bad
    BY <1>2, <2>1, <2>2
  <2>4. (n - 1) + 1 \notin Bad
    BY <1>3, <2>3
  <2> QED
    BY <2>2, <2>3, <2>4
<1>5. PICK f \in [W -> 0..max] : Works(f, max)
  BY <1>4
<1>6. \A w \in W : f[w] = SearchStep(f, w, absent)
  BY <1>1, <1>5
<1> QED
  BY <1>6

\* Between a present place and an absent one there is a border.
LEMMA SearchBorder ==
  ASSUME NEW max \in Nat, NEW absent, NEW min \in 0..max,
         NEW f, f = [w \in Windows(max) |-> SearchStep(f, w, absent)]
  PROVE  \A w \in Windows(max) :
           /\ w[1] < w[2] /\ w[2] \in absent /\ (w[1] = min \/ w[1] \notin absent)
           => /\ f[w] \in w[1]..(w[2] - 1)
              /\ f[w] = min \/ f[w] \notin absent
              /\ f[w] + 1 \in absent
<1> DEFINE W == Windows(max)
           Starts(w) == w[1] < w[2] /\ w[2] \in absent /\ (w[1] = min \/ w[1] \notin absent)
           Ends(w) == /\ f[w] \in w[1]..(w[2] - 1)
                      /\ f[w] = min \/ f[w] \notin absent
                      /\ f[w] + 1 \in absent
           Bad == {w[2] - w[1] : w \in {w \in W : Starts(w) /\ ~Ends(w)}}
<1>1. \A w \in W : w[1] \in 0..max /\ w[2] \in 0..max
  BY DEF Windows
<1>2. \A w \in W : f[w] = SearchStep(f, w, absent)
  OBVIOUS
<1>3. SUFFICES ASSUME Bad # {} PROVE FALSE
  OBVIOUS
<1>4. Bad \in SUBSET Nat
  BY <1>1
<1>5. PICK n \in Bad : \A m \in Bad : n <= m
  <2> HIDE DEF Bad
  <2> QED
    BY <1>3, <1>4, Least
<1>6. PICK w \in W : Starts(w) /\ ~Ends(w) /\ n = w[2] - w[1]
  BY <1>5
<1>7. \A u \in W : Starts(u) /\ u[2] - u[1] < n => Ends(u)
  <2> SUFFICES ASSUME NEW u \in W, Starts(u), ~Ends(u) PROVE ~(u[2] - u[1] < n)
    OBVIOUS
  <2>1. u[2] - u[1] \in Bad
    OBVIOUS
  <2>2. n <= u[2] - u[1]
    BY <1>5, <2>1
  <2> QED
    BY <1>1, <1>4, <1>5, <2>1, <2>2
<1> HIDE DEF Bad
<1>8. CASE w[2] - w[1] <= 1
  <2>1. f[w] = w[1] /\ w[2] = w[1] + 1
    BY <1>1, <1>2, <1>6, <1>8 DEF SearchStep
  <2> QED
    BY <1>1, <1>6, <2>1
<1>9. CASE ~(w[2] - w[1] <= 1)
  <2> DEFINE h == Half(w)
  <2>1. /\ h \in 0..max /\ w[1] < h /\ h < w[2]
        /\ <<w[1], h>> \in W /\ <<h, w[2]>> \in W
    BY <1>9, Halves
  <2>2. f[w] = f[IF h \in absent THEN <<w[1], h>> ELSE <<h, w[2]>>]
    BY <1>2, <1>9 DEF SearchStep
  <2> HIDE DEF h, W
  <2>3. CASE h \in absent
    <3> DEFINE u == <<w[1], h>>
    <3>1. u[1] = w[1] /\ u[2] = h /\ u \in W /\ f[w] = f[u]
      BY <2>1, <2>2, <2>3
    <3> HIDE DEF u
    <3>2. Starts(u) /\ u[2] - u[1] < n
      BY <1>1, <1>6, <2>1, <2>3, <3>1
    <3>3. Ends(u)
      BY <1>7, <3>1, <3>2
    <3> QED
      BY <1>1, <1>6, <2>1, <3>1, <3>3
  <2>4. CASE h \notin absent
    <3> DEFINE u == <<h, w[2]>>
    <3>1. u[1] = h /\ u[2] = w[2] /\ u \in W /\ f[w] = f[u]
      BY <2>1, <2>2, <2>4
    <3> HIDE DEF u
    <3>2. Starts(u) /\ u[2] - u[1] < n
      BY <1>1, <1>6, <2>1, <2>4, <3>1
    <3>3. Ends(u)
      BY <1>7, <3>1, <3>2
    <3> QED
      BY <1>1, <1>6, <2>1, <3>1, <3>3
  <2> QED
    BY <2>3, <2>4
<1> QED
  BY <1>8, <1>9

\* What BinarySearch finds.
LEMMA BinarySearchBorder ==
  ASSUME NEW min \in Nat, NEW max \in Nat, NEW absent, min < max, max \in absent
  PROVE  /\ BinarySearch(min, max, absent) \in min..(max - 1)
         /\ BinarySearch(min, max, absent) = min \/ BinarySearch(min, max, absent) \notin absent
         /\ BinarySearch(min, max, absent) + 1 \in absent
<1> DEFINE f == CHOOSE f : f = [w \in Windows(max) |-> SearchStep(f, w, absent)]
<1>1. BinarySearch(min, max, absent) = f[<<min, max>>]
  BY DEF BinarySearch, Windows, SearchStep, Half
<1>2. f = [w \in Windows(max) |-> SearchStep(f, w, absent)]
  BY SearchDefined
<1> HIDE DEF f
<1>3. <<min, max>> \in Windows(max) /\ min \in 0..max
  BY DEF Windows
<1>4. <<min, max>>[1] = min /\ <<min, max>>[2] = max
  OBVIOUS
<1> QED
  BY <1>1, <1>2, <1>3, <1>4, SearchBorder

\* The step of AbsentByDoubling at an integer, with its results for larger ones.
DoubleStep(f, max) ==
  IF ~MapHas(max) THEN max
  ELSE IF max = MAX THEN 0
  ELSE IF 2 * max <= MAX THEN f[2 * max] ELSE f[MAX]

\* The recursion of AbsentByDoubling ends.
LEMMA DoubleDefined == \E f : f = [max \in 1..MAX |-> DoubleStep(f, max)]
<1> DEFINE Works(f, n) == \A m \in 1..MAX : MAX - m <= n => f[m] = DoubleStep(f, m)
           Bad == {n \in Nat : ~ \E f \in [1..MAX -> 0..MAX] : Works(f, n)}
<1>0. MAX \in Nat /\ MAX > 0
  BY TableAssumption
<1>1. 0 \notin Bad
  <2> DEFINE f == [m \in 1..MAX |-> IF ~MapHas(m) THEN m ELSE 0]
  <2>1. f \in [1..MAX -> 0..MAX]
    BY <1>0
  <2>2. \A m \in 1..MAX : MAX - m <= 0 => m = MAX
    BY <1>0
  <2>3. Works(f, 0)
    BY <1>0, <2>2 DEF DoubleStep
  <2> QED
    BY <2>1, <2>3
<1>2. ASSUME NEW n \in Nat, n \notin Bad PROVE n + 1 \notin Bad
  <2>1. PICK f \in [1..MAX -> 0..MAX] : Works(f, n)
    BY <1>2
  <2> DEFINE g == [m \in 1..MAX |-> IF MAX - m <= n THEN f[m] ELSE DoubleStep(f, m)]
  <2>2. \A m \in 1..MAX : DoubleStep(f, m) \in 0..MAX
    BY <1>0 DEF DoubleStep
  <2>3. g \in [1..MAX -> 0..MAX]
    BY <2>2
  <2>4. ASSUME NEW m \in 1..MAX, MAX - m <= n + 1 PROVE DoubleStep(g, m) = DoubleStep(f, m)
    <3>1. CASE ~MapHas(m) \/ m = MAX
      BY <3>1 DEF DoubleStep
    <3>2. CASE MapHas(m) /\ m # MAX
      <4>1. MAX \in 1..MAX /\ MAX - MAX <= n
        BY <1>0
      <4>2. 2 * m <= MAX => 2 * m \in 1..MAX /\ MAX - 2 * m <= n
        BY <1>0, <2>4
      <4>3. g[MAX] = f[MAX] /\ (2 * m <= MAX => g[2 * m] = f[2 * m])
        BY <4>1, <4>2
      <4> HIDE DEF g
      <4> QED
        BY <3>2, <4>3 DEF DoubleStep
    <3> QED
      BY <3>1, <3>2
  <2>5. \A m \in 1..MAX : MAX - m <= n => g[m] = DoubleStep(f, m)
    BY <2>1
  <2>6. \A m \in 1..MAX : ~(MAX - m <= n) => g[m] = DoubleStep(f, m)
    OBVIOUS
  <2> HIDE DEF g
  <2>7. Works(g, n + 1)
    BY <2>4, <2>5, <2>6
  <2> QED
    BY <2>3, <2>7
<1>3. Bad = {}
  <2> HIDE DEF Bad
  <2> SUFFICES ASSUME Bad # {} PROVE FALSE
    OBVIOUS
  <2>1. Bad \in SUBSET Nat
    BY DEF Bad
  <2>2. PICK n \in Bad : \A m \in Bad : n <= m
    BY <2>1, Least
  <2>3. n \in Nat /\ n # 0 /\ n - 1 \in Nat /\ n - 1 \notin Bad
    BY <1>1, <2>1, <2>2
  <2>4. (n - 1) + 1 \notin Bad
    BY <1>2, <2>3
  <2> QED
    BY <2>2, <2>3, <2>4
<1>4. PICK f \in [1..MAX -> 0..MAX] : Works(f, MAX)
  BY <1>0, <1>3
<1>5. \A m \in 1..MAX : f[m] = DoubleStep(f, m)
  BY <1>0, <1>4
<1> QED
  BY <1>5

\* What it finds: an absent integer, or that MAX is present.
LEMMA DoublingAbsent ==
  ASSUME NEW start \in 1..MAX
  PROVE  \/ AbsentByDoubling(start) = 0 /\ MapHas(MAX)
         \/ AbsentByDoubling(start) \in start..MAX /\ ~MapHas(AbsentByDoubling(start))
<1> DEFINE f == CHOOSE f : f = [max \in 1..MAX |-> DoubleStep(f, max)]
           Ends(m) == (f[m] = 0 /\ MapHas(MAX)) \/ (f[m] \in m..MAX /\ ~MapHas(f[m]))
           Bad == {MAX - m : m \in {m \in 1..MAX : ~Ends(m)}}
<1>0. MAX \in Nat /\ MAX > 0
  BY TableAssumption
<1>1. AbsentByDoubling(start) = f[start]
  BY DEF AbsentByDoubling, DoubleStep
<1>2. f = [max \in 1..MAX |-> DoubleStep(f, max)]
  BY DoubleDefined
<1> HIDE DEF f
<1>3. \A m \in 1..MAX : f[m] = DoubleStep(f, m)
  BY <1>2
<1>4. Bad = {}
  <2> SUFFICES ASSUME Bad # {} PROVE FALSE
    OBVIOUS
  <2>1. Bad \in SUBSET Nat
    BY <1>0
  <2>2. PICK n \in Bad : \A m \in Bad : n <= m
    <3> HIDE DEF Bad
    <3> QED
      BY <2>1, Least
  <2>3. PICK m \in 1..MAX : ~Ends(m) /\ n = MAX - m
    BY <2>2
  <2>4. ASSUME NEW l \in 1..MAX, m < l PROVE Ends(l)
    <3> SUFFICES ASSUME ~Ends(l) PROVE FALSE
      OBVIOUS
    <3>1. MAX - l \in Bad
      OBVIOUS
    <3>2. n <= MAX - l
      BY <2>2, <3>1
    <3> QED
      BY <1>0, <2>3, <2>4, <3>2
  <2> HIDE DEF Bad
  <2>5. MapHas(m) /\ m # MAX
    BY <1>0, <1>3, <2>3 DEF DoubleStep
  <2>6. f[m] = IF 2 * m <= MAX THEN f[2 * m] ELSE f[MAX]
    BY <1>3, <2>5 DEF DoubleStep
  <2>7. PICK l \in 1..MAX : m < l /\ f[m] = f[l]
    BY <1>0, <2>5, <2>6
  <2> QED
    BY <1>0, <2>3, <2>4, <2>7
<1> QED
  BY <1>1, <1>4

\* What an integer key has.
LEMMA IntValue ==
  ASSUME TypesInv, NEW i \in Nat, i > 0
  PROVE  Get(IntKey(i)) = IF i <= Len(array) THEN array[i]
                          ELSE IF MapHas(i) THEN Lookup(map, IntKey(i)) ELSE Nil
<1>1. Len(array) \in Nat
  BY TypesFacts
<1>2. CASE i <= Len(array)
  BY <1>1, <1>2, IntKeyIndex DEF Get, InArray
<1>3. CASE ~(i <= Len(array))
  BY <1>1, <1>3, IntKeyIndex DEF Get, InArray, MapHas
<1> QED
  BY <1>2, <1>3

\* The operator # gives a border: nothing at the length (unless zero) is nil, and
\* what follows it is, whatever mix of array, map and holes the table is.
THEOREM LengthBorder == Spec => []LengthIsBorder
<1>1. TypesInv => LengthIsBorder
  <2> SUFFICES ASSUME TypesInv PROVE LengthIsBorder
    OBVIOUS
  <2> DEFINE n == Len(array)
  <2>1. n \in Nat /\ n < MAX /\ MAX \in Nat
    BY TypesFacts, TableAssumption
  <2>2. \A i \in 1..n : Get(IntKey(i)) = array[i]
    BY <2>1, IntValue
  <2>3. \A i \in Nat : i > n /\ MapHas(i) => Get(IntKey(i)) # Nil
    BY <2>1, IntValue DEF MapHas
  <2>4. \A i \in Nat : i > n /\ ~MapHas(i) => Get(IntKey(i)) = Nil
    BY <2>1, IntValue
  <2>5. CASE n > 0 /\ array[n] = Nil
    <3> DEFINE absent == {i \in 1..n : array[i] = Nil}
               r == BinarySearch(0, n, absent)
    <3>0. n \in absent
      BY <2>1, <2>5
    <3> HIDE DEF n, absent
    <3>1. r \in 0..(n - 1) /\ (r = 0 \/ r \notin absent) /\ r + 1 \in absent
      BY <2>1, <2>5, <3>0, BinarySearchBorder
    <3> USE DEF n, absent
    <3>2. Length = r
      BY <2>5 DEF Length
    <3> HIDE DEF r
    <3>3. r = 0 \/ (r \in 1..n /\ array[r] # Nil)
      BY <2>1, <3>1
    <3>4. r + 1 \in 1..n /\ array[r + 1] = Nil
      BY <3>1
    <3> QED
      BY <2>1, <2>2, <3>2, <3>3, <3>4 DEF LengthIsBorder
  <2>6. CASE ~(n > 0 /\ array[n] = Nil) /\ Items(map) = {}
    <3>1. Length = n
      BY <2>6 DEF Length
    <3>2. ~MapHas(n + 1)
      BY <2>6 DEF MapHas, Holding
    <3> QED
      BY <2>1, <2>2, <2>4, <2>6, <3>1, <3>2 DEF LengthIsBorder
  <2>7. CASE ~(n > 0 /\ array[n] = Nil) /\ Items(map) # {}
    <3> DEFINE max == AbsentByDoubling(n + 1)
               absent == {i \in n..max : ~MapHas(i)}
               r == BinarySearch(n, max, absent)
    <3>1. Length = IF max = 0 THEN MAX ELSE r
      BY <2>7 DEF Length
    <3>2. (max = 0 /\ MapHas(MAX)) \/ (max \in (n + 1)..MAX /\ ~MapHas(max))
      BY <2>1, DoublingAbsent
    <3>3. CASE max = 0
      <4>1. Length = MAX /\ MapHas(MAX)
        BY <2>1, <3>1, <3>2, <3>3
      <4> QED
        BY <2>1, <2>3, <4>1 DEF LengthIsBorder
    <3>4. CASE max # 0
      <4>1. max \in Nat /\ n < max /\ max \in absent
        BY <2>1, <3>2, <3>4
      <4>2. r \in n..(max - 1) /\ (r = n \/ r \notin absent) /\ r + 1 \in absent
        BY <2>1, <4>1, BinarySearchBorder
      <4>3. Length = r
        BY <3>1, <3>4
      <4> HIDE DEF r, max
      <4>4. r \in Nat /\ r + 1 > n /\ ~MapHas(r + 1) /\ (r = n \/ (r > n /\ MapHas(r)))
        BY <2>1, <4>1, <4>2
      <4>5. r = 0 \/ (r > 0 /\ Get(IntKey(r)) # Nil)
        BY <2>1, <2>2, <2>3, <2>7, <4>4
      <4>6. Get(IntKey(r + 1)) = Nil
        BY <2>1, <2>4, <4>4
      <4> QED
        BY <4>3, <4>5, <4>6 DEF LengthIsBorder
    <3> QED
      BY <3>3, <3>4
  <2> QED
    BY <2>5, <2>6, <2>7
<1> QED
  BY <1>1, TypesHold, PTL

=============================================================================
