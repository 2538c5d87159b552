------------------------------ MODULE RawTable ------------------------------
(***************************************************************************)
(* Lua tables as table/raw.rs stores them: an array part for the keys      *)
(* 1..Len(array) and a hash map for the rest.  Removing a key from the map *)
(* keeps its entry, so that a traversal can go on from it; a removed GC    *)
(* object becomes a dead key.                                              *)
(*                                                                         *)
(* The map is hashbrown's: `map` is its buckets in order, `growth_left`    *)
(* how many EMPTY ones it may still fill.  Where a key lands, and whether  *)
(* an erased bucket becomes EMPTY or DELETED, depends on hashes and is any *)
(* choice the library could make.                                          *)
(***************************************************************************)
EXTENDS Integers, Sequences, FiniteSets

CONSTANTS
  Ints,               \* integer keys the program uses
  Objects,            \* GC objects it uses as keys
  Bytes,              \* the bytes of a string; any other object has its own
  Vals, Nil, Error,
  MAX,                \* stands for i64::MAX
  MaxArray,           \* bound: length of the array part
  BucketCounts        \* bound: sizes of the map part

ASSUME TableAssumption ==
  /\ Ints \subseteq Int /\ \A i \in Ints : i <= MAX
  /\ DOMAIN Bytes = Objects
  /\ MAX \in Nat \ {0} /\ MaxArray \in Nat /\ MaxArray < MAX
  /\ BucketCounts \subseteq Nat \ {0}
  /\ Nil \notin Vals /\ Error \notin Vals \cup {Nil}

VARIABLES
  array, map, growth_left,
  reply,              \* result of the last set
  iter                \* a traversal: whether it runs, its key, and what it has seen

vars == <<array, map, growth_left, reply, iter>>

-----------------------------------------------------------------------------
(* Keys. *)

IntKey(i) == [type |-> "integer", of |-> i]
Keys == {IntKey(i) : i \in Ints} \cup [type : {"object"}, of : Objects]

\* What a program may pass: an integral float stands for its integer; nil and
\* NaN are rejected.
Inputs == Keys \cup [type : {"float"}, of : Ints] \cup [type : {"nil", "nan"}, of : {Nil}]

CanonicalKey(k) == IF k.type = "float" THEN IntKey(k.of) ELSE k
ValidKey(k) == k.type \notin {"nil", "nan"}

\* to_array_index, counting from one; zero if the key is no array candidate.
ArrayIndex(k) == IF k.type \in {"integer", "float"} /\ k.of > 0 THEN k.of ELSE 0
InArray(k) == ArrayIndex(k) \in 1..Len(array)

\* Equality of CanonicalKeys: strings are equal when their bytes are, every other
\* object only to itself.  The same bytes may be in two strings: intern and
\* intern_static keep sets of their own.
SameKey(k, l) ==
  k = l \/ (k.type = "object" /\ l.type = "object" /\ Bytes[k.of] = Bytes[l.of])

-----------------------------------------------------------------------------
(* The map part. *)

Empty == [state |-> "EMPTY"]
Tombstone == [state |-> "DELETED"]
Entry(k, v) == [state |-> "FULL", key |-> k, val |-> v, dead |-> FALSE]

Full(m, b) == m[b].state = "FULL"
Items(m) == {b \in DOMAIN m : Full(m, b)}
\* Key::eq: a dead key is only an address.
Matches(e, k) == IF e.dead THEN e.key = k ELSE SameKey(e.key, k)
Holding(m, k) == {b \in Items(m) : Matches(m[b], k)}
\* The entry that is first on the key's probe sequence.
Lookup(m, k) == LET b == CHOOSE b \in Holding(m, k) : TRUE IN m[b].val

\* hashbrown leaves at least one bucket EMPTY.
Capacity(n) == n - 1

\* HashMap::retain: the buckets in `gone` are erased, those in `tombs` into
\* tombstones.
Retained(m, gone, tombs) ==
  [b \in DOMAIN m |-> IF b \in tombs THEN Tombstone ELSE IF b \in gone THEN Empty ELSE m[b]]

\* The entries that hold nil, dead or not.
NilEntries(m) == {b \in Items(m) : m[b].val = Nil}

\* try_insert_no_grow: the places a new entry can go, given the growth left.
InsertPlaces(m, left) ==
  {b \in DOMAIN m : m[b] = Tombstone \/ (m[b] = Empty /\ left > 0)}
\* Mutant: reusing a tombstone is charged too.
LeftAfterCharged(m, left, b) == left - 1
LeftAfter(m, left, b) == IF m[b] = Empty THEN left - 1 ELSE left
InsertCanFail(m, left) == left = 0 /\ (m = << >> \/ \E b \in DOMAIN m : m[b] = Empty)

\* RawTable::reserve with rehashing: the same entries, anywhere in n buckets.
Rehashed(m, n) ==
  {r \in [1..n -> {Empty} \cup {m[b] : b \in Items(m)}] :
     /\ Cardinality(Items(r)) = Cardinality(Items(m))
     /\ \A b \in Items(m) : \E c \in Items(r) : r[c] = m[b]}

\* reserve_map: what the map and its growth can be afterwards.
Reserved(additional) ==
  IF additional <= growth_left THEN {[map |-> map, left |-> growth_left]}
  ELSE UNION {
    LET kept == Retained(map, NilEntries(map), tombs)
        left == growth_left + Cardinality(NilEntries(map) \ tombs)
        need == Cardinality(Items(kept)) + additional IN
    IF additional <= left THEN {[map |-> kept, left |-> left]}
    ELSE UNION { {[map |-> r, left |-> Capacity(n) - Cardinality(Items(kept))] : r \in Rehashed(kept, n)} :
                 n \in {c \in BucketCounts : need <= Capacity(c)} } :
    tombs \in SUBSET NilEntries(map) }

-----------------------------------------------------------------------------
(* Reading. *)

Get(k) ==
  IF InArray(k) THEN array[ArrayIndex(k)]
  ELSE IF ValidKey(k) /\ Holding(map, CanonicalKey(k)) # {} THEN Lookup(map, CanonicalKey(k))
  ELSE Nil

MapHas(i) == Holding(map, IntKey(i)) # {} /\ Lookup(map, IntKey(i)) # Nil

\* A border between a min that is zero or present and a max that is absent.
BinarySearch(min, max, absent) ==
  LET search[w \in (0..max) \X (0..max)] ==
        LET mid == w[1] + (w[2] - w[1]) \div 2 IN
        IF w[2] - w[1] <= 1 THEN w[1]
        ELSE search[IF mid \in absent THEN <<w[1], mid>> ELSE <<mid, w[2]>>]
  IN search[<<min, max>>]

\* An absent integer after the array part, found by doubling; zero if even MAX is
\* present.
AbsentByDoubling(start) ==
  LET double[max \in 1..MAX] ==
        IF ~MapHas(max) THEN max
        ELSE IF max = MAX THEN 0
        ELSE IF 2 * max <= MAX THEN double[2 * max] ELSE double[MAX]
  IN double[start]

\* Mutant: the map part is not looked at.
LengthOfArray ==
  LET n == Len(array) IN
  IF n > 0 /\ array[n] = Nil THEN BinarySearch(0, n, {i \in 1..n : array[i] = Nil}) ELSE n

Length ==
  LET n == Len(array) IN
  IF n > 0 /\ array[n] = Nil THEN BinarySearch(0, n, {i \in 1..n : array[i] = Nil})
  ELSE IF Items(map) = {} THEN n
  ELSE LET max == AbsentByDoubling(n + 1) IN
       IF max = 0 THEN MAX ELSE BinarySearch(n, max, {i \in n..max : ~MapHas(i)})

\* RawTable::next: the first present key after a place in the array and then in
\* bucket order; "Last" or "NotFound" instead of a key.
FirstFrom(i, b) ==
  LET inArray == {j \in 1..Len(array) : j >= i /\ array[j] # Nil}
      inMap == {c \in Items(map) : c >= b /\ map[c].val # Nil}
      first(S) == CHOOSE x \in S : \A y \in S : x <= y
  IN IF inArray # {} THEN IntKey(first(inArray))
     ELSE IF inMap # {} THEN map[first(inMap)].key
     ELSE [type |-> "Last"]

\* Mutant: after a key of the map, the array is scanned again.
NextKeyRestarts(k) ==
  IF k.type = "nil" THEN FirstFrom(1, 1)
  ELSE IF InArray(k) THEN FirstFrom(ArrayIndex(k) + 1, 1)
  ELSE LET b == CHOOSE b \in Holding(map, CanonicalKey(k)) : TRUE IN FirstFrom(1, b + 1)

NextKey(k) ==
  IF k.type = "nil" THEN FirstFrom(1, 1)
  ELSE IF InArray(k) THEN FirstFrom(ArrayIndex(k) + 1, 1)
  ELSE IF ValidKey(k) /\ Holding(map, CanonicalKey(k)) # {}
  THEN LET b == CHOOSE b \in Holding(map, CanonicalKey(k)) : TRUE IN
       FirstFrom(Len(array) + 1, b + 1)
  ELSE [type |-> "NotFound"]

-----------------------------------------------------------------------------
(* Writing. *)

NilKey == [type |-> "nil", of |-> Nil]
Idle == [on |-> FALSE, at |-> NilKey, seen |-> {}]

\* RawTable::new.
Init ==
  /\ array = << >> /\ map = << >> /\ growth_left = 0
  /\ reply = Nil
  /\ iter = Idle

\* Setting a key that is absent, other than to nil, ends a traversal.
Interrupts(k, v) == v # Nil /\ Get(k) = Nil
Traverse(k, v) ==
  iter' = IF Interrupts(k, v) THEN Idle ELSE iter

SetArray(k, v) ==
  /\ InArray(k)
  /\ array' = [array EXCEPT ![ArrayIndex(k)] = v]
  /\ reply' = array[ArrayIndex(k)]
  /\ Traverse(k, v)
  /\ UNCHANGED <<map, growth_left>>

SetInvalid(k) ==
  /\ ~ValidKey(k)
  /\ reply' = Error
  /\ UNCHANGED <<array, map, growth_left, iter>>

\* Mutant: a removed entry is erased at once.
RemoveErases(k) ==
  /\ ~InArray(k) /\ ValidKey(k)
  /\ map' = [b \in DOMAIN map |-> IF b \in Holding(map, CanonicalKey(k)) THEN Tombstone ELSE map[b]]
  /\ reply' = Get(k)
  /\ UNCHANGED <<array, growth_left, iter>>

\* Removing from the map: the entry stays, with a dead key if it was an object.
Remove(k) ==
  /\ ~InArray(k) /\ ValidKey(k)
  /\ map' = [b \in DOMAIN map |->
       IF b \in Holding(map, CanonicalKey(k))
       THEN [map[b] EXCEPT !.val = Nil, !.dead = (k.type = "object")]
       ELSE map[b]]
  /\ reply' = Get(k)
  /\ UNCHANGED <<array, growth_left, iter>>

\* The key has an entry, which comes back to life if it was dead.
Replace(k, v) ==
  /\ ~InArray(k) /\ ValidKey(k)
  /\ \E b \in Holding(map, CanonicalKey(k)) :
       /\ map' = [map EXCEPT ![b].val = v, ![b].dead = FALSE]
       /\ reply' = map[b].val
  /\ Traverse(k, v)
  /\ UNCHANGED <<array, growth_left>>

Insert(k, v) ==
  /\ ~InArray(k) /\ ValidKey(k)
  /\ Holding(map, CanonicalKey(k)) = {}
  /\ \E b \in InsertPlaces(map, growth_left) :
       /\ map' = [map EXCEPT ![b] = Entry(CanonicalKey(k), v)]
       /\ growth_left' = LeftAfter(map, growth_left, b)
  /\ reply' = Nil
  /\ Traverse(k, v)
  /\ UNCHANGED array

\* The new key did not fit.
MustGrow(k) ==
  /\ ~InArray(k) /\ ValidKey(k)
  /\ Holding(map, CanonicalKey(k)) = {}
  /\ InsertCanFail(map, growth_left)

\* The array candidates, with the new key, and the largest power of two such
\* that more than half of that many array slots would be used.  Only sizes whose
\* upper half would hold a candidate count.
Candidates(k) ==
  {i \in 1..Len(array) : array[i] # Nil} \cup {ArrayIndex(k)} \cup
  {ArrayIndex(map[b].key) : b \in {c \in Items(map) : map[c].val # Nil /\ ArrayIndex(map[c].key) > 0}}
OptimalSize(C) ==
  LET worth == {i \in 0..MAX : /\ 2^i \div 2 < Cardinality(C)
                               /\ \E c \in C : 2^i \div 2 < c /\ c <= 2^i
                               /\ Cardinality({c \in C : c <= 2^i}) > 2^i \div 2} IN
  IF worth = {} THEN 0 ELSE 2^(CHOOSE i \in worth : \A j \in worth : j <= i)

\* grow_array: Vec::reserve may give more than was asked for.  What the map held
\* of the new slots moves there, and nil entries are dropped.
Moved(n) == {b \in Items(map) : ArrayIndex(map[b].key) \in 1..n}
\* Mutant: the array grows and the map keeps its entries.
GrownKeepsMap(n) == [i \in 1..n |-> IF i <= Len(array) THEN array[i] ELSE Nil]

Grown(n) ==
  [i \in 1..n |->
     IF MapHas(i) THEN Lookup(map, IntKey(i))
     ELSE IF i <= Len(array) THEN array[i] ELSE Nil]
\* Mutant: entries that moved to the array stay in the map.
DropMovedNot(n) == map' = Retained(map, NilEntries(map), NilEntries(map)) /\ UNCHANGED growth_left

DropMoved(n) ==
  \E tombs \in SUBSET (Moved(n) \cup NilEntries(map)) :
    /\ map' = Retained(map, Moved(n) \cup NilEntries(map), tombs)
    /\ growth_left' = growth_left + Cardinality((Moved(n) \cup NilEntries(map)) \ tombs)

InsertGrowingArray(k, v) ==
  /\ MustGrow(k)
  /\ ArrayIndex(k) > 0 /\ OptimalSize(Candidates(k)) >= ArrayIndex(k)
  /\ \E n \in ArrayIndex(k)..MaxArray :
       /\ n >= OptimalSize(Candidates(k))
       /\ array' = [Grown(n) EXCEPT ![ArrayIndex(k)] = v]
       /\ DropMoved(n)
  /\ reply' = Nil
  /\ Traverse(k, v)

InsertGrowingMap(k, v) ==
  /\ MustGrow(k)
  /\ ArrayIndex(k) > 0 => OptimalSize(Candidates(k)) < ArrayIndex(k)
  /\ \E r \in Reserved(IF Items(map) = {} THEN 1 ELSE Cardinality(Items(map))) :
       \E b \in InsertPlaces(r.map, r.left) :
         /\ map' = [r.map EXCEPT ![b] = Entry(CanonicalKey(k), v)]
         /\ growth_left' = LeftAfter(r.map, r.left, b)
  /\ reply' = Nil
  /\ Traverse(k, v)
  /\ UNCHANGED array

\* RawTable::set.
Set(k, v) ==
  \/ SetArray(k, v)
  \/ ~InArray(k) /\ SetInvalid(k)
  \/ v = Nil /\ Remove(k)
  \/ v # Nil /\ (Replace(k, v) \/ Insert(k, v) \/ InsertGrowingArray(k, v) \/ InsertGrowingMap(k, v))

\* RawTable::grow_array and RawTable::reserve_map, called by the host.
GrowArray(n) ==
  /\ array' = Grown(n)
  /\ DropMoved(n)
  /\ reply' = reply
  /\ iter' = Idle

ReserveMap(additional) ==
  /\ \E r \in Reserved(additional) : map' = r.map /\ growth_left' = r.left
  /\ iter' = Idle
  /\ UNCHANGED <<array, reply>>

\* A traversal with next, as Lua's next and Iter do it.
IterStart ==
  /\ ~iter.on
  /\ iter' = [Idle EXCEPT !.on = TRUE]
  /\ UNCHANGED <<array, map, growth_left, reply>>

IterNext ==
  /\ iter.on /\ iter.at.type \notin {"Last", "NotFound"}
  /\ LET k == NextKey(iter.at) IN
       iter' = [iter EXCEPT !.at = k, !.seen = IF k.type \in {"Last", "NotFound"} THEN @ ELSE @ \cup {k}]
  /\ UNCHANGED <<array, map, growth_left, reply>>

IterEnd ==
  /\ iter.on /\ iter.at.type \in {"Last", "NotFound"}
  /\ iter' = Idle
  /\ UNCHANGED <<array, map, growth_left, reply>>

Next ==
  \/ \E k \in Inputs, v \in Vals \cup {Nil} : Set(k, v)
  \/ \E n \in Len(array)..MaxArray : GrowArray(n)
  \/ \E n \in 1..2 : ReserveMap(n)
  \/ IterStart \/ IterNext \/ IterEnd

Spec == Init /\ [][Next]_vars

-----------------------------------------------------------------------------
(* What is checked. *)

MapEntry == [state : {"FULL"}, key : Keys, val : Vals \cup {Nil}, dead : BOOLEAN]

TypeOK ==
  /\ array \in Seq(Vals \cup {Nil})
  /\ map \in Seq(MapEntry \cup {Empty, Tombstone})
  /\ growth_left \in Nat
  /\ reply \in Vals \cup {Nil, Error}

\* grow_array: "The map part of the table is forbidden from having keys that
\* could be in the array part"; a key has one entry; and set, next and
\* grow_array may expect that "dead keys must have Nil values".
MapWellFormed ==
  /\ \A b, c \in Items(map) : SameKey(map[b].key, map[c].key) => b = c
  /\ \A b \in Items(map) : ~InArray(map[b].key)
  /\ \A b \in Items(map) : map[b].dead => map[b].val = Nil

\* Table::length: "A 'border' for a table is any i >= 0 where: (i == 0 or
\* table[i] ~= nil) and table[i + 1] == nil", except that nothing follows MAX.
LengthIsBorder ==
  /\ Length = 0 \/ (Length > 0 /\ Get(IntKey(Length)) # Nil)
  /\ Length = MAX \/ Get(IntKey(Length + 1)) = Nil

\* Table::next: "removing from the table (setting a value to Nil) is always
\* allowed, even for the currently returned key": a traversal never loses its
\* place, and at its end has seen every key that is still there.
TraversalComplete ==
  iter.on =>
    /\ iter.at.type # "NotFound"
    /\ iter.at.type = "Last" => \A k \in Keys : Get(k) # Nil => k \in iter.seen

\* A traversal sees no key twice, whatever is removed or assigned on the way.
NoKeyTwice == [][IterNext /\ iter'.at.type # "Last" => iter'.at \notin iter.seen]_vars

\* Table: "a map of [`Value`]s to other `Value`s": what it holds under a key does
\* not depend on which of two equal strings is used.
EqualKeysAgree == \A k, l \in Keys : SameKey(k, l) => Get(k) = Get(l)

T == INSTANCE LuaTable WITH contents <- [k \in Keys |-> Get(k)]

\* Moving entries between the parts, growing and killing keys are invisible: the
\* table is a map from keys to values and set returns the previous value.
ImplementsTable == T!Spec
=============================================================================
