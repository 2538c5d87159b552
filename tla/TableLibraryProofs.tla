------------------------- MODULE TableLibraryProofs -------------------------
(***************************************************************************)
(* Proofs about TableLibrary, for all integers MIN..MAX, metatables, __len *)
(* results and indices.  CallInv is the inductive invariant of the control:*)
(* which accesses are left (Shape), how much of the stack belongs to the   *)
(* call (StackInv), what was charged.  TableInv adds the data: where the   *)
(* entries are kept, and the map the table shows after each access, as a   *)
(* function of the entries at the start and of how far the call has come   *)
(* (RemoveMap, InsertMap).                                                 *)
(*                                                                         *)
(* The lemmas follow the calls: the plans of accesses, one access, the     *)
(* beginnings and ends of a call, and then the steps of the specification. *)
(***************************************************************************)
EXTENDS TableLibrary, TLAPS

\* The accesses as records.
Access == [kind : {"get", "set"}, key : Keys, val : Values, bottom : 0..MAX, moves : BOOLEAN]

-----------------------------------------------------------------------------
(* The inductive invariant, without what the table holds. *)

Stacked == Keys \cup Values \cup {Tab}

Typed ==
  /\ own \in [Keys -> Values] /\ backing \in [Keys -> Values]
  /\ array_len \in 0..MAX /\ meta \in Metatables
  /\ call \in Calls /\ length \in Keys
  /\ pc \in {"begin", "length", "await_len", "run", "await", "pending", "done", "error", "raised"}
  /\ plan \in Seq(Access) /\ stack \in Seq(Stacked)
  /\ batch \in 0..MAX /\ fuel_used \in 0..MAX
  /\ disturbed \in BOOLEAN

\* p is what is left of the accesses in total after the first d.
Left(p, total, d) == \A j \in 1..Len(p) : p[j] = total[d + j]

\* How far a call has come: of its accesses p are left, and f elements are moved.
RemoveShape(p, i, n, f) ==
  LET d == 2 * (n - i) + 2 - Len(p) IN
  /\ i \in 1..n /\ f \in 0..(n - i)
  /\ (d = 0 /\ f = 0) \/ d = 2 * f + 1 \/ d = 2 * f + 2
  /\ Left(p, RemovePlan(i, n), d)

InsertShape(p, i, n, f) ==
  LET d == 2 * (n + 1 - i) + 1 - Len(p) IN
  /\ n < MAX /\ i \in 1..(n + 1) /\ f \in 0..(n + 1 - i)
  /\ d = 2 * f \/ d = 2 * f + 1
  /\ Left(p, InsertPlan(i, n), d)

UnpackShape(p, first, n, f) ==
  /\ n \in 1..MAX /\ first + n - 1 \in Keys
  /\ f = 0 /\ Len(p) <= n
  /\ Left(p, UnpackPlan(first, n), n - Len(p))

ShapeOf(op, i, first, n, p, f) ==
  \/ op = "remove" /\ RemoveShape(p, i, n, f)
  \/ op = "insert" /\ InsertShape(p, i, n, f)
  \/ op = "unpack" /\ UnpackShape(p, first, n, f)
Shape == ShapeOf(call.op, Index, First, length, plan, fuel_used)

\* The height of the stack when an access starts and when it is over, and when
\* the call returns.
Before(a) == IF a.moves THEN a.bottom + 1 ELSE a.bottom
After(a) == IF a.kind = "get" THEN a.bottom + 1 ELSE a.bottom
ResultHeight(op, n) == IF op = "remove" THEN 1 ELSE IF op = "insert" THEN 0 ELSE n
HeightOf(p, result) == IF p # << >> THEN Before(Head(p)) ELSE result
Height == HeightOf(plan, ResultHeight(call.op, length))

\* Nothing is done yet.
BeginInv ==
  pc \in {"begin", "length", "await_len"} =>
    /\ length = 0 /\ plan = << >> /\ batch = 0 /\ fuel_used = 0
    /\ pc = "begin" => own[MAX] = Nil
    /\ pc # "begin" => call.op # "pack"
    /\ call.op # "pack" /\ pc # "await_len" => stack = << >>

WorkInv ==
  pc \in {"run", "await", "pending"} /\ call.op # "pack" =>
    /\ Shape
    /\ call.op = "unpack" \/ batch = 0
    /\ pc = "pending" => call.op = "unpack"
    /\ pc = "await" => plan # << >> /\ InBatch

StackInv ==
  /\ pc \in {"run", "pending"} /\ call.op # "pack" =>
       stack \in Seq(Values) /\ Len(stack) = Height
  /\ pc = "await" =>
       /\ Len(stack) = access.bottom + (IF access.kind = "get" THEN 2 ELSE 3)
       /\ stack[access.bottom + 1] = Tab /\ stack[access.bottom + 2] = access.key
       /\ \A i \in 1..access.bottom : stack[i] \in Values
       /\ access.kind = "set" =>
            /\ stack[access.bottom + 3] \in Values
            /\ ~access.moves => stack[access.bottom + 3] = access.val

PackInv ==
  call.op = "pack" =>
    /\ pc \in {"begin", "pending", "done"}
    /\ plan = << >> /\ fuel_used = 0
    /\ pc # "done" =>
         stack = start /\ start \in Seq(Values) /\ Len(start) <= MAX /\ batch <= Len(start)

CallInv == Typed /\ BeginInv /\ WorkInv /\ StackInv /\ PackInv /\ ResultCount /\ ShiftsCharged

-----------------------------------------------------------------------------
(* What the table holds, as long as no other code touches it. *)

\* What the pending access will assign.
ToAssign ==
  IF pc = "await" THEN stack[access.bottom + 3]
  ELSE IF access.moves THEN stack[access.bottom + 1] ELSE access.val

\* An entry is kept in one place, and nothing is kept behind metamethods that are
\* not there; an entry that a metamethod is asked for is not in the table.
PlacesInv ==
  /\ \A k \in Keys : own[k] # Nil => backing[k] = Nil
  /\ meta.index = "none" => \A k \in Keys : backing[k] = Nil
  /\ pc = "await" => own[access.key] = Nil /\ MetaOf(access.kind) # "none"

\* The entries e with v at k.
Put(e, k, v) == [e EXCEPT ![k] = v]

\* The entries s after f elements were moved down over the one at i, and the last
\* slot was cleared.
RemoveMap(s, i, n, f, cleared) ==
  [k \in Keys |-> IF k \in i..(i + f - 1) THEN s[k + 1] ELSE IF k = n /\ cleared THEN Nil ELSE s[k]]

\* The entries s after f elements were moved up from the end, and the new value
\* was put at i.
InsertMap(s, i, n, f, put) ==
  [k \in Keys |-> IF k \in (n + 2 - f)..(n + 1) THEN s[k - 1] ELSE IF k = i /\ put THEN New ELSE s[k]]

RemoveData ==
  /\ Len(plan) < 2 * (length - Index) + 2 => stack[1] = start[Index]
  /\ plan # << >> /\ access.moves => ToAssign = start[Index + fuel_used + 1]
  /\ plan # << >> => Entries = RemoveMap(start, Index, length, fuel_used, FALSE)
  /\ plan = << >> => Entries = RemoveMap(start, Index, length, fuel_used, TRUE)

InsertData ==
  /\ plan # << >> /\ access.moves => ToAssign = start[length - fuel_used]
  /\ plan # << >> => Entries = InsertMap(start, Index, length, fuel_used, FALSE)
  /\ plan = << >> => Entries = InsertMap(start, Index, length, fuel_used, TRUE)

UnpackData ==
  /\ \A m \in 1..(length - Len(plan)) : stack[m] = start[First + m - 1]
  /\ Entries = start

PackData ==
  \A k \in Keys : backing[k] = Nil /\ own[k] = IF k \in 1..batch THEN start[k] ELSE Nil

WorkData ==
  /\ call.op = "remove" => RemoveData
  /\ call.op = "insert" => InsertData
  /\ call.op = "unpack" => UnpackData

DataInv ==
  Undisturbed =>
    /\ pc \notin {"done", "error", "raised"} => PlacesInv
    /\ pc \in {"begin", "length", "await_len"} /\ call.op # "pack" => Entries = start
    /\ pc \in {"run", "await", "pending"} => WorkData
    /\ call.op = "pack" /\ pc # "done" => PackData

StartInv == call.op # "pack" => start \in [Keys -> Values]

\* Only the fallback asks __len for a length to remove from.
FallbackInv == pc \in {"length", "await_len"} /\ call.op = "remove" => use_fallback

TableInv == CallInv /\ StartInv /\ FallbackInv /\ DataInv /\ ResultCorrect /\ ErrorLosesNothing

-----------------------------------------------------------------------------
(* The plans, access by access. *)

\* Halving odd and even numbers.
LEMMA Halves ==
  ASSUME NEW q \in Nat
  PROVE  /\ (2 * q + 1) % 2 = 1 /\ (2 * q + 2) % 2 = 0
         /\ (2 * q + 2) \div 2 = q + 1 /\ (2 * q) \div 2 = q /\ (2 * q + 1) \div 2 = q
  OBVIOUS

\* Two sequences after one another.
LEMMA ConcatAt ==
  ASSUME NEW S, NEW s \in Seq(S), NEW t \in Seq(S)
  PROVE  /\ s \o t \in Seq(S) /\ Len(s \o t) = Len(s) + Len(t)
         /\ \A i \in 1..Len(s) : (s \o t)[i] = s[i]
         /\ \A i \in 1..Len(t) : (s \o t)[Len(s) + i] = t[i]
  OBVIOUS

\* A list of accesses given element by element.
LEMMA ListTyped ==
  ASSUME NEW n \in Nat, NEW f(_), \A x \in 1..n : f(x) \in Access
  PROVE  /\ [x \in 1..n |-> f(x)] \in Seq(Access) /\ Len([x \in 1..n |-> f(x)]) = n
  OBVIOUS

\* Accesses to keys of the table.
LEMMA AccessTyped ==
  ASSUME NEW k \in Keys, NEW b \in 0..MAX
  PROVE  /\ Get(k, b) \in Access
         /\ \A v \in Values : Set(k, v, b) \in Access
         /\ Move(k, b) \in Access
  BY DEF Get, Set, Move, Access, Values

\* table_remove_impl reads the element, then reads each one above it and assigns
\* it one lower, and clears the last slot.
LEMMA RemovePlanAt ==
  ASSUME NEW i \in Int, NEW n \in Int, i \in 1..n, n <= MAX
  PROVE  /\ RemovePlan(i, n) \in Seq(Access) /\ Len(RemovePlan(i, n)) = 2 * (n - i) + 2
         /\ RemovePlan(i, n)[1] = Get(i, 0)
         /\ \A m \in 0..(n - i - 1) :
              /\ RemovePlan(i, n)[2 * m + 2] = Get(i + m + 1, 1)
              /\ RemovePlan(i, n)[2 * m + 3] = Move(i + m, 1)
         /\ RemovePlan(i, n)[2 * (n - i) + 2] = Set(n, Nil, 1)
<1> DEFINE L == n - i
           e(x) == IF x % 2 = 1 THEN Get(i + (x + 1) \div 2, 1) ELSE Move(i + x \div 2 - 1, 1)
           mid == [x \in 1..(2 * L) |-> e(x)]
           p == RemovePlan(i, n)
<1>0. L \in Nat /\ i \in Nat /\ i >= 1 /\ n \in 1..MAX /\ 0 \in 0..MAX /\ 1 \in 0..MAX /\ i \in Keys /\ n \in Keys
  BY LibraryAssumption DEF Keys
<1>1. p = <<Get(i, 0)>> \o mid \o <<Set(n, Nil, 1)>>
  BY DEF RemovePlan
<1>2. ASSUME NEW x \in 1..(2 * L) PROVE e(x) \in Access
  <2>2. x % 2 = 1 => i + (x + 1) \div 2 \in Keys
    BY <1>0, LibraryAssumption DEF Keys
  <2>3. x % 2 # 1 => i + x \div 2 - 1 \in Keys
    BY <1>0, LibraryAssumption DEF Keys
  <2> QED
    BY <1>0, <2>2, <2>3, AccessTyped
<1>3. 2 * L \in Nat
  BY <1>0
<1>4. /\ mid \in Seq(Access) /\ Len(mid) = 2 * L
      /\ \A x \in 1..(2 * L) : mid[x] = e(x)
  BY <1>2, <1>3, ListTyped
<1>5. ASSUME NEW m \in 0..(L - 1)
      PROVE  /\ 2 * m + 1 \in 1..(2 * L) /\ 2 * m + 2 \in 1..(2 * L)
             /\ e(2 * m + 1) = Get(i + m + 1, 1) /\ e(2 * m + 2) = Move(i + m, 1)
  <2>1. m \in Nat /\ 2 * m + 1 \in 1..(2 * L) /\ 2 * m + 2 \in 1..(2 * L)
    BY <1>0
  <2>2. /\ (2 * m + 1) % 2 = 1 /\ (2 * m + 2) % 2 = 0 /\ (2 * m + 2) \div 2 = m + 1
    BY <2>1, Halves
  <2>3. 2 * m + 1 + 1 = 2 * m + 2 /\ i + (m + 1) = i + m + 1 /\ i + (m + 1) - 1 = i + m
    BY <1>0, <2>1
  <2>4. e(2 * m + 1) = Get(i + m + 1, 1)
    BY <2>2, <2>3, Zenon
  <2>5. e(2 * m + 2) = Move(i + m, 1)
    <3>1. 0 # 1
      OBVIOUS
    <3> QED
      BY <2>2, <2>3, <3>1, Zenon
  <2> QED
    BY <2>1, <2>4, <2>5
<1> HIDE DEF e, mid, L, p
<1>6. <<Get(i, 0)>> \in Seq(Access) /\ <<Set(n, Nil, 1)>> \in Seq(Access)
  <2>1. Get(i, 0) \in Access /\ Set(n, Nil, 1) \in Access
    BY <1>0, AccessTyped DEF Values
  <2> QED
    BY <2>1
<1> DEFINE s == <<Get(i, 0)>> \o mid
<1>7. /\ s \in Seq(Access) /\ Len(s) = 1 + 2 * L /\ s[1] = Get(i, 0)
      /\ \A x \in 1..(2 * L) : s[1 + x] = e(x)
  BY <1>4, <1>6, ConcatAt
<1>8. p = s \o <<Set(n, Nil, 1)>>
  BY <1>1
<1> HIDE DEF s
<1>9. /\ p \in Seq(Access) /\ Len(p) = 1 + 2 * L + 1
      /\ \A x \in 1..(1 + 2 * L) : p[x] = s[x]
      /\ p[1 + 2 * L + 1] = Set(n, Nil, 1)
  <2>1. Len(<<Set(n, Nil, 1)>>) = 1 /\ <<Set(n, Nil, 1)>>[1] = Set(n, Nil, 1) /\ 1 \in 1..1
    OBVIOUS
  <2> QED
    BY <1>6, <1>7, <1>8, <2>1, ConcatAt
<1>10. p[1] = Get(i, 0) /\ Len(p) = 2 * L + 2 /\ p[2 * L + 2] = Set(n, Nil, 1)
  BY <1>0, <1>7, <1>9
<1>11. ASSUME NEW m \in 0..(L - 1)
       PROVE  p[2 * m + 2] = Get(i + m + 1, 1) /\ p[2 * m + 3] = Move(i + m, 1)
  <2>1. /\ 1 + (2 * m + 1) = 2 * m + 2 /\ 1 + (2 * m + 2) = 2 * m + 3
        /\ 2 * m + 2 \in 1..(1 + 2 * L) /\ 2 * m + 3 \in 1..(1 + 2 * L)
    BY <1>0
  <2>2. s[1 + (2 * m + 1)] = Get(i + m + 1, 1) /\ s[1 + (2 * m + 2)] = Move(i + m, 1)
    BY <1>5, <1>7
  <2> QED
    BY <1>9, <2>1, <2>2
<1> QED
  BY <1>9, <1>10, <1>11 DEF p, L

\* table_insert_impl reads each element from the last one down to the index and
\* assigns it one higher, then assigns the new value.
LEMMA InsertPlanAt ==
  ASSUME NEW i \in Int, NEW n \in Int, i \in 1..(n + 1), n < MAX
  PROVE  /\ InsertPlan(i, n) \in Seq(Access) /\ Len(InsertPlan(i, n)) = 2 * (n + 1 - i) + 1
         /\ \A m \in 0..(n - i) :
              /\ InsertPlan(i, n)[2 * m + 1] = Get(n - m, 0)
              /\ InsertPlan(i, n)[2 * m + 2] = Move(n + 1 - m, 0)
         /\ InsertPlan(i, n)[2 * (n + 1 - i) + 1] = Set(i, New, 0)
<1> DEFINE L == n + 1 - i
           e(x) == IF x % 2 = 1 THEN Get(n + 1 - (x - 1) \div 2 - 1, 0)
                                ELSE Move(n + 1 - (x - 1) \div 2, 0)
           mid == [x \in 1..(2 * L) |-> e(x)]
           p == InsertPlan(i, n)
<1>0. L \in Nat /\ i \in Nat /\ i >= 1 /\ n \in Nat /\ n < MAX /\ MAX \in Nat /\ 0 \in 0..MAX /\ i \in Keys
  BY LibraryAssumption DEF Keys
<1>1. p = mid \o <<Set(i, New, 0)>>
  BY DEF InsertPlan
<1>2. ASSUME NEW x \in 1..(2 * L) PROVE e(x) \in Access
  <2>1. (x - 1) \div 2 \in 0..(L - 1)
    BY <1>0
  <2>2. n + 1 - (x - 1) \div 2 - 1 \in Keys /\ n + 1 - (x - 1) \div 2 \in Keys
    BY <1>0, <2>1, LibraryAssumption DEF Keys
  <2> QED
    BY <1>0, <2>2, AccessTyped
<1>3. 2 * L \in Nat
  BY <1>0
<1>4. /\ mid \in Seq(Access) /\ Len(mid) = 2 * L
      /\ \A x \in 1..(2 * L) : mid[x] = e(x)
  BY <1>2, <1>3, ListTyped
<1>5. ASSUME NEW m \in 0..(L - 1)
      PROVE  /\ 2 * m + 1 \in 1..(2 * L) /\ 2 * m + 2 \in 1..(2 * L)
             /\ e(2 * m + 1) = Get(n - m, 0) /\ e(2 * m + 2) = Move(n + 1 - m, 0)
  <2>1. m \in Nat /\ 2 * m + 1 \in 1..(2 * L) /\ 2 * m + 2 \in 1..(2 * L)
    BY <1>0
  <2>2. /\ (2 * m + 1) % 2 = 1 /\ (2 * m + 2) % 2 = 0
        /\ ((2 * m + 1) - 1) \div 2 = m /\ ((2 * m + 2) - 1) \div 2 = m
    BY <2>1, Halves
  <2>3. n + 1 - m - 1 = n - m
    BY <1>0, <2>1
  <2>4. e(2 * m + 1) = Get(n - m, 0)
    BY <2>2, <2>3, Zenon
  <2>5. e(2 * m + 2) = Move(n + 1 - m, 0)
    <3>1. 0 # 1
      OBVIOUS
    <3> QED
      BY <2>2, <2>3, <3>1, Zenon
  <2> QED
    BY <2>1, <2>4, <2>5
<1> HIDE DEF e, mid, p
<1>6. <<Set(i, New, 0)>> \in Seq(Access)
  <2>1. Set(i, New, 0) \in Access
    BY <1>0, AccessTyped DEF Values
  <2> QED
    BY <2>1
<1>9. /\ p \in Seq(Access) /\ Len(p) = 2 * L + 1
      /\ \A x \in 1..(2 * L) : p[x] = e(x)
      /\ p[2 * L + 1] = Set(i, New, 0)
  <2>1. Len(<<Set(i, New, 0)>>) = 1 /\ <<Set(i, New, 0)>>[1] = Set(i, New, 0) /\ 1 \in 1..1
    OBVIOUS
  <2> QED
    BY <1>1, <1>4, <1>6, <2>1, ConcatAt
<1>10. L - 1 = n - i
  BY <1>0
<1> QED
  BY <1>5, <1>9, <1>10 DEF p

\* Unpack reads its range from the first index on.
LEMMA UnpackPlanAt ==
  ASSUME NEW first \in Keys, NEW n \in 1..MAX, first + n - 1 \in Keys
  PROVE  /\ UnpackPlan(first, n) \in Seq(Access) /\ Len(UnpackPlan(first, n)) = n
         /\ \A m \in 1..n : UnpackPlan(first, n)[m] = Get(first + m - 1, m - 1)
<1>1. ASSUME NEW m \in 1..n PROVE Get(first + m - 1, m - 1) \in Access
  <2>1. first + m - 1 \in Keys /\ m - 1 \in 0..MAX
    BY LibraryAssumption DEF Keys
  <2> QED
    BY <2>1, AccessTyped
<1> QED
  BY <1>1, ListTyped DEF UnpackPlan

-----------------------------------------------------------------------------
(* One access after another. *)

\* The fuel consumed after an access.
Charged(f, a) == f + (IF a.moves THEN 1 ELSE 0)

\* What is left when the first access is over.
LEMMA LeftTail ==
  ASSUME NEW p \in Seq(Access), p # << >>
  PROVE  /\ Tail(p) \in Seq(Access) /\ Len(Tail(p)) = Len(p) - 1 /\ Len(p) \in Nat /\ Len(p) > 0
         /\ Head(p) \in Access
         /\ Tail(p) # << >> <=> Len(p) > 1
         /\ \A total : \A d \in Int : Left(p, total, d) =>
              Head(p) = total[d + 1] /\ Left(Tail(p), total, d + 1)
<1>1. Len(p) \in Nat /\ Len(p) > 0 /\ Tail(p) \in Seq(Access) /\ Len(Tail(p)) = Len(p) - 1
  OBVIOUS
<1>2. Head(p) = p[1] /\ Head(p) \in Access /\ \A j \in 1..(Len(p) - 1) : Tail(p)[j] = p[j + 1]
  OBVIOUS
<1>3. ASSUME NEW total, NEW d \in Int, Left(p, total, d)
      PROVE  Head(p) = total[d + 1] /\ Left(Tail(p), total, d + 1)
  <2>1. \A j \in 1..Len(p) : p[j] = total[d + j]
    BY <1>3 DEF Left
  <2>2. ASSUME NEW j \in 1..Len(Tail(p)) PROVE Tail(p)[j] = total[d + 1 + j]
    <3>1. j + 1 \in 1..Len(p) /\ d + (j + 1) = d + 1 + j
      BY <1>1
    <3> QED
      BY <1>1, <1>2, <2>1, <3>1
  <2> QED
    BY <1>1, <1>2, <2>1, <2>2 DEF Left
<1>4. Tail(p) # << >> <=> Len(p) > 1
  <2>1. Tail(p) = << >> <=> Len(Tail(p)) = 0
    BY <1>1
  <2> DEFINE r == Len(p)
  <2>2. r \in Nat /\ r > 0
    BY <1>1
  <2> HIDE DEF r
  <2>3. r - 1 # 0 <=> r > 1
    BY <2>2
  <2> QED
    BY <1>1, <2>1, <2>3 DEF r
<1> QED
  BY <1>1, <1>2, <1>3, <1>4

\* The next access of a removal.
LEMMA RemoveAccess ==
  ASSUME NEW p \in Seq(Access), NEW i \in Int, NEW n \in Int, NEW f \in Int, n <= MAX,
         RemoveShape(p, i, n, f), p # << >>
  PROVE  LET d == 2 * (n - i) + 2 - Len(p) IN
         \/ d = 0 /\ f = 0 /\ Head(p) = Get(i, 0)
         \/ d = 2 * f + 1 /\ f < n - i /\ Head(p) = Get(i + f + 1, 1)
         \/ d = 2 * f + 1 /\ f = n - i /\ Len(p) = 1 /\ Head(p) = Set(n, Nil, 1)
         \/ d = 2 * f + 2 /\ f < n - i /\ Head(p) = Move(i + f, 1)
<1> DEFINE r == Len(p)
           d == 2 * (n - i) + 2 - r
           t == RemovePlan(i, n)
<1>0. r \in Nat /\ r > 0
  BY LeftTail
<1>1. /\ i \in 1..n /\ f \in 0..(n - i) /\ r \in Nat /\ r > 0 /\ d \in Int
      /\ (d = 0 /\ f = 0) \/ d = 2 * f + 1 \/ d = 2 * f + 2
      /\ Left(p, t, d)
  BY <1>0 DEF RemoveShape
<1> HIDE DEF r
<1>2. Head(p) = t[d + 1]
  BY <1>1, LeftTail
<1>3. /\ t[1] = Get(i, 0) /\ t[2 * (n - i) + 2] = Set(n, Nil, 1)
      /\ f < n - i => t[2 * f + 2] = Get(i + f + 1, 1) /\ t[2 * f + 3] = Move(i + f, 1)
  <2>1. f < n - i => f \in 0..(n - i - 1)
    BY <1>1
  <2> QED
    BY <1>1, <2>1, RemovePlanAt
<1> HIDE DEF t
<1> SUFFICES
         \/ d = 0 /\ f = 0 /\ Head(p) = Get(i, 0)
         \/ d = 2 * f + 1 /\ f < n - i /\ Head(p) = Get(i + f + 1, 1)
         \/ d = 2 * f + 1 /\ f = n - i /\ r = 1 /\ Head(p) = Set(n, Nil, 1)
         \/ d = 2 * f + 2 /\ f < n - i /\ Head(p) = Move(i + f, 1)
  BY DEF r
<1>4. CASE d = 0 /\ f = 0
  BY <1>2, <1>3, <1>4
<1>5. CASE d = 2 * f + 1
  <2>1. d + 1 = 2 * f + 2
    BY <1>1, <1>5
  <2>2. f < n - i \/ (f = n - i /\ r = 1 /\ d + 1 = 2 * (n - i) + 2)
    BY <1>1, <1>5
  <2> QED
    BY <1>2, <1>3, <1>5, <2>1, <2>2
<1>6. CASE d = 2 * f + 2
  <2>1. d + 1 = 2 * f + 3 /\ f < n - i
    BY <1>1, <1>6
  <2> QED
    BY <1>2, <1>3, <1>6, <2>1
<1> QED
  BY <1>1, <1>4, <1>5, <1>6

\* After an access of a removal comes one that starts at the height it left.
LEMMA RemoveAdvance ==
  ASSUME NEW p \in Seq(Access), NEW i \in Int, NEW n \in Int, NEW f \in Int, n <= MAX,
         RemoveShape(p, i, n, f), p # << >>
  PROVE  /\ RemoveShape(Tail(p), i, n, Charged(f, Head(p)))
         /\ HeightOf(Tail(p), 1) = After(Head(p))
<1> DEFINE r == Len(p)
           d == 2 * (n - i) + 2 - r
           g == Charged(f, Head(p))
           q == Tail(p)
           e == 2 * (n - i) + 2 - (r - 1)
<1>1. /\ i \in 1..n /\ f \in 0..(n - i) /\ Left(p, RemovePlan(i, n), d)
  BY DEF RemoveShape
<1>2. /\ q \in Seq(Access) /\ Len(q) = r - 1 /\ r \in Nat /\ r > 0
      /\ q # << >> <=> r > 1
  BY LeftTail
<1>3. \/ d = 0 /\ f = 0 /\ g = 0 /\ After(Head(p)) = 1
      \/ d = 2 * f + 1 /\ f < n - i /\ g = f /\ After(Head(p)) = 2
      \/ d = 2 * f + 1 /\ f = n - i /\ g = f /\ r = 1 /\ After(Head(p)) = 1
      \/ d = 2 * f + 2 /\ f < n - i /\ g = f + 1 /\ After(Head(p)) = 1
  <2>1. f + 0 = f /\ 0 + 1 = 1 /\ 1 + 1 = 2
    BY <1>1
  <2>2. \/ d = 0 /\ f = 0 /\ Head(p) = Get(i, 0)
        \/ d = 2 * f + 1 /\ f < n - i /\ Head(p) = Get(i + f + 1, 1)
        \/ d = 2 * f + 1 /\ f = n - i /\ r = 1 /\ Head(p) = Set(n, Nil, 1)
        \/ d = 2 * f + 2 /\ f < n - i /\ Head(p) = Move(i + f, 1)
    BY RemoveAccess
  <2> HIDE DEF r, d
  <2>3. /\ After(Get(i, 0)) = 0 + 1 /\ After(Get(i + f + 1, 1)) = 1 + 1
        /\ After(Set(n, Nil, 1)) = 1 /\ After(Move(i + f, 1)) = 1
        /\ Charged(f, Get(i, 0)) = f + 0 /\ Charged(f, Get(i + f + 1, 1)) = f + 0
        /\ Charged(f, Set(n, Nil, 1)) = f + 0 /\ Charged(f, Move(i + f, 1)) = f + 1
    BY DEF Get, Set, Move, After, Charged
  <2> QED
    BY <2>1, <2>2, <2>3
<1> HIDE DEF r, q, g
<1>a. d \in Int /\ e = d + 1 /\ g \in 0..(n - i)
  BY <1>1, <1>2, <1>3
<1>4. /\ d \in Int /\ e = d + 1 /\ g \in 0..(n - i) /\ g \in Int
      /\ (e = 0 /\ g = 0) \/ e = 2 * g + 1 \/ e = 2 * g + 2
  BY <1>1, <1>2, <1>3, <1>a
<1> HIDE DEF d, e
<1>5. Left(q, RemovePlan(i, n), e)
  BY <1>1, <1>4, LeftTail DEF q
<1>6. e = 2 * (n - i) + 2 - Len(q)
  BY <1>2 DEF e
<1>7. RemoveShape(q, i, n, g)
  BY <1>1, <1>4, <1>5, <1>6 DEF RemoveShape
<1>8. HeightOf(q, 1) = After(Head(p))
  <2>1. CASE q = << >>
    <3>1. r = 1
      BY <1>2, <2>1
    <3>2. After(Head(p)) = 1
      BY <1>1, <1>3, <3>1 DEF d
    <3> QED
      BY <2>1, <3>2 DEF HeightOf
  <2>2. CASE q # << >>
    <3>1. \/ e = 0 /\ g = 0 /\ Before(Head(q)) = 0
          \/ e = 2 * g + 1 /\ Before(Head(q)) = 1
          \/ e = 2 * g + 2 /\ g < n - i /\ Before(Head(q)) = 1 + 1
      <4>1. \/ e = 0 /\ g = 0 /\ Head(q) = Get(i, 0)
            \/ e = 2 * g + 1 /\ g < n - i /\ Head(q) = Get(i + g + 1, 1)
            \/ e = 2 * g + 1 /\ g = n - i /\ Len(q) = 1 /\ Head(q) = Set(n, Nil, 1)
            \/ e = 2 * g + 2 /\ g < n - i /\ Head(q) = Move(i + g, 1)
        BY <1>2, <1>4, <1>6, <1>7, <2>2, RemoveAccess
      <4>2. /\ Before(Get(i, 0)) = 0 /\ Before(Get(i + g + 1, 1)) = 1
            /\ Before(Set(n, Nil, 1)) = 1 /\ Before(Move(i + g, 1)) = 1 + 1
        BY DEF Get, Set, Move, Before
      <4> QED
        BY <4>1, <4>2
    <3>2. r > 1
      BY <1>2, <2>2
    <3>3. Before(Head(q)) = After(Head(p))
      BY <1>1, <1>2, <1>3, <1>4, <3>1, <3>2
    <3> QED
      BY <2>2, <3>3 DEF HeightOf
  <2> QED
    BY <2>1, <2>2
<1> QED
  BY <1>7, <1>8 DEF q, g

\* The next access of an insertion.
LEMMA InsertAccess ==
  ASSUME NEW p \in Seq(Access), NEW i \in Int, NEW n \in Int, NEW f \in Int,
         InsertShape(p, i, n, f), p # << >>
  PROVE  LET d == 2 * (n + 1 - i) + 1 - Len(p) IN
         \/ d = 2 * f /\ f < n + 1 - i /\ Head(p) = Get(n - f, 0)
         \/ d = 2 * f /\ f = n + 1 - i /\ Len(p) = 1 /\ Head(p) = Set(i, New, 0)
         \/ d = 2 * f + 1 /\ f < n + 1 - i /\ Head(p) = Move(n + 1 - f, 0)
<1> DEFINE r == Len(p)
           d == 2 * (n + 1 - i) + 1 - r
           t == InsertPlan(i, n)
<1>0. r \in Nat /\ r > 0
  BY LeftTail
<1>1. /\ n < MAX /\ i \in 1..(n + 1) /\ f \in 0..(n + 1 - i) /\ r \in Nat /\ r > 0 /\ d \in Int
      /\ d = 2 * f \/ d = 2 * f + 1
      /\ Left(p, t, d)
  BY <1>0 DEF InsertShape
<1> HIDE DEF r
<1>2. Head(p) = t[d + 1]
  BY <1>1, LeftTail
<1>3. /\ t[2 * (n + 1 - i) + 1] = Set(i, New, 0)
      /\ f < n + 1 - i => t[2 * f + 1] = Get(n - f, 0) /\ t[2 * f + 2] = Move(n + 1 - f, 0)
  <2>1. f < n + 1 - i => f \in 0..(n - i)
    BY <1>1
  <2> QED
    BY <1>1, <2>1, InsertPlanAt
<1> HIDE DEF t
<1> SUFFICES
         \/ d = 2 * f /\ f < n + 1 - i /\ Head(p) = Get(n - f, 0)
         \/ d = 2 * f /\ f = n + 1 - i /\ r = 1 /\ Head(p) = Set(i, New, 0)
         \/ d = 2 * f + 1 /\ f < n + 1 - i /\ Head(p) = Move(n + 1 - f, 0)
  BY DEF r
<1>5. CASE d = 2 * f
  <2>1. d + 1 = 2 * f + 1
    BY <1>1, <1>5
  <2>2. f < n + 1 - i \/ (f = n + 1 - i /\ r = 1 /\ d + 1 = 2 * (n + 1 - i) + 1)
    BY <1>1, <1>5
  <2> QED
    BY <1>2, <1>3, <1>5, <2>1, <2>2
<1>6. CASE d = 2 * f + 1
  <2>1. d + 1 = 2 * f + 2 /\ f < n + 1 - i
    BY <1>1, <1>6
  <2> QED
    BY <1>2, <1>3, <1>6, <2>1
<1> QED
  BY <1>1, <1>5, <1>6

\* After an access of an insertion comes one that starts at the height it left.
LEMMA InsertAdvance ==
  ASSUME NEW p \in Seq(Access), NEW i \in Int, NEW n \in Int, NEW f \in Int,
         InsertShape(p, i, n, f), p # << >>
  PROVE  /\ InsertShape(Tail(p), i, n, Charged(f, Head(p)))
         /\ HeightOf(Tail(p), 0) = After(Head(p))
<1> DEFINE r == Len(p)
           d == 2 * (n + 1 - i) + 1 - r
           g == Charged(f, Head(p))
           q == Tail(p)
           e == 2 * (n + 1 - i) + 1 - (r - 1)
<1>1. /\ n < MAX /\ i \in 1..(n + 1) /\ f \in 0..(n + 1 - i) /\ Left(p, InsertPlan(i, n), d)
  BY DEF InsertShape
<1>2. /\ q \in Seq(Access) /\ Len(q) = r - 1 /\ r \in Nat /\ r > 0
      /\ q # << >> <=> r > 1
  BY LeftTail
<1>3. \/ d = 2 * f /\ f < n + 1 - i /\ g = f /\ After(Head(p)) = 1
      \/ d = 2 * f /\ f = n + 1 - i /\ g = f /\ r = 1 /\ After(Head(p)) = 0
      \/ d = 2 * f + 1 /\ f < n + 1 - i /\ g = f + 1 /\ After(Head(p)) = 0
  <2>1. f + 0 = f /\ 0 + 1 = 1
    BY <1>1
  <2>2. \/ d = 2 * f /\ f < n + 1 - i /\ Head(p) = Get(n - f, 0)
        \/ d = 2 * f /\ f = n + 1 - i /\ r = 1 /\ Head(p) = Set(i, New, 0)
        \/ d = 2 * f + 1 /\ f < n + 1 - i /\ Head(p) = Move(n + 1 - f, 0)
    BY InsertAccess
  <2> HIDE DEF r, d
  <2>3. /\ After(Get(n - f, 0)) = 0 + 1
        /\ After(Set(i, New, 0)) = 0 /\ After(Move(n + 1 - f, 0)) = 0
        /\ Charged(f, Get(n - f, 0)) = f + 0
        /\ Charged(f, Set(i, New, 0)) = f + 0 /\ Charged(f, Move(n + 1 - f, 0)) = f + 1
    BY DEF Get, Set, Move, After, Charged
  <2> QED
    BY <2>1, <2>2, <2>3
<1> HIDE DEF r, q, g
<1>a. d \in Int /\ e = d + 1 /\ g \in 0..(n + 1 - i)
  BY <1>1, <1>2, <1>3
<1>4. /\ d \in Int /\ e = d + 1 /\ g \in 0..(n + 1 - i) /\ g \in Int
      /\ r > 1 => e = 2 * g \/ e = 2 * g + 1
      /\ e = 2 * g \/ e = 2 * g + 1
  BY <1>1, <1>2, <1>3, <1>a
<1> HIDE DEF d, e
<1>5. Left(q, InsertPlan(i, n), e)
  BY <1>1, <1>4, LeftTail DEF q
<1>6. e = 2 * (n + 1 - i) + 1 - Len(q)
  BY <1>2 DEF e
<1>7. InsertShape(q, i, n, g)
  BY <1>1, <1>4, <1>5, <1>6 DEF InsertShape
<1>8. HeightOf(q, 0) = After(Head(p))
  <2>1. CASE q = << >>
    <3>1. r = 1
      BY <1>2, <2>1
    <3>2. After(Head(p)) = 0
      BY <1>1, <1>3, <3>1 DEF d
    <3> QED
      BY <2>1, <3>2 DEF HeightOf
  <2>2. CASE q # << >>
    <3>1. \/ e = 2 * g /\ Before(Head(q)) = 0
          \/ e = 2 * g + 1 /\ g < n + 1 - i /\ Before(Head(q)) = 1
      <4>1. \/ e = 2 * g /\ g < n + 1 - i /\ Head(q) = Get(n - g, 0)
            \/ e = 2 * g /\ g = n + 1 - i /\ Len(q) = 1 /\ Head(q) = Set(i, New, 0)
            \/ e = 2 * g + 1 /\ g < n + 1 - i /\ Head(q) = Move(n + 1 - g, 0)
        BY <1>2, <1>4, <1>6, <1>7, <2>2, InsertAccess
      <4>2. /\ Before(Get(n - g, 0)) = 0
            /\ Before(Set(i, New, 0)) = 0 /\ Before(Move(n + 1 - g, 0)) = 0 + 1
        BY DEF Get, Set, Move, Before
      <4> QED
        BY <4>1, <4>2
    <3>2. r > 1
      BY <1>2, <2>2
    <3>3. Before(Head(q)) = After(Head(p))
      BY <1>1, <1>2, <1>3, <1>4, <3>1, <3>2
    <3> QED
      BY <2>2, <3>3 DEF HeightOf
  <2> QED
    BY <2>1, <2>2
<1> QED
  BY <1>7, <1>8 DEF q, g

\* The next access of unpack.
LEMMA UnpackAccess ==
  ASSUME NEW p \in Seq(Access), NEW first \in Keys, NEW n \in Int, NEW f \in Int,
         UnpackShape(p, first, n, f), p # << >>
  PROVE  Head(p) = Get(first + n - Len(p), n - Len(p))
<1> DEFINE r == Len(p)
           t == UnpackPlan(first, n)
<1>0. r \in Nat /\ r > 0
  BY LeftTail
<1>1. n \in 1..MAX /\ first + n - 1 \in Keys /\ r <= n /\ Left(p, t, n - r)
  BY DEF UnpackShape
<1> HIDE DEF r
<1>2. Head(p) = t[n - r + 1]
  BY <1>0, <1>1, LeftTail
<1>3. n - r + 1 \in 1..n /\ first + (n - r + 1) - 1 = first + n - r /\ (n - r + 1) - 1 = n - r
  BY <1>0, <1>1, LibraryAssumption DEF Keys
<1>4. t[n - r + 1] = Get(first + (n - r + 1) - 1, (n - r + 1) - 1)
  BY <1>1, <1>3, UnpackPlanAt
<1> QED
  BY <1>2, <1>3, <1>4 DEF r

\* Each read of unpack starts where the one before it left its value.
LEMMA UnpackAdvance ==
  ASSUME NEW p \in Seq(Access), NEW first \in Keys, NEW n \in Int, NEW f \in Int,
         UnpackShape(p, first, n, f), p # << >>
  PROVE  /\ UnpackShape(Tail(p), first, n, Charged(f, Head(p)))
         /\ HeightOf(Tail(p), n) = After(Head(p))
<1> DEFINE r == Len(p)
           q == Tail(p)
<1>1. /\ n \in 1..MAX /\ first + n - 1 \in Keys /\ r <= n /\ f = 0
      /\ Left(p, UnpackPlan(first, n), n - r)
  BY DEF UnpackShape
<1>2. /\ q \in Seq(Access) /\ Len(q) = r - 1 /\ r \in Nat /\ r > 0
      /\ q # << >> <=> r > 1
  BY LeftTail
<1>3. Head(p) = Get(first + n - r, n - r)
  BY UnpackAccess
<1> HIDE DEF r, q
<1>4. Charged(f, Head(p)) = f + 0 /\ After(Head(p)) = n - r + 1
  BY <1>3 DEF Get, After, Charged
<1>5. n - r \in Int /\ n - r + 1 = n - (r - 1) /\ r - 1 <= n
  BY <1>1, <1>2
<1>6. Left(q, UnpackPlan(first, n), n - (r - 1))
  BY <1>1, <1>5, LeftTail DEF q
<1>7. UnpackShape(q, first, n, Charged(f, Head(p)))
  BY <1>1, <1>2, <1>4, <1>5, <1>6 DEF UnpackShape
<1>8. HeightOf(q, n) = After(Head(p))
  <2>1. CASE q = << >>
    <3>1. r = 1 /\ n - r + 1 = n
      BY <1>1, <1>2, <2>1
    <3> QED
      BY <1>4, <2>1, <3>1 DEF HeightOf
  <2>2. CASE q # << >>
    <3>1. Head(q) = Get(first + n - Len(q), n - Len(q))
      BY <1>2, <1>4, <1>7, <2>2, UnpackAccess
    <3>2. Before(Head(q)) = n - Len(q)
      BY <3>1 DEF Get, Before
    <3> QED
      BY <1>2, <1>4, <1>5, <2>2, <3>2 DEF HeightOf
  <2> QED
    BY <2>1, <2>2
<1> QED
  BY <1>7, <1>8 DEF q

-----------------------------------------------------------------------------
(* The three functions alike. *)

\* The fuel consumed when all accesses are made.
Shifted(op, i, n) ==
  IF op = "remove" THEN n - i ELSE IF op = "insert" THEN n + 1 - i ELSE 0

\* An access is over, and the next one follows or the call returns.
LEMMA ShapeAdvances ==
  ASSUME NEW op, NEW i \in Int, NEW first \in Keys, NEW n \in Keys, NEW f \in Int,
         NEW p \in Seq(Access), p # << >>, ShapeOf(op, i, first, n, p, f)
  PROVE  /\ ShapeOf(op, i, first, n, Tail(p), Charged(f, Head(p)))
         /\ HeightOf(Tail(p), ResultHeight(op, n)) = After(Head(p))
<1>1. n \in Int /\ n <= MAX
  BY LibraryAssumption DEF Keys
<1>2. CASE op = "remove" /\ RemoveShape(p, i, n, f)
  BY <1>1, <1>2, RemoveAdvance DEF ShapeOf, ResultHeight
<1>3. CASE op = "insert" /\ InsertShape(p, i, n, f)
  BY <1>1, <1>3, InsertAdvance DEF ShapeOf, ResultHeight
<1>4. CASE op = "unpack" /\ UnpackShape(p, first, n, f)
  BY <1>1, <1>4, UnpackAdvance DEF ShapeOf, ResultHeight
<1> QED
  BY <1>2, <1>3, <1>4 DEF ShapeOf

\* The fuel stays within what the whole call consumes, and reaches that when
\* nothing is left.
LEMMA ShapeCharged ==
  ASSUME NEW op, NEW i \in Int, NEW first \in Keys, NEW n \in Keys, NEW f \in 0..MAX,
         NEW p \in Seq(Access), ShapeOf(op, i, first, n, p, f)
  PROVE  /\ f \in 0..MAX /\ n \in Nat
         /\ p = << >> => f = Shifted(op, i, n)
         /\ op = "remove" => i \in 1..n
<1>1. n \in Int /\ n <= MAX /\ MAX \in Nat
  BY LibraryAssumption DEF Keys
<1> DEFINE r == Len(p)
<1>2. r \in Nat /\ (p = << >> => r = 0)
  OBVIOUS
<1>3. CASE op = "remove" /\ RemoveShape(p, i, n, f)
  <2>1. /\ i \in 1..n /\ f \in 0..(n - i)
        /\ LET d == 2 * (n - i) + 2 - r IN (d = 0 /\ f = 0) \/ d = 2 * f + 1 \/ d = 2 * f + 2
    BY <1>3 DEF RemoveShape
  <2> HIDE DEF r
  <2>2. p = << >> => f = n - i
    BY <1>1, <1>2, <2>1
  <2> QED
    BY <1>1, <1>3, <2>1, <2>2 DEF Shifted
<1>4. CASE op = "insert" /\ InsertShape(p, i, n, f)
  <2>1. /\ n < MAX /\ i \in 1..(n + 1) /\ f \in 0..(n + 1 - i)
        /\ LET d == 2 * (n + 1 - i) + 1 - r IN d = 2 * f \/ d = 2 * f + 1
    BY <1>4 DEF InsertShape
  <2> HIDE DEF r
  <2>2. p = << >> => f = n + 1 - i
    BY <1>1, <1>2, <2>1
  <2> QED
    BY <1>1, <1>4, <2>1, <2>2 DEF Shifted
<1>5. CASE op = "unpack" /\ UnpackShape(p, first, n, f)
  BY <1>1, <1>5 DEF UnpackShape, Shifted
<1> QED
  BY <1>3, <1>4, <1>5 DEF ShapeOf

\* The call starts with all its accesses ahead and an empty stack.
LEMMA ShapeStarts ==
  ASSUME NEW i \in Int, NEW first \in Keys, NEW n \in Keys
  PROVE  /\ i \in 1..n =>
              LET p == RemovePlan(i, n) IN
              /\ p \in Seq(Access) /\ HeightOf(p, 1) = 0
              /\ ShapeOf("remove", i, first, n, p, 0)
         /\ n < MAX /\ i \in 1..(n + 1) =>
              LET p == InsertPlan(i, n) IN
              /\ p \in Seq(Access) /\ HeightOf(p, 0) = 0
              /\ ShapeOf("insert", i, first, n, p, 0)
         /\ n \in 1..MAX /\ first + n - 1 \in Keys =>
              LET p == UnpackPlan(first, n) IN
              /\ p \in Seq(Access) /\ HeightOf(p, n) = 0
              /\ ShapeOf("unpack", i, first, n, p, 0)
<1>1. n \in Int /\ n <= MAX
  BY LibraryAssumption DEF Keys
<1>0. ASSUME NEW t, NEW m \in Nat, Len(t) = m PROVE Left(t, t, 0)
  <2>1. ASSUME NEW j \in 1..Len(t) PROVE 0 + j = j
    BY <1>0
  <2> QED
    BY <2>1 DEF Left
<1>2. ASSUME i \in 1..n
      PROVE  LET p == RemovePlan(i, n) IN
             /\ p \in Seq(Access) /\ HeightOf(p, 1) = 0
             /\ ShapeOf("remove", i, first, n, p, 0)
  <2> DEFINE p == RemovePlan(i, n)
             m == 2 * (n - i) + 2
  <2>1. p \in Seq(Access) /\ Len(p) = m /\ p[1] = Get(i, 0)
    BY <1>1, <1>2, RemovePlanAt
  <2> HIDE DEF p
  <2>2. m \in Nat /\ m > 0 /\ m - m = 0 /\ 0 \in 0..(n - i)
    BY <1>1, <1>2
  <2>3. Left(p, p, 0)
    BY <1>0, <2>1, <2>2
  <2>4. RemoveShape(p, i, n, 0)
    <3>1. 2 * (n - i) + 2 - Len(p) = 0
      BY <1>1, <1>2, <2>1, <2>2
    <3>2. Left(p, RemovePlan(i, n), 2 * (n - i) + 2 - Len(p))
      BY <2>3, <3>1 DEF p
    <3>3. 2 * 0 = 0
      OBVIOUS
    <3> QED
      BY <1>2, <2>2, <3>1, <3>2, <3>3, Zenon DEF RemoveShape
  <2>5. HeightOf(p, 1) = 0
    <3>1. p # << >> /\ Head(p) = Get(i, 0)
      BY <2>1, <2>2
    <3> QED
      BY <3>1 DEF HeightOf, Before, Get
  <2> QED
    BY <2>1, <2>4, <2>5 DEF ShapeOf, p
<1>3. ASSUME n < MAX, i \in 1..(n + 1)
      PROVE  LET p == InsertPlan(i, n) IN
             /\ p \in Seq(Access) /\ HeightOf(p, 0) = 0
             /\ ShapeOf("insert", i, first, n, p, 0)
  <2> DEFINE p == InsertPlan(i, n)
             m == 2 * (n + 1 - i) + 1
  <2>1. /\ p \in Seq(Access) /\ Len(p) = m
        /\ p[1] = Get(n - 0, 0) \/ p[1] = Set(i, New, 0)
    <3>1. CASE n + 1 - i = 0
      <4>1. m = 1
        BY <3>1
      <4> QED
        BY <1>1, <1>3, <4>1, InsertPlanAt
    <3>2. CASE n + 1 - i # 0
      <4>1. 0 \in 0..(n - i) /\ 2 * 0 + 1 = 1
        BY <1>1, <1>3, <3>2
      <4> QED
        BY <1>1, <1>3, <4>1, InsertPlanAt
    <3> QED
      BY <3>1, <3>2
  <2> HIDE DEF p
  <2>2. m \in Nat /\ m > 0 /\ m - m = 0 /\ 0 \in 0..(n + 1 - i)
    BY <1>1, <1>3
  <2>3. Left(p, p, 0)
    BY <1>0, <2>1, <2>2
  <2>4. InsertShape(p, i, n, 0)
    <3>1. 2 * (n + 1 - i) + 1 - Len(p) = 0
      BY <1>1, <1>3, <2>1, <2>2
    <3>2. Left(p, InsertPlan(i, n), 2 * (n + 1 - i) + 1 - Len(p))
      BY <2>3, <3>1 DEF p
    <3>3. 2 * 0 = 0
      OBVIOUS
    <3> QED
      BY <1>3, <2>2, <3>1, <3>2, <3>3, Zenon DEF InsertShape
  <2>5. HeightOf(p, 0) = 0
    <3>1. p # << >> /\ (Head(p) = Get(n - 0, 0) \/ Head(p) = Set(i, New, 0))
      BY <2>1, <2>2
    <3> QED
      BY <3>1 DEF HeightOf, Before, Get, Set
  <2> QED
    BY <2>1, <2>4, <2>5 DEF ShapeOf, p
<1>4. ASSUME n \in 1..MAX, first + n - 1 \in Keys
      PROVE  LET p == UnpackPlan(first, n) IN
             /\ p \in Seq(Access) /\ HeightOf(p, n) = 0
             /\ ShapeOf("unpack", i, first, n, p, 0)
  <2> DEFINE p == UnpackPlan(first, n)
  <2>1. p \in Seq(Access) /\ Len(p) = n /\ p[1] = Get(first + 1 - 1, 1 - 1)
    <3>1. 1 \in 1..n
      BY <1>1, <1>4
    <3> QED
      BY <1>4, <3>1, UnpackPlanAt
  <2> HIDE DEF p
  <2>2. n \in Nat /\ n > 0 /\ n - n = 0 /\ n <= n
    BY <1>1, <1>4
  <2>3. Left(p, p, 0)
    BY <1>0, <2>1, <2>2
  <2>4. UnpackShape(p, first, n, 0)
    BY <1>4, <2>1, <2>2, <2>3 DEF UnpackShape, p
  <2>5. HeightOf(p, n) = 0
    <3>1. p # << >> /\ Head(p) = Get(first + 1 - 1, 1 - 1)
      BY <2>1, <2>2
    <3> QED
      BY <3>1 DEF HeightOf, Before, Get
  <2> QED
    BY <2>1, <2>4, <2>5 DEF ShapeOf, p
<1> QED
  BY <1>2, <1>3, <1>4

-----------------------------------------------------------------------------
(* The stack under one access. *)

\* stack.resize: a sequence cut or filled to n values.
LEMMA TakeAt ==
  ASSUME NEW s \in Seq(Values), NEW n \in Nat
  PROVE  /\ Take(s, n) \in Seq(Values) /\ Len(Take(s, n)) = n
         /\ \A i \in 1..n : Take(s, n)[i] = IF i <= Len(s) THEN s[i] ELSE Nil
<1>1. ASSUME NEW i \in 1..n PROVE (IF i <= Len(s) THEN s[i] ELSE Nil) \in Values
  BY DEF Values
<1> QED
  BY <1>1 DEF Take

\* The values below a call, and its results r in place of its arguments.
LEMMA Returns ==
  ASSUME NEW s \in Seq(Stacked), NEW b \in Nat, b <= Len(s), \A i \in 1..b : s[i] \in Values,
         NEW r \in Seq(Values), NEW v \in Values,
         r = << >> => v = Nil, r # << >> => r[1] = v
  PROVE  LET t == SubSeq(s, 1, b) \o r IN
         /\ Take(t, b + 1) \in Seq(Values) /\ Len(Take(t, b + 1)) = b + 1
         /\ Take(t, b + 1)[b + 1] = v
         /\ \A i \in 1..b : Take(t, b + 1)[i] = s[i]
         /\ Take(t, b) \in Seq(Values) /\ Len(Take(t, b)) = b
         /\ \A i \in 1..b : Take(t, b)[i] = s[i]
<1> DEFINE u == SubSeq(s, 1, b)
           t == u \o r
           m == Len(r)
<1>1. u \in Seq(Values) /\ Len(u) = b /\ \A i \in 1..b : u[i] = s[i]
  BY DEF Stacked
<1> HIDE DEF u
<1>2. /\ t \in Seq(Values) /\ Len(t) = b + m /\ m \in Nat
      /\ \A i \in 1..b : t[i] = u[i]
      /\ \A i \in 1..m : t[b + i] = r[i]
  <2>1. /\ u \o r \in Seq(Values) /\ Len(u \o r) = Len(u) + Len(r)
        /\ \A i \in 1..Len(u) : (u \o r)[i] = u[i]
        /\ \A i \in 1..Len(r) : (u \o r)[Len(u) + i] = r[i]
    BY <1>1, SMTT(30)
  <2>2. Len(r) \in Nat
    OBVIOUS
  <2> QED
    BY <1>1, <2>1, <2>2, Zenon
<1>3. m = 0 => v = Nil
  OBVIOUS
<1>4. m # 0 => r[1] = v
  OBVIOUS
<1> HIDE DEF t, m
<1>5. /\ Take(t, b + 1) \in Seq(Values) /\ Len(Take(t, b + 1)) = b + 1
      /\ \A i \in 1..(b + 1) : Take(t, b + 1)[i] = IF i <= b + m THEN t[i] ELSE Nil
  <2>1. b + 1 \in Nat
    OBVIOUS
  <2> QED
    BY <1>2, <2>1, TakeAt, ZenonT(30)
<1>6. /\ Take(t, b) \in Seq(Values) /\ Len(Take(t, b)) = b
      /\ \A i \in 1..b : Take(t, b)[i] = IF i <= b + m THEN t[i] ELSE Nil
  BY <1>2, TakeAt, ZenonT(30)
<1>7. \A i \in 1..b : Take(t, b + 1)[i] = s[i] /\ Take(t, b)[i] = s[i]
  BY <1>1, <1>2, <1>5, <1>6, SMTT(30)
<1>8. Take(t, b + 1)[b + 1] = v
  <2>1. CASE m = 0
    BY <1>2, <1>3, <1>5, <2>1
  <2>2. CASE m # 0
    <3>1. b + 1 <= b + m /\ 1 \in 1..m /\ b + 1 \in 1..(b + 1)
      BY <1>2, <2>2
    <3> QED
      BY <1>2, <1>4, <1>5, <2>2, <3>1
  <2> QED
    BY <2>1, <2>2
<1> QED
  BY <1>5, <1>6, <1>7, <1>8 DEF t, u

\* A value read is pushed, a value to assign is popped.
LEMMA PushPop ==
  ASSUME NEW s \in Seq(Values)
  PROVE  /\ \A v \in Values :
              /\ Append(s, v) \in Seq(Values) /\ Len(Append(s, v)) = Len(s) + 1
              /\ Append(s, v)[Len(s) + 1] = v
              /\ \A i \in 1..Len(s) : Append(s, v)[i] = s[i]
         /\ \A b \in Nat : Len(s) = b + 1 =>
              /\ PopBack(s) \in Seq(Values) /\ Len(PopBack(s)) = b
              /\ Last(s) = s[b + 1] /\ Last(s) \in Values
              /\ \A i \in 1..b : PopBack(s)[i] = s[i]
<1>1. ASSUME NEW v \in Values
      PROVE  /\ Append(s, v) \in Seq(Values) /\ Len(Append(s, v)) = Len(s) + 1
             /\ Append(s, v)[Len(s) + 1] = v
             /\ \A i \in 1..Len(s) : Append(s, v)[i] = s[i]
  OBVIOUS
<1>2. ASSUME NEW b \in Nat, Len(s) = b + 1
      PROVE  /\ PopBack(s) \in Seq(Values) /\ Len(PopBack(s)) = b
             /\ Last(s) = s[b + 1] /\ Last(s) \in Values
             /\ \A i \in 1..b : PopBack(s)[i] = s[i]
  <2>1. s # << >> /\ b + 1 \in 1..Len(s) /\ Len(s) - 1 = b
    BY <1>2
  <2>2. PopBack(s) = SubSeq(s, 1, b) /\ Last(s) = s[b + 1]
    BY <1>2, <2>1 DEF PopBack, Last
  <2> QED
    BY <1>2, <2>1, <2>2
<1> QED
  BY <1>1, <1>2

-----------------------------------------------------------------------------
(* The call, step by step. *)

\* The arguments of a call.
LEMMA CallFacts ==
  ASSUME Typed
  PROVE  /\ Index \in Int /\ First \in Keys \ {MIN} /\ length \in Int /\ MAX \in Nat /\ MIN \in Int
         /\ call.op \in {"remove", "insert", "unpack", "pack"}
         /\ call.last = Nil \/ call.last \in Keys \ {MIN}
         /\ Given => call.index \in Int
<1>1. /\ call.op \in {"remove", "insert", "unpack", "pack"}
      /\ call.index \in Indices \cup {Nil} /\ call.last \in Indices \cup {Nil}
      /\ length \in Keys
  BY DEF Typed, Calls
<1>2. Indices \subseteq Keys \ {MIN} /\ Keys \subseteq Int /\ 1 \in Keys \ {MIN} /\ MAX \in Nat /\ MIN \in Int
  BY LibraryAssumption DEF Keys
<1>3. length \in Int /\ length + 1 \in Int
  BY <1>1, <1>2
<1> QED
  BY <1>1, <1>2, <1>3 DEF Index, First, Given

\* A call that ends with an error.
LEMMA Stops ==
  ASSUME Typed', call' = call, call.op # "pack", pc' \in {"error", "raised"}
  PROVE  CallInv'
  BY DEF CallInv, BeginInv, WorkInv, StackInv, PackInv, ResultCount, ShiftsCharged

\* A call that returns.
LEMMA Finishes ==
  ASSUME Typed', call' = call, call.op # "pack", pc' = "done", ResultCount', ShiftsCharged'
  PROVE  CallInv'
  BY DEF CallInv, BeginInv, WorkInv, StackInv, PackInv

\* A call that goes on with the next access.
LEMMA GoesOn ==
  ASSUME Typed', call' = call, call.op # "pack", pc' = "run",
         Shape', call.op = "unpack" \/ batch' = 0, stack' \in Seq(Values), Len(stack') = Height'
  PROVE  CallInv'
  BY DEF CallInv, BeginInv, WorkInv, StackInv, PackInv, ResultCount, ShiftsCharged

\* The length is known and the call starts its accesses, if there are any.
LEMMA Starts ==
  ASSUME CallInv, pc \in {"begin", "length", "await_len"}, NEW len \in Keys,
         UNCHANGED <<array_len, own, backing, meta, call, batch, fuel_used, start, disturbed>>
  PROVE  /\ call.op = "remove" /\ RemoveFrom(len) => CallInv'
         /\ call.op = "insert" /\ InsertFrom(len) => CallInv'
         /\ call.op = "unpack" /\ UnpackTo(First, len) => CallInv'
<1>0. /\ Typed /\ Index \in Int /\ First \in Keys \ {MIN} /\ MAX \in Nat /\ MIN \in Int
      /\ Given => call.index \in Int
  BY CallFacts DEF CallInv
<1>1. /\ fuel_used = 0 /\ batch = 0 /\ plan = << >> /\ length = 0
      /\ len \in Int /\ len <= MAX /\ MIN <= len /\ MIN < 0
  BY LibraryAssumption DEF CallInv, BeginInv, Keys
<1>2. ASSUME NEW s \in Seq(Values), NEW p \in Seq(Access), NEW m \in Keys,
             stack' = s, plan' = p, length' = m, pc' \in {"done", "run"}
      PROVE  Typed'
  <2>1. s \in Seq(Stacked)
    BY DEF Stacked
  <2> QED
    BY <1>0, <1>2, <2>1 DEF Typed
<1>3. ASSUME pc' = "error", UNCHANGED <<stack, plan>>, length' \in Keys
      PROVE  Typed'
  BY <1>0, <1>3 DEF Typed
<1>4. /\ << >> \in Seq(Values) /\ << >> \in Seq(Access) /\ <<Nil>> \in Seq(Values)
      /\ Len(<< >>) = 0 /\ Len(<<Nil>>) = 1
  BY DEF Values
<1>5. ASSUME call.op = "remove", RemoveFrom(len) PROVE CallInv'
  <2> DEFINE i == IF Given THEN call.index ELSE len
  <2>1. length' = len /\ i \in Int /\ Index' = i
    BY <1>0, <1>1, <1>5 DEF RemoveFrom, Index, Given
  <2>2. CASE i - 1 = len
    <3>1. Finish(<<Nil>>)
      BY <1>5, <2>2 DEF RemoveFrom
    <3>2. Typed'
      BY <1>2, <1>4, <2>1, <3>1 DEF Finish
    <3>3. Index' \notin 1..length'
      BY <1>1, <2>1, <2>2
    <3>4. ResultCount' /\ ShiftsCharged'
      BY <1>1, <1>4, <1>5, <3>1, <3>3 DEF ResultCount, ShiftsCharged, Finish
    <3> QED
      BY <1>5, <3>1, <3>2, <3>4, Finishes DEF Finish
  <2>3. CASE i - 1 # len /\ i \in 1..len
    <3> DEFINE p == RemovePlan(i, len)
    <3>1. Run(p)
      BY <1>5, <2>3 DEF RemoveFrom
    <3>2. p \in Seq(Access) /\ HeightOf(p, 1) = 0 /\ ShapeOf("remove", i, First, len, p, 0)
      BY <1>0, <2>1, <2>3, ShapeStarts
    <3> HIDE DEF p, i
    <3>3. Typed'
      BY <1>2, <1>4, <2>1, <3>1, <3>2 DEF Run
    <3>4. First' = First
      BY DEF First
    <3>5. Shape' /\ Height' = 0
      BY <1>1, <1>5, <2>1, <3>1, <3>2, <3>4 DEF Shape, Height, ResultHeight, Run
    <3> QED
      BY <1>1, <1>4, <1>5, <3>1, <3>3, <3>5, GoesOn DEF Run
  <2>4. CASE i - 1 # len /\ i \notin 1..len
    <3>1. Fail
      BY <1>5, <2>4 DEF RemoveFrom
    <3> QED
      BY <1>3, <1>5, <2>1, <3>1, Stops DEF Fail
  <2> QED
    BY <2>2, <2>3, <2>4
<1>6. ASSUME call.op = "insert", InsertFrom(len) PROVE CallInv'
  <2> DEFINE i == IF Given THEN call.index ELSE len + 1
  <2>1. length' = len /\ i \in Int /\ Index' = i
    BY <1>0, <1>1, <1>6 DEF InsertFrom, Index, Given
  <2>3. CASE len < MAX /\ i \in 1..(len + 1)
    <3> DEFINE p == InsertPlan(i, len)
    <3>1. Run(p)
      BY <1>6, <2>3 DEF InsertFrom
    <3>2. p \in Seq(Access) /\ HeightOf(p, 0) = 0 /\ ShapeOf("insert", i, First, len, p, 0)
      BY <1>0, <2>1, <2>3, ShapeStarts
    <3> HIDE DEF p, i
    <3>3. Typed'
      BY <1>2, <1>4, <2>1, <3>1, <3>2 DEF Run
    <3>4. First' = First
      BY DEF First
    <3>5. Shape' /\ Height' = 0
      BY <1>1, <1>6, <2>1, <3>1, <3>2, <3>4 DEF Shape, Height, ResultHeight, Run
    <3> QED
      BY <1>1, <1>4, <1>6, <3>1, <3>3, <3>5, GoesOn DEF Run
  <2>4. CASE ~(len < MAX /\ i \in 1..(len + 1))
    <3>1. Fail
      BY <1>6, <2>4 DEF InsertFrom
    <3> QED
      BY <1>3, <1>6, <2>1, <3>1, Stops DEF Fail
  <2> QED
    BY <2>3, <2>4
<1>7. ASSUME call.op = "unpack", UnpackTo(First, len) PROVE CallInv'
  <2>0. 0 \in Keys
    BY <1>0, <1>1 DEF Keys
  <2>2. CASE First > len
    <3>1. Finish(<< >>) /\ length' = 0
      BY <1>7, <2>2 DEF UnpackTo
    <3>2. Typed'
      BY <1>2, <1>4, <2>0, <3>1 DEF Finish
    <3>4. ResultCount' /\ ShiftsCharged'
      BY <1>1, <1>4, <1>7, <3>1 DEF ResultCount, ShiftsCharged, Finish
    <3> QED
      BY <1>7, <3>1, <3>2, <3>4, Finishes DEF Finish
  <2>3. CASE ~(First > len) /\ Computable(First, len)
    <3> DEFINE n == len - First + 1
               p == UnpackPlan(First, n)
    <3>1. Run(p) /\ length' = n
      BY <1>7, <2>3 DEF UnpackTo
    <3>2. First \in Int /\ n \in 1..MAX /\ n \in Keys /\ First + n - 1 = len
      BY <1>0, <1>1, <2>3 DEF Computable, Keys
    <3>3. p \in Seq(Access) /\ HeightOf(p, n) = 0 /\ ShapeOf("unpack", Index', First, n, p, 0)
      <4>1. Index' \in Int
        BY <1>0, <1>1, <1>7, <3>1, <3>2 DEF Index, Given
      <4> QED
        BY <1>0, <3>2, <4>1, ShapeStarts
    <3> HIDE DEF p, n
    <3>4. Typed'
      BY <1>2, <1>4, <3>1, <3>2, <3>3 DEF Run
    <3>5. First' = First
      BY DEF First
    <3>6. Shape' /\ Height' = 0
      BY <1>1, <1>7, <3>1, <3>3, <3>5 DEF Shape, Height, ResultHeight, Run
    <3> QED
      BY <1>1, <1>4, <1>7, <3>1, <3>4, <3>6, GoesOn DEF Run
  <2>4. CASE ~(First > len) /\ ~Computable(First, len)
    <3>1. Fail /\ length' = 0
      BY <1>7, <2>4 DEF UnpackTo
    <3> QED
      BY <1>3, <1>7, <2>0, <3>1, Stops DEF Fail
  <2> QED
    BY <2>2, <2>3, <2>4
<1> QED
  BY <1>5, <1>6, <1>7

\* What holds when an access is made, or its metamethod has been called.
LEMMA AtAccess ==
  ASSUME CallInv, pc \in {"run", "await"}, plan # << >>
  PROVE  /\ call.op # "pack" /\ call.op \in {"remove", "insert", "unpack"}
         /\ Shape /\ (call.op = "unpack" \/ batch = 0)
         /\ access \in Access /\ Tail(plan) \in Seq(Access)
         /\ access.key \in Keys /\ access.val \in Values /\ access.bottom \in 0..MAX
         /\ access.moves \in BOOLEAN /\ access.kind \in {"get", "set"}
         /\ access.moves => access.kind = "set"
         /\ own[access.key] \in Values /\ backing[access.key] \in Values
         /\ Index \in Int /\ First \in Keys /\ length \in Int /\ fuel_used \in 0..MAX
<1>1. Typed /\ call.op # "pack"
  BY DEF CallInv, PackInv
<1>2. /\ call.op \in {"remove", "insert", "unpack"} /\ Index \in Int /\ First \in Keys
      /\ length \in Int
  BY <1>1, CallFacts
<1>3. plan \in Seq(Access) /\ fuel_used \in 0..MAX /\ fuel_used \in Int /\ length \in Keys
  BY <1>1, LibraryAssumption DEF Typed
<1>4. access \in Access /\ Tail(plan) \in Seq(Access)
  BY <1>3, LeftTail DEF access
<1>5. Shape /\ (call.op = "unpack" \/ batch = 0)
  BY <1>1 DEF CallInv, WorkInv
<1>6. /\ access.key \in Keys /\ access.val \in Values /\ access.bottom \in 0..MAX
      /\ access.moves \in BOOLEAN /\ access.kind \in {"get", "set"}
  BY <1>4 DEF Access
<1>7. access.moves => access.kind = "set"
  <2>1. \/ \E k, b : access = Get(k, b)
        \/ \E k, b : access = Move(k, b)
        \/ \E k, v, b : access = Set(k, v, b)
    <3>1. CASE call.op = "remove"
      <4>1. RemoveShape(plan, Index, length, fuel_used) /\ length <= MAX
        BY <1>1, <1>3, <1>5, <3>1, LibraryAssumption DEF Shape, ShapeOf, Keys
      <4> QED
        BY <1>2, <1>3, <4>1, RemoveAccess DEF access
    <3>2. CASE call.op = "insert"
      <4>1. InsertShape(plan, Index, length, fuel_used)
        BY <1>5, <3>2 DEF Shape, ShapeOf
      <4> QED
        BY <1>2, <1>3, <4>1, InsertAccess DEF access
    <3>3. CASE call.op = "unpack"
      <4>1. UnpackShape(plan, First, length, fuel_used)
        BY <1>5, <3>3 DEF Shape, ShapeOf
      <4> QED
        BY <1>2, <1>3, <4>1, UnpackAccess DEF access
    <3> QED
      BY <1>2, <3>1, <3>2, <3>3
  <2>2. ASSUME NEW k, NEW b, access = Get(k, b) PROVE ~access.moves
    BY <2>2 DEF Get
  <2>3. ASSUME NEW k, NEW b, access = Move(k, b) PROVE access.kind = "set"
    BY <2>3 DEF Set, Move
  <2>4. ASSUME NEW k, NEW v, NEW b, access = Set(k, v, b) PROVE access.kind = "set"
    BY <2>4 DEF Set
  <2> QED
    BY <2>1, <2>2, <2>3, <2>4
<1>8. own[access.key] \in Values /\ backing[access.key] \in Values
  BY <1>1, <1>6 DEF Typed
<1> QED
  BY <1>1, <1>2, <1>3, <1>4, <1>5, <1>6, <1>7, <1>8

\* An access is over: the stack has the height it should leave.
LEMMA Completes ==
  ASSUME CallInv, pc \in {"run", "await"}, plan # << >>, InBatch,
         Advance, Charge, AccessFrame, own' \in [Keys -> Values], backing' \in [Keys -> Values],
         stack' \in Seq(Values), Len(stack') = After(access)
  PROVE  CallInv'
<1>1. Typed /\ call.op # "pack" /\ call' = call /\ length' = length /\ length \in Keys
  BY AtAccess DEF CallInv, AccessFrame, Typed
<1>2. /\ plan' = Tail(plan) /\ pc' = "run" /\ Tail(plan) \in Seq(Access) /\ plan \in Seq(Access)
      /\ fuel_used' = Charged(fuel_used, access)
  BY <1>1, AtAccess DEF Advance, Charge, Charged, Typed
<1>3. /\ Shape /\ Index \in Int /\ First \in Keys /\ fuel_used \in Int
      /\ Index' = Index /\ First' = First
  BY <1>1, AtAccess, LibraryAssumption DEF Index, First, Given
<1>4. Shape' /\ Height' = After(access)
  BY <1>1, <1>2, <1>3, ShapeAdvances DEF Shape, Height, access
<1>5. fuel_used' \in 0..MAX
  <2>1. ShapeOf(call.op, Index, First, length, Tail(plan), fuel_used')
    BY <1>1, <1>2, <1>3, <1>4 DEF Shape
  <2> QED
    BY <1>1, <2>1, LibraryAssumption DEF ShapeOf, RemoveShape, InsertShape, UnpackShape, Keys
<1>6. batch' \in 0..MAX /\ (call.op = "unpack" \/ batch' = 0)
  <2>1. batch \in 0..MAX /\ (call.op = "unpack" \/ batch = 0)
    BY <1>1, AtAccess DEF Typed
  <2>2. CASE call.op = "unpack"
    BY <2>1, <2>2, LibraryAssumption DEF Charge, InBatch
  <2>3. CASE call.op # "unpack"
    BY <2>1, <2>3 DEF Charge
  <2> QED
    BY <2>2, <2>3
<1>7. Typed'
  <2>1. stack' \in Seq(Stacked)
    BY DEF Stacked
  <2> QED
    BY <1>1, <1>2, <1>5, <1>6, <2>1 DEF Typed, AccessFrame
<1> QED
  BY <1>1, <1>2, <1>4, <1>6, <1>7, GoesOn

\* A read leaves one value on top of what was on the stack: the table's own, or
\* what its metamethod returned.
LEMMA Reads ==
  ASSUME CallInv, GetHere \/ GetAnswered
  PROVE  /\ CallInv'
         /\ plan # << >> /\ access.kind = "get" /\ pc \in {"run", "await"}
         /\ \A i \in 1..access.bottom : stack'[i] = stack[i]
         /\ \/ /\ own[access.key] # Nil \/ meta.index = "none"
               /\ stack'[access.bottom + 1] = own[access.key]
            \/ pc = "await" /\ stack'[access.bottom + 1] = backing[access.key]
<1> DEFINE b == access.bottom
<1>1. /\ plan # << >> /\ InBatch /\ access.kind = "get" /\ pc \in {"run", "await"}
      /\ Advance /\ Charge /\ AccessFrame /\ UNCHANGED <<own, backing>>
  BY DEF GetHere, GetAnswered, Running, Awaiting, CallInv, WorkInv, PackInv
<1>2. /\ b \in Nat /\ call.op # "pack" /\ ~access.moves /\ access.moves \in BOOLEAN
      /\ own[access.key] \in Values /\ backing[access.key] \in Values
      /\ own \in [Keys -> Values] /\ backing \in [Keys -> Values]
      /\ After(access) = b + 1
  <2>1. /\ b \in 0..MAX /\ call.op # "pack" /\ access.moves \in BOOLEAN
        /\ own[access.key] \in Values /\ backing[access.key] \in Values
        /\ access.moves => access.kind = "set"
    BY <1>1, AtAccess
  <2>2. own \in [Keys -> Values] /\ backing \in [Keys -> Values]
    BY DEF CallInv, Typed
  <2>3. After(access) = b + 1 /\ b \in Nat
    BY <1>1, <2>1, LibraryAssumption DEF After
  <2> QED
    BY <1>1, <2>1, <2>2, <2>3
<1>3. /\ stack' \in Seq(Values) /\ Len(stack') = b + 1
      /\ \A i \in 1..b : stack'[i] = stack[i]
      /\ \/ /\ own[access.key] # Nil \/ meta.index = "none"
            /\ stack'[b + 1] = own[access.key]
         \/ pc = "await" /\ stack'[b + 1] = backing[access.key]
  <2>1. CASE GetHere
    <3>1. stack \in Seq(Values) /\ Len(stack) = Height
      BY <1>2, <2>1 DEF GetHere, Running, CallInv, StackInv
    <3>2. Height = b
      BY <1>1, <1>2 DEF Height, HeightOf, Before, access
    <3>3. /\ stack' = Append(stack, own[access.key])
          /\ own[access.key] # Nil \/ meta.index = "none"
      BY <2>1 DEF GetHere
    <3> DEFINE w == own[access.key]
    <3>4. w \in Values
      BY <1>2
    <3> HIDE DEF w
    <3>5. /\ Append(stack, w) \in Seq(Values) /\ Len(Append(stack, w)) = Len(stack) + 1
          /\ Append(stack, w)[Len(stack) + 1] = w
          /\ \A i \in 1..Len(stack) : Append(stack, w)[i] = stack[i]
      BY <3>1, <3>4, PushPop
    <3>6. stack' = Append(stack, w) /\ Len(stack) = b
      BY <3>1, <3>2, <3>3 DEF w
    <3>7. stack' \in Seq(Values) /\ Len(stack') = b + 1 /\ stack'[b + 1] = w
          /\ \A i \in 1..b : stack'[i] = stack[i]
      BY <3>5, <3>6, Zenon
    <3> QED
      BY <3>3, <3>7, Zenon DEF w
  <2>2. CASE GetAnswered
    <3> DEFINE v == backing[access.key]
    <3>1. PICK r \in IF meta.index = "table" THEN {<<v>>} ELSE Results(v) : Got(r)
      BY <2>2 DEF GetAnswered
    <3>2. pc = "await" /\ v \in Values /\ Nil \in Values /\ Other \in Values
      BY <1>2, <2>2 DEF GetAnswered, Awaiting, Values
    <3> HIDE DEF v
    <3>3. r \in Seq(Values) /\ (r = << >> => v = Nil) /\ (r # << >> => r[1] = v)
      <4>1. r = <<v>> \/ r = <<v, Other>> \/ (r = << >> /\ v = Nil)
        BY <3>1 DEF Results
      <4>2. CASE r = <<v>>
        BY <3>2, <4>2
      <4>3. CASE r = <<v, Other>>
        BY <3>2, <4>3
      <4>4. CASE r = << >> /\ v = Nil
        BY <3>2, <4>4
      <4> QED
        BY <4>1, <4>2, <4>3, <4>4
    <3>4. stack \in Seq(Stacked)
      BY DEF CallInv, Typed
    <3>5. b <= Len(stack) /\ \A i \in 1..b : stack[i] \in Values
      <4>1. Len(stack) = b + 2 /\ \A i \in 1..b : stack[i] \in Values
        BY <1>1, <3>2 DEF CallInv, StackInv
      <4> QED
        BY <1>2, <4>1
    <3>6. stack' = Take(SubSeq(stack, 1, b) \o r, b + 1)
      BY <3>1 DEF Got, Returned
    <3>7. /\ Take(SubSeq(stack, 1, b) \o r, b + 1) \in Seq(Values)
          /\ Len(Take(SubSeq(stack, 1, b) \o r, b + 1)) = b + 1
          /\ Take(SubSeq(stack, 1, b) \o r, b + 1)[b + 1] = v
          /\ \A i \in 1..b : Take(SubSeq(stack, 1, b) \o r, b + 1)[i] = stack[i]
      <4> HIDE DEF b
      <4> QED
        BY <1>2, <3>2, <3>3, <3>4, <3>5, Returns, SMTT(30)
    <3> QED
      BY <3>2, <3>6, <3>7 DEF v
  <2> QED
    BY <2>1, <2>2
<1>4. CallInv'
  BY <1>1, <1>2, <1>3, Completes
<1> QED
  BY <1>1, <1>3, <1>4

\* A write takes its value off the stack and leaves what was below.
LEMMA Writes ==
  ASSUME CallInv, SetHere \/ SetAnswered
  PROVE  /\ CallInv'
         /\ plan # << >> /\ access.kind = "set" /\ pc \in {"run", "await"} /\ ToAssign \in Values
         /\ \A i \in 1..access.bottom : stack'[i] = stack[i]
         /\ \/ /\ own[access.key] # Nil \/ meta.newindex = "none"
               /\ own' = [own EXCEPT ![access.key] = ToAssign] /\ backing' = backing
            \/ /\ pc = "await"
               /\ backing' = [backing EXCEPT ![access.key] = ToAssign] /\ own' = own
<1> DEFINE b == access.bottom
<1>1. /\ plan # << >> /\ InBatch /\ access.kind = "set" /\ pc \in {"run", "await"}
      /\ Advance /\ Charge /\ AccessFrame
  BY DEF SetHere, SetAnswered, Running, Awaiting, CallInv, WorkInv, PackInv
<1>2. /\ b \in Nat /\ call.op # "pack" /\ access.moves \in BOOLEAN /\ access.val \in Values
      /\ access.key \in Keys
      /\ own \in [Keys -> Values] /\ backing \in [Keys -> Values]
      /\ After(access) = b
  <2>1. /\ b \in 0..MAX /\ call.op # "pack" /\ access.moves \in BOOLEAN /\ access.val \in Values
        /\ access.key \in Keys
    BY <1>1, AtAccess
  <2>2. own \in [Keys -> Values] /\ backing \in [Keys -> Values]
    BY DEF CallInv, Typed
  <2>3. After(access) = b /\ b \in Nat
    BY <1>1, <2>1, LibraryAssumption DEF After
  <2> QED
    BY <1>1, <2>1, <2>2, <2>3
<1>3. /\ stack' \in Seq(Values) /\ Len(stack') = b /\ ToAssign \in Values
      /\ \A i \in 1..b : stack'[i] = stack[i]
      /\ \/ /\ own[access.key] # Nil \/ meta.newindex = "none"
            /\ own' = [own EXCEPT ![access.key] = ToAssign] /\ backing' = backing
         \/ /\ pc = "await"
            /\ backing' = [backing EXCEPT ![access.key] = ToAssign] /\ own' = own
  <2>1. CASE SetHere
    <3>1. stack \in Seq(Values) /\ Len(stack) = Height /\ pc = "run"
      BY <1>2, <2>1 DEF SetHere, Running, CallInv, StackInv
    <3>2. Height = IF access.moves THEN b + 1 ELSE b
      BY <1>1, <1>2 DEF Height, HeightOf, Before, access
    <3>3. /\ stack' = Lower
          /\ own' = [own EXCEPT ![access.key] = Assigned] /\ backing' = backing
          /\ own[access.key] # Nil \/ meta.newindex = "none"
      BY <2>1 DEF SetHere
    <3>4. /\ Lower \in Seq(Values) /\ Len(Lower) = b /\ Assigned = ToAssign
          /\ Assigned \in Values /\ \A i \in 1..b : Lower[i] = stack[i]
      <4>1. CASE access.moves
        BY <1>2, <3>1, <3>2, <4>1, PushPop, SMTT(30) DEF Lower, Assigned, ToAssign
      <4>2. CASE ~access.moves
        BY <1>2, <3>1, <3>2, <4>2 DEF Lower, Assigned, ToAssign
      <4> QED
        BY <4>1, <4>2
    <3> QED
      BY <1>2, <3>3, <3>4
  <2>2. CASE SetAnswered
    <3>1. PICK r \in IF meta.newindex = "table" THEN {<< >>} ELSE {<< >>, <<Other>>} : WasSet(r)
      BY <2>2 DEF SetAnswered
    <3>2. /\ pc = "await" /\ Nil \in Values /\ Other \in Values
          /\ backing' = [backing EXCEPT ![access.key] = Last(stack)] /\ own' = own
      BY <1>2, <2>2 DEF SetAnswered, Awaiting, Values
    <3>3. r \in Seq(Values) /\ \E v \in Values : (r = << >> => v = Nil) /\ (r # << >> => r[1] = v)
      <4>1. CASE r = << >>
        BY <3>2, <4>1
      <4>2. CASE r = <<Other>>
        BY <3>2, <4>2
      <4> QED
        BY <3>1, <4>1, <4>2
    <3>4. stack \in Seq(Stacked)
      BY DEF CallInv, Typed
    <3>5. /\ Len(stack) = b + 3 /\ \A i \in 1..b : stack[i] \in Values
          /\ stack[b + 3] \in Values
      BY <1>1, <3>2 DEF CallInv, StackInv
    <3>6. b <= Len(stack) /\ stack # << >>
      BY <1>2, <3>5
    <3>7. stack' = Take(SubSeq(stack, 1, b) \o r, b)
      BY <3>1 DEF WasSet, Returned
    <3>8. /\ Take(SubSeq(stack, 1, b) \o r, b) \in Seq(Values)
          /\ Len(Take(SubSeq(stack, 1, b) \o r, b)) = b
          /\ \A i \in 1..b : Take(SubSeq(stack, 1, b) \o r, b)[i] = stack[i]
      <4> HIDE DEF b
      <4>1. PICK v \in Values : (r = << >> => v = Nil) /\ (r # << >> => r[1] = v)
        BY <3>3
      <4>2. b \in Nat /\ r \in Seq(Values) /\ b <= Len(stack) /\ \A i \in 1..b : stack[i] \in Values
        BY <1>2, <3>3, <3>5, <3>6
      <4> QED
        BY <3>4, <4>1, <4>2, Returns, SMTT(30)
    <3>9. Last(stack) = ToAssign /\ ToAssign \in Values
      BY <3>2, <3>5, <3>6 DEF Last, ToAssign
    <3> QED
      BY <3>2, <3>7, <3>8, <3>9
  <2> QED
    BY <2>1, <2>2
<1>4. CallInv'
  <2>1. own' \in [Keys -> Values] /\ backing' \in [Keys -> Values]
    BY <1>2, <1>3
  <2> QED
    BY <1>1, <1>2, <1>3, <2>1, Completes
<1> QED
  BY <1>1, <1>3, <1>4

\* A metamethod is called: its arguments are on top, among them what is to be
\* assigned, and below them is what was there.
LEMMA CallsMeta ==
  ASSUME CallInv, NEW kind \in {"get", "set"}, CallMeta(kind)
  PROVE  /\ CallInv' /\ pc = "run" /\ pc' = "await" /\ plan # << >> /\ access' = access
         /\ access.kind = kind
         /\ \A i \in 1..access.bottom : stack'[i] = stack[i]
         /\ kind = "set" => ToAssign' = ToAssign
<1> DEFINE b == access.bottom
<1>1. /\ plan # << >> /\ InBatch /\ access.kind = kind /\ pc = "run" /\ pc' = "await"
      /\ AccessFrame /\ UNCHANGED <<own, backing, plan, batch, fuel_used>>
      /\ access' = access
  BY DEF CallMeta, Running, access
<1>2. /\ b \in Nat /\ call.op # "pack" /\ access.moves \in BOOLEAN /\ access.val \in Values
      /\ access.key \in Keys /\ Shape /\ (call.op = "unpack" \/ batch = 0)
      /\ access.moves => kind = "set"
  BY <1>1, AtAccess, LibraryAssumption
<1>3. stack \in Seq(Values) /\ Len(stack) = IF access.moves THEN b + 1 ELSE b
  <2>1. stack \in Seq(Values) /\ Len(stack) = Height
    BY <1>1, <1>2 DEF CallInv, StackInv
  <2>2. Height = IF access.moves THEN b + 1 ELSE b
    BY <1>1, <1>2 DEF Height, HeightOf, Before, access
  <2> QED
    BY <2>1, <2>2
<1>4. /\ Lower \in Seq(Values) /\ Len(Lower) = b /\ Assigned = ToAssign
      /\ Assigned \in Values /\ \A i \in 1..b : Lower[i] = stack[i]
      /\ ~access.moves => Assigned = access.val
  <2>1. CASE access.moves
    BY <1>1, <1>2, <1>3, <2>1, PushPop DEF Lower, Assigned, ToAssign
  <2>2. CASE ~access.moves
    BY <1>1, <1>2, <1>3, <2>2 DEF Lower, Assigned, ToAssign
  <2> QED
    BY <2>1, <2>2
<1>5. /\ stack' \in Seq(Stacked) /\ Len(stack') = b + (IF kind = "get" THEN 2 ELSE 3)
      /\ stack'[b + 1] = Tab /\ stack'[b + 2] = access.key
      /\ kind = "set" => stack'[b + 3] = Assigned
      /\ \A i \in 1..b : stack'[i] = stack[i]
  <2>1. CASE kind = "get"
    <3> DEFINE a == <<Tab, access.key>>
    <3>1. stack' = stack \o a /\ Len(stack) = b
      BY <1>2, <1>3, <2>1 DEF CallMeta
    <3>2. /\ a \in Seq(Stacked) /\ Len(a) = 2 /\ 1 \in 1..2 /\ 2 \in 1..2
          /\ a[1] = Tab /\ a[2] = access.key /\ stack \in Seq(Stacked)
      BY <1>2, <1>3 DEF Stacked
    <3> HIDE DEF a, b
    <3>3. a \in Seq(Stacked) /\ stack \in Seq(Stacked)
      BY <3>2
    <3>4. /\ stack \o a \in Seq(Stacked) /\ Len(stack \o a) = Len(stack) + Len(a)
          /\ \A i \in 1..Len(stack) : (stack \o a)[i] = stack[i]
          /\ \A i \in 1..Len(a) : (stack \o a)[Len(stack) + i] = a[i]
      BY <3>3
    <3> QED
      BY <2>1, <3>1, <3>2, <3>4
  <2>2. CASE kind = "set"
    <3> DEFINE a == <<Tab, access.key, Assigned>>
    <3>1. stack' = Lower \o a
      BY <2>2 DEF CallMeta
    <3>2. /\ a \in Seq(Stacked) /\ Len(a) = 3 /\ 1 \in 1..3 /\ 2 \in 1..3 /\ 3 \in 1..3
          /\ a[1] = Tab /\ a[2] = access.key /\ a[3] = Assigned /\ Lower \in Seq(Stacked)
      BY <1>2, <1>4 DEF Stacked
    <3> HIDE DEF a, b
    <3>3. a \in Seq(Stacked) /\ Lower \in Seq(Stacked)
      BY <3>2
    <3>4. /\ Lower \o a \in Seq(Stacked) /\ Len(Lower \o a) = Len(Lower) + Len(a)
          /\ \A i \in 1..Len(Lower) : (Lower \o a)[i] = Lower[i]
          /\ \A i \in 1..Len(a) : (Lower \o a)[Len(Lower) + i] = a[i]
      BY <3>3
    <3> QED
      BY <1>4, <2>2, <3>1, <3>2, <3>4
  <2> QED
    BY <2>1, <2>2
<1>6. Typed'
  BY <1>1, <1>5 DEF CallInv, Typed, AccessFrame
<1>7. WorkInv' /\ BeginInv' /\ PackInv' /\ ResultCount' /\ ShiftsCharged'
  <2>1. Shape' /\ InBatch'
    BY <1>1, <1>2 DEF Shape, Index, First, Given, AccessFrame, InBatch
  <2> QED
    BY <1>1, <1>2, <2>1 DEF WorkInv, BeginInv, PackInv, ResultCount, ShiftsCharged, AccessFrame
<1>8. StackInv'
  <2>1. \A i \in 1..b : stack[i] \in Values
    BY <1>2, <1>3
  <2> QED
    BY <1>1, <1>4, <1>5, <2>1 DEF StackInv
<1>9. kind = "set" => ToAssign' = ToAssign
  BY <1>1, <1>4, <1>5 DEF ToAssign
<1> QED
  BY <1>1, <1>5, <1>6, <1>7, <1>8, <1>9 DEF CallInv

\* The entries change and nothing else.
LEMMA OnlyEntries ==
  ASSUME CallInv, Typed', pc # "begin",
         UNCHANGED <<call, pc, length, plan, stack, batch, fuel_used, start>>
  PROVE  CallInv'
  BY DEF CallInv, BeginInv, WorkInv, StackInv, PackInv, ResultCount, ShiftsCharged,
         Shape, Height, access, InBatch, Index, First, Given

\* The last slot is free when a call begins, and a border lies below it.
LEMMA BorderRange ==
  ASSUME Typed, own[MAX] = Nil, NEW n \in Borders(own)
  PROVE  n \in 0..(MAX - 1) /\ n \in Keys
<1>1. n \in 0..MAX /\ (n = 0 \/ own[n] # Nil) /\ MAX \in Nat \ {0}
  BY LibraryAssumption DEF Borders
<1>2. n # MAX
  BY <1>1
<1> QED
  BY <1>1, <1>2, LibraryAssumption DEF Keys

\* array_remove_shift keeps the entries typed, and the fuel is what it shifted.
LEMMA ArrayRemoves ==
  ASSUME CallInv, pc = "begin", call.op = "remove", NEW n \in Borders(own), ArrayRemove(n),
         UNCHANGED <<array_len, backing, meta, call, batch, start, disturbed>>
  PROVE  CallInv'
<1> DEFINE i == IF Given THEN call.index ELSE n
<1>0. /\ Typed /\ fuel_used = 0 /\ own \in [Keys -> Values]
      /\ n \in 0..(MAX - 1) /\ n \in Keys /\ n \in Int /\ MAX \in Nat
  BY BorderRange, LibraryAssumption DEF CallInv, BeginInv, Typed
<1>1. i \in Int
  BY <1>0, CallFacts
<1>2. length' = n => Index' = i
  BY DEF Index, Given
<1>3. RemovedFuel(n) => fuel_used' = IF n - i < 0 THEN 0 ELSE n - i
  BY DEF RemovedFuel
<1> HIDE DEF i
<1>4. ASSUME NEW v \in Values, Finish(<<v>>), length' = n, own' \in [Keys -> Values],
             fuel_used' = IF i \in 1..n THEN n - i ELSE 0
      PROVE  CallInv'
  <2>1. <<v>> \in Seq(Stacked) /\ << >> \in Seq(Access) /\ Len(<<v>>) = 1
    BY DEF Stacked
  <2>2. fuel_used' \in 0..MAX
    BY <1>0, <1>1, <1>4
  <2>3. Typed'
    BY <1>0, <1>4, <2>1, <2>2 DEF Typed, Finish
  <2>4. ResultCount' /\ ShiftsCharged'
    BY <1>2, <1>4, <2>1 DEF ResultCount, ShiftsCharged, Finish
  <2> QED
    BY <1>4, <2>3, <2>4, Finishes DEF Finish
<1>5. \/ /\ i = n + 1 \/ (i = 0 /\ n = 0)
         /\ Finish(<<Nil>>) /\ RemovedFuel(n) /\ length' = n /\ own' = own
      \/ /\ i \in 1..n
         /\ Finish(<<own[i]>>) /\ RemovedFuel(n) /\ length' = n
         /\ own' = RotateLeft([own EXCEPT ![i] = Nil], i, n)
      \/ RemoveFrom(n) /\ UNCHANGED <<own, fuel_used>>
      \/ Fail /\ length' = n /\ UNCHANGED <<own, fuel_used>>
  BY DEF ArrayRemove, i
<1>6. CASE /\ i = n + 1 \/ (i = 0 /\ n = 0)
           /\ Finish(<<Nil>>) /\ RemovedFuel(n) /\ length' = n /\ own' = own
  <2>1. fuel_used' = IF i \in 1..n THEN n - i ELSE 0
    BY <1>0, <1>1, <1>3, <1>6
  <2>2. Nil \in Values
    BY DEF Values
  <2> QED
    BY <1>0, <1>4, <1>6, <2>1, <2>2
<1>7. CASE /\ i \in 1..n
           /\ Finish(<<own[i]>>) /\ RemovedFuel(n) /\ length' = n
           /\ own' = RotateLeft([own EXCEPT ![i] = Nil], i, n)
  <2>1. fuel_used' = IF i \in 1..n THEN n - i ELSE 0
    BY <1>0, <1>1, <1>3, <1>7
  <2>2. i \in Keys /\ own[i] \in Values /\ Nil \in Values
    BY <1>0, <1>7, LibraryAssumption DEF Keys, Values
  <2>3. own' \in [Keys -> Values]
    <3> DEFINE f == [own EXCEPT ![i] = Nil]
    <3>1. f \in [Keys -> Values]
      BY <1>0, <2>2
    <3> HIDE DEF f
    <3>2. ASSUME NEW k \in Keys, k \in i..(n - 1) PROVE k + 1 \in Keys
      BY <1>0, <1>1, <3>2, LibraryAssumption DEF Keys
    <3>3. RotateLeft(f, i, n) \in [Keys -> Values]
      BY <2>2, <3>1, <3>2 DEF RotateLeft
    <3> QED
      BY <1>7, <3>3 DEF f
  <2> QED
    BY <1>4, <1>7, <2>1, <2>2, <2>3
<1>8. CASE RemoveFrom(n) /\ UNCHANGED <<own, fuel_used>>
  BY <1>0, <1>8, Starts
<1>9. CASE Fail /\ length' = n /\ UNCHANGED <<own, fuel_used>>
  <2>1. Typed'
    BY <1>0, <1>9 DEF Typed, Fail
  <2> QED
    BY <1>9, <2>1, Stops DEF Fail
<1> QED
  BY <1>5, <1>6, <1>7, <1>8, <1>9

\* array_insert_shift likewise.
LEMMA ArrayInserts ==
  ASSUME CallInv, pc = "begin", call.op = "insert", NEW n \in Borders(own), ArrayInsert(n),
         UNCHANGED <<array_len, backing, meta, call, batch, start, disturbed>>
  PROVE  CallInv'
<1> DEFINE i == IF Given THEN call.index ELSE n + 1
<1>0. /\ Typed /\ fuel_used = 0 /\ own \in [Keys -> Values]
      /\ n \in 0..(MAX - 1) /\ n \in Keys /\ n \in Int /\ MAX \in Nat
  BY BorderRange, LibraryAssumption DEF CallInv, BeginInv, Typed
<1>1. i \in Int
  BY <1>0, CallFacts
<1>2. length' = n => Index' = i
  BY DEF Index, Given
<1>5. \/ /\ i \in 1..(n + 1)
         /\ own' = [RotateRight(own, i, n + 1) EXCEPT ![i] = New]
         /\ fuel_used' = n - (i - 1)
         /\ Finish(<< >>) /\ length' = n
      \/ InsertFrom(n) /\ UNCHANGED <<own, fuel_used>>
      \/ Fail /\ length' = n /\ UNCHANGED <<own, fuel_used>>
  BY DEF ArrayInsert
<1> HIDE DEF i
<1>6. CASE /\ i \in 1..(n + 1)
           /\ own' = [RotateRight(own, i, n + 1) EXCEPT ![i] = New]
           /\ fuel_used' = n - (i - 1)
           /\ Finish(<< >>) /\ length' = n
  <2>1. fuel_used' \in 0..MAX /\ fuel_used' = n + 1 - i
    BY <1>0, <1>1, <1>6
  <2>2. i \in Keys /\ n + 1 \in Keys /\ New \in Values
    BY <1>0, <1>6, LibraryAssumption DEF Keys, Values
  <2>3. own' \in [Keys -> Values]
    <3>2. ASSUME NEW k \in Keys, k \in (i + 1)..(n + 1) PROVE k - 1 \in Keys
      BY <1>0, <1>6, <3>2, LibraryAssumption DEF Keys
    <3>3. RotateRight(own, i, n + 1) \in [Keys -> Values]
      BY <1>0, <2>2, <3>2 DEF RotateRight
    <3> QED
      BY <1>6, <2>2, <3>3
  <2>4. << >> \in Seq(Stacked) /\ << >> \in Seq(Access) /\ Len(<< >>) = 0
    OBVIOUS
  <2>5. Typed'
    BY <1>0, <1>6, <2>1, <2>3, <2>4 DEF Typed, Finish
  <2>6. ResultCount' /\ ShiftsCharged'
    BY <1>2, <1>6, <2>1, <2>4 DEF ResultCount, ShiftsCharged, Finish
  <2> QED
    BY <1>6, <2>5, <2>6, Finishes DEF Finish
<1>8. CASE InsertFrom(n) /\ UNCHANGED <<own, fuel_used>>
  BY <1>0, <1>8, Starts
<1>9. CASE Fail /\ length' = n /\ UNCHANGED <<own, fuel_used>>
  <2>1. Typed'
    BY <1>0, <1>9 DEF Typed, Fail
  <2> QED
    BY <1>9, <2>1, Stops DEF Fail
<1> QED
  BY <1>5, <1>6, <1>8, <1>9

\* Every initial state has the invariant.
LEMMA CallBegins == Init => CallInv
<1> SUFFICES ASSUME Init PROVE CallInv
  OBVIOUS
<1>1. /\ call \in Calls /\ pc = "begin" /\ length = 0 /\ plan = << >> /\ batch = 0
      /\ fuel_used = 0 /\ disturbed = FALSE /\ array_len \in 0..MAX /\ meta \in Metatables
  BY DEF Init
<1>2. 0 \in Keys /\ 0 \in 0..MAX /\ MAX \in Nat \ {0} /\ MAX \in Keys
  BY LibraryAssumption DEF Keys
<1>3. own \in [Keys -> Values] /\ backing \in [Keys -> Values] /\ own[MAX] = Nil
  <2>1. PICK O \in SUBSET (Slots \ {MAX}), B \in SUBSET Slots : own = Holding(O) /\ backing = Holding(B)
    BY DEF Init
  <2>2. ASSUME NEW S \in SUBSET Slots PROVE Holding(S) \in [Keys -> Values]
    BY DEF Holding, Values
  <2> QED
    BY <1>2, <2>1, <2>2 DEF Holding
<1>4. /\ stack \in Seq(Values) /\ Len(stack) <= MAX /\ (call.op # "pack" => stack = << >>)
      /\ call.op = "pack" => start = stack
  <2>1. CASE call.op = "pack"
    <3>1. stack \in Arguments /\ start = stack
      BY <2>1 DEF Init
    <3>2. PICK n \in 0..MaxPacked : stack \in [1..n -> {New, Nil}]
      BY <3>1 DEF Arguments
    <3>3. n \in Nat /\ n <= MAX
      BY <3>2, LibraryAssumption
    <3>4. stack \in [1..n -> Values]
      BY <3>2 DEF Values
    <3> QED
      BY <2>1, <3>1, <3>3, <3>4
  <2>2. CASE call.op # "pack"
    <3>1. stack = << >>
      BY <2>2 DEF Init
    <3> QED
      BY <1>2, <2>2, <3>1
  <2> QED
    BY <2>1, <2>2
<1>5. stack \in Seq(Stacked) /\ << >> \in Seq(Access)
  BY <1>4 DEF Stacked
<1>6. Typed
  BY <1>1, <1>2, <1>3, <1>5 DEF Typed
<1>7. 0 <= Len(stack)
  BY <1>4
<1> QED
  BY <1>1, <1>3, <1>4, <1>6, <1>7
  DEF CallInv, BeginInv, WorkInv, StackInv, PackInv, ResultCount, ShiftsCharged

\* Every step keeps it.
LEMMA CallSteps == CallInv /\ [Next]_vars => CallInv'
<1> SUFFICES ASSUME CallInv, [Next]_vars PROVE CallInv'
  OBVIOUS
<1>0. /\ Typed /\ MAX \in Nat \ {0} /\ MIN \in Int /\ MIN < 0
      /\ stack \in Seq(Stacked) /\ plan \in Seq(Access)
      /\ own \in [Keys -> Values] /\ backing \in [Keys -> Values] /\ batch \in 0..MAX
  BY LibraryAssumption DEF CallInv, Typed
<1>1. CASE BeginFast
  <2>1. PICK n \in Borders(own) : IF call.op = "remove" THEN ArrayRemove(n) ELSE ArrayInsert(n)
    BY <1>1 DEF BeginFast
  <2> QED
    BY <1>1, <2>1, ArrayRemoves, ArrayInserts DEF BeginFast
<1>2. CASE BeginFallback
  <2>1. Typed' /\ call.op # "pack"
    BY <1>0, <1>2 DEF BeginFallback, Typed, table, frame
  <2> QED
    BY <1>2, <2>1 DEF BeginFallback, table, frame,
      CallInv, BeginInv, WorkInv, StackInv, PackInv, ResultCount, ShiftsCharged
<1>3. CASE BeginUnpack
  <2>1. call.last \in Keys
    BY <1>0, <1>3, CallFacts DEF BeginUnpack
  <2> QED
    BY <1>3, <2>1, Starts DEF BeginUnpack, table
<1>4. CASE FindLength
  <2>0. /\ UNCHANGED <<array_len, own, backing, meta, call, batch, fuel_used, start, disturbed>>
        /\ pc = "length" /\ call.op # "pack" /\ stack = << >>
    BY <1>4 DEF FindLength, table, CallInv, BeginInv
  <2>1. CASE \E n \in Borders(own) : WithLength(n)
    <3>1. PICK n \in Borders(own) : WithLength(n)
      BY <2>1
    <3>2. n \in Keys
      BY <1>0 DEF Borders, Keys
    <3> QED
      BY <2>0, <3>1, <3>2, Starts DEF WithLength
  <2>2. CASE pc' = "await_len" /\ stack' = Append(stack, Tab) /\ UNCHANGED <<plan, length>>
    <3>1. stack' \in Seq(Stacked)
      BY <2>0, <2>2 DEF Stacked
    <3>2. Typed'
      BY <1>0, <2>0, <2>2, <3>1 DEF Typed
    <3> QED
      BY <2>0, <2>2, <3>2
      DEF CallInv, BeginInv, WorkInv, StackInv, PackInv, ResultCount, ShiftsCharged
  <2>3. CASE Raise /\ UNCHANGED length
    <3>1. Typed'
      BY <1>0, <2>0, <2>3 DEF Typed, Raise
    <3> QED
      BY <2>0, <2>3, <3>1, Stops DEF Raise
  <2> QED
    BY <1>4, <2>1, <2>2, <2>3 DEF FindLength
<1>5. CASE LengthFound
  <2>0. /\ UNCHANGED <<array_len, own, backing, meta, call, batch, fuel_used, start, disturbed>>
        /\ pc = "await_len" /\ call.op # "pack"
    BY <1>5 DEF LengthFound, table, CallInv, BeginInv
  <2>1. CASE \E n \in Lens : WithLength(n)
    <3>1. PICK n \in Lens : WithLength(n)
      BY <2>1
    <3>2. n \in Keys
      BY LibraryAssumption
    <3> QED
      BY <2>0, <3>1, <3>2, Starts DEF WithLength
  <2>3. CASE Raise /\ UNCHANGED length
    <3>1. Typed'
      BY <1>0, <2>0, <2>3 DEF Typed, Raise
    <3> QED
      BY <2>0, <2>3, <3>1, Stops DEF Raise
  <2> QED
    BY <1>5, <2>1, <2>3 DEF LengthFound
<1>6. CASE GetHere \/ GetAnswered
  BY <1>6, Reads
<1>7. CASE SetHere \/ SetAnswered
  BY <1>7, Writes
<1>8. CASE MetaError
  <2>0. /\ plan # << >> /\ pc = "await" /\ AccessFrame /\ Raise /\ UNCHANGED <<own, batch, fuel_used>>
        /\ call.op # "pack" /\ call' = call
    BY <1>8 DEF MetaError, CallInv, WorkInv, PackInv, AccessFrame
  <2>1. /\ access.key \in Keys /\ access.bottom \in Nat
    BY <2>0, AtAccess, LibraryAssumption
  <2>2. access.kind = "set" => Last(stack) \in Values
    <3>1. ASSUME access.kind = "set" PROVE Last(stack) \in Values
      <4> DEFINE b == access.bottom
      <4>1. Len(stack) = b + 3 /\ stack[b + 3] \in Values
        BY <2>0, <3>1 DEF CallInv, StackInv
      <4>2. stack # << >>
        BY <1>0, <2>1, <4>1
      <4> QED
        BY <4>1, <4>2 DEF Last
    <3> QED
      BY <3>1
  <2>3. backing' \in [Keys -> Values]
    BY <1>0, <1>8, <2>1, <2>2 DEF MetaError
  <2>4. Typed'
    BY <1>0, <2>0, <2>3 DEF Typed, Raise, AccessFrame
  <2> QED
    BY <2>0, <2>4, Stops DEF Raise
<1>9. CASE Return
  <2>0. /\ plan = << >> /\ pc = "run" /\ pc' = "done" /\ UNCHANGED <<table, frame, stack>>
        /\ call.op # "pack" /\ call' = call
    BY <1>9 DEF Return, CallInv, PackInv, frame
  <2>1. Typed'
    BY <1>0, <2>0 DEF Typed, table, frame
  <2>2. Shape /\ Len(stack) = Height
    BY <2>0 DEF CallInv, WorkInv, StackInv
  <2>3. fuel_used = Shifted(call.op, Index, length) /\ (call.op = "remove" => Index \in 1..length)
    <3>1. /\ Index \in Int /\ First \in Keys /\ length \in Keys /\ fuel_used \in 0..MAX
      BY <1>0, CallFacts DEF Typed
    <3> QED
      BY <1>0, <2>0, <2>2, <3>1, ShapeCharged DEF Shape
  <2>4. call.op \in {"remove", "insert", "unpack"}
    BY <2>0, <1>0, CallFacts
  <2>5. Index' = Index /\ length' = length /\ fuel_used' = fuel_used /\ stack' = stack
    BY <2>0 DEF Index, Given, frame
  <2>6. ResultCount' /\ ShiftsCharged'
    BY <2>0, <2>2, <2>3, <2>4, <2>5
    DEF ResultCount, ShiftsCharged, Height, HeightOf, ResultHeight, Shifted
  <2> QED
    BY <2>0, <2>1, <2>6, Finishes
<1>10. ASSUME NEW kind \in {"get", "set"}, CallMeta(kind) PROVE CallInv'
  BY <1>10, CallsMeta
<1>11. ASSUME NEW kind \in {"get", "set"}, BadMeta(kind) PROVE CallInv'
  <2>1. /\ pc = "run" /\ plan # << >> /\ Raise /\ AccessFrame
        /\ UNCHANGED <<own, backing, batch, fuel_used>>
    BY <1>11 DEF BadMeta, Running
  <2>2. Typed'
    BY <1>0, <2>1 DEF Typed, Raise, AccessFrame
  <2> QED
    BY <2>1, <2>2, AtAccess, Stops DEF Raise, AccessFrame
<1>12. CASE NextBatch
  <2>1. PICK n \in 1..Len(plan) : batch' = n
    BY <1>12 DEF NextBatch
  <2>2. /\ pc \in {"run", "pending"} /\ pc' = "run" /\ call.op = "unpack" /\ plan # << >>
        /\ UNCHANGED <<table, call, length, plan, stack, fuel_used, start, disturbed>>
    BY <1>12 DEF NextBatch
  <2>3. Shape /\ stack \in Seq(Values) /\ Len(stack) = Height
    BY <2>2 DEF CallInv, WorkInv, StackInv
  <2>4. Len(plan) <= length /\ length \in 1..MAX
    BY <2>2, <2>3 DEF Shape, ShapeOf, UnpackShape
  <2>5. n \in 0..MAX
    BY <1>0, <2>4
  <2>6. Typed'
    BY <1>0, <2>1, <2>2, <2>5 DEF Typed, table
  <2>7. Shape' /\ Height' = Height
    BY <2>2, <2>3 DEF Shape, Height, Index, First, Given
  <2> QED
    BY <2>2, <2>3, <2>6, <2>7, GoesOn
<1>13. CASE Pending
  <2>1. /\ pc = "run" /\ pc' = "pending" /\ call.op = "unpack" /\ plan # << >>
        /\ UNCHANGED <<table, frame, stack>>
    BY <1>13 DEF Pending
  <2>2. Typed'
    BY <1>0, <2>1 DEF Typed, table, frame
  <2> QED
    BY <2>1, <2>2 DEF frame,
      CallInv, BeginInv, WorkInv, StackInv, PackInv, ResultCount, ShiftsCharged,
      Shape, Height, Index, First, Given
<1>14. CASE PackBatch
  <2> DEFINE m == Len(stack)
  <2>0. /\ call.op = "pack" /\ pc \in {"begin", "pending"} /\ length' = m
        /\ UNCHANGED <<array_len, backing, meta, call, plan, fuel_used, start, disturbed>>
    BY <1>14 DEF PackBatch
  <2>1. PICK n \in 0..(m - batch) :
          /\ batch' = batch + n
          /\ own' = [k \in Keys |-> IF k \in (batch + 1)..(batch + n) THEN stack[k] ELSE own[k]]
          /\ IF batch + n < m THEN pc' = "pending" /\ UNCHANGED stack
                              ELSE pc' = "done" /\ stack' = <<Tab>>
    BY <1>14 DEF PackBatch
  <2>2. /\ stack = start /\ stack \in Seq(Values) /\ m <= MAX /\ batch <= m /\ m \in Nat
        /\ plan = << >> /\ fuel_used = 0
    BY <2>0 DEF CallInv, PackInv
  <2>3. \A k \in 1..m : stack[k] \in Values
    BY <2>2
  <2> HIDE DEF m
  <2>4. batch' \in 0..MAX /\ batch' <= m /\ m \in Keys
    BY <1>0, <2>1, <2>2 DEF Keys
  <2>5. own' \in [Keys -> Values]
    <3>1. ASSUME NEW k \in Keys, k \in (batch + 1)..(batch + n) PROVE k \in 1..m
      BY <1>0, <2>1, <2>2, <3>1
    <3> QED
      BY <1>0, <2>1, <2>3, <3>1
  <2>6. stack' \in Seq(Stacked)
    <3>1. <<Tab>> \in Seq(Stacked)
      BY DEF Stacked
    <3> QED
      BY <1>0, <2>1, <3>1
  <2>7. Typed'
    BY <1>0, <2>0, <2>1, <2>4, <2>5, <2>6 DEF Typed
  <2>8. pc' = "done" => Len(stack') = 1
    BY <2>1
  <2>9. pc' # "done" => pc' = "pending" /\ stack' = stack
    BY <2>1
  <2> QED
    BY <2>0, <2>1, <2>2, <2>4, <2>7, <2>8, <2>9
    DEF CallInv, BeginInv, WorkInv, StackInv, PackInv, ResultCount, ShiftsCharged, m
<1>15. CASE Interfere
  <2>1. /\ pc # "begin"
        /\ UNCHANGED <<array_len, meta, call, length, plan, batch, fuel_used, start, pc, stack>>
        /\ disturbed' = TRUE
    BY <1>15 DEF Interfere
  <2>2. PICK k \in Slots, v \in {Nil, Other} :
          \/ own' = [own EXCEPT ![k] = v] /\ UNCHANGED backing
          \/ backing' = [backing EXCEPT ![k] = v] /\ UNCHANGED own
    BY <1>15 DEF Interfere
  <2>3. own' \in [Keys -> Values] /\ backing' \in [Keys -> Values]
    BY <1>0, <2>2 DEF Values
  <2>4. Typed'
    BY <1>0, <2>1, <2>3 DEF Typed
  <2> QED
    BY <2>1, <2>4, OnlyEntries
<1>16. CASE UNCHANGED vars
  BY <1>16 DEF vars, table, frame, CallInv, Typed, BeginInv, WorkInv, StackInv, PackInv,
    ResultCount, ShiftsCharged, Shape, Height, access, InBatch, Index, First, Given
<1> QED
  BY <1>1, <1>2, <1>3, <1>4, <1>5, <1>6, <1>7, <1>8, <1>9, <1>10, <1>11, <1>12, <1>13, <1>14,
     <1>15, <1>16
  DEF Next, Ended

\* The invariant holds throughout.
LEMMA CallAlways == Spec => []CallInv
  BY CallBegins, CallSteps, PTL DEF Spec

-----------------------------------------------------------------------------
(* What a call promises, whatever the metamethods return and other code does. *)

\* Every access is to an integer key, the counters stay within their range, and
\* the values on the stack are values, in every state of every call.
THEOREM LibraryTyped == Spec => []TypeOK
<1>1. CallInv => TypeOK
  <2> SUFFICES ASSUME Typed PROVE TypeOK
    BY DEF CallInv
  <2>1. \A i \in DOMAIN plan : plan[i].key \in Keys /\ plan[i].bottom \in 0..MAX
    <3>1. \A i \in DOMAIN plan : plan[i] \in Access
      BY DEF Typed
    <3> QED
      BY <3>1 DEF Access
  <2>2. \A i \in DOMAIN stack : stack[i] \in Keys \cup Values \cup {Tab}
    BY DEF Typed, Stacked
  <2> QED
    BY <2>1, <2>2 DEF TypeOK, Typed
<1> QED
  BY <1>1, CallAlways, PTL

\* index_helper, index_set_helper and Unpack hand each metamethod exactly its
\* arguments, and the call returns exactly as many values as it should, for
\* every length of the table and every number of values metamethods return.
THEOREM StackDiscipline == Spec => []StackExact
<1>1. CallInv => StackExact
  <2> SUFFICES ASSUME CallInv, pc = "await" PROVE ArgumentsExact
    BY DEF CallInv, StackExact, ArgumentsExact
  <2> DEFINE b == access.bottom
             m == Len(stack)
             args == SubSeq(stack, b + 1, m)
  <2>1. plan # << >>
    BY DEF CallInv, WorkInv, PackInv
  <2>2. b \in Nat /\ access.kind \in {"get", "set"} /\ stack \in Seq(Stacked)
    BY <2>1, AtAccess, LibraryAssumption DEF CallInv, Typed
  <2>3. /\ m = b + (IF access.kind = "get" THEN 2 ELSE 3)
        /\ stack[b + 1] = Tab /\ stack[b + 2] = access.key
    BY DEF CallInv, StackInv
  <2> HIDE DEF b
  <2>4. /\ Len(args) = IF access.kind = "get" THEN 2 ELSE 3
        /\ args[1] = stack[b + 1] /\ args[2] = stack[b + 2]
    <3>1. CASE access.kind = "get"
      BY <2>2, <2>3, <3>1
    <3>2. CASE access.kind = "set"
      BY <2>2, <2>3, <3>2
    <3> QED
      BY <2>2, <3>1, <3>2
  <2> QED
    BY <2>3, <2>4 DEF ArgumentsExact, b
<1> QED
  BY <1>1, CallAlways, PTL

\* FUEL_PER_SHIFTED_ITEM: on the fast path and in the fallback alike, a call that
\* returns has consumed fuel for exactly the elements it shifted.
THEOREM FuelForShifts == Spec => []ShiftsCharged
<1>1. CallInv => ShiftsCharged
  BY DEF CallInv
<1> QED
  BY <1>1, CallAlways, PTL

-----------------------------------------------------------------------------
(* The entries under the accesses of a removal and of an insertion. *)

\* f of the elements above i are moved, of n; the entries were s.
RemoveRange(s, i, n, f) == s \in [Keys -> Values] /\ n \in 1..MAX /\ i \in 1..n /\ f \in 0..(n - i)
InsertRange(s, i, n, f) ==
  s \in [Keys -> Values] /\ n \in 0..(MAX - 1) /\ i \in 1..(n + 1) /\ f \in 0..(n + 1 - i)

\* Nothing is moved yet.
LEMMA RemoveMap0 ==
  ASSUME NEW s, NEW n, NEW i, NEW f, RemoveRange(s, i, n, f)
  PROVE  RemoveMap(s, i, n, 0, FALSE) = s
<1>1. ASSUME NEW k \in Keys PROVE k \notin i..(i + 0 - 1)
  BY LibraryAssumption DEF Keys, RemoveRange
<1> QED
  BY <1>1 DEF RemoveMap, RemoveRange

\* The entries of a removal, access by access.
LEMMA RemoveMoves ==
  ASSUME NEW s, NEW n, NEW i, NEW f, RemoveRange(s, i, n, f), f < n - i
  PROVE   /\ RemoveMap(s, i, n, f, FALSE)[i + f + 1] = s[i + f + 1]
         /\ Put(RemoveMap(s, i, n, f, FALSE), i + f, s[i + f + 1])
            = RemoveMap(s, i, n, f + 1, FALSE)
<1> USE DEF RemoveRange
<1>0. MAX \in Nat /\ Keys \subseteq Int /\ 1..MAX \subseteq Keys /\ n \in Int /\ i \in Int /\ f \in Int
  BY LibraryAssumption DEF Keys
<1>1. i + f \in Keys /\ i + f + 1 \in Keys /\ i + f + 1 \notin i..(i + f - 1)
  BY <1>0 DEF Keys
<1>2. ASSUME NEW k \in Keys PROVE k \in i..(i + (f + 1) - 1) <=> (k \in i..(i + f - 1) \/ k = i + f)
  BY <1>0
<1>3. RemoveMap(s, i, n, f, FALSE)[i + f + 1] = s[i + f + 1]
  BY <1>1 DEF RemoveMap, Put
<1>4. ASSUME NEW k \in Keys
      PROVE  Put(RemoveMap(s, i, n, f, FALSE), i + f, s[i + f + 1])[k]
             = RemoveMap(s, i, n, f + 1, FALSE)[k]
  BY <1>1, <1>2 DEF RemoveMap, Put
<1>5. Put(RemoveMap(s, i, n, f, FALSE), i + f, s[i + f + 1])
      = RemoveMap(s, i, n, f + 1, FALSE)
  BY <1>4 DEF RemoveMap, Put
<1> QED
  BY <1>3, <1>5

\* The last access of it.
LEMMA RemoveLast ==
  ASSUME NEW s, NEW n, NEW i, NEW f, RemoveRange(s, i, n, f), f = n - i
  PROVE  Put(RemoveMap(s, i, n, f, FALSE), n, Nil) = RemoveMap(s, i, n, f, TRUE)
<1> USE DEF RemoveRange
<1>0. MAX \in Nat /\ Keys \subseteq Int /\ 1..MAX \subseteq Keys /\ n \in Int /\ i \in Int /\ f \in Int
  BY LibraryAssumption DEF Keys
<1>1. n \in Keys /\ n \notin i..(i + f - 1)
  BY <1>0
<1> QED
  BY <1>1 DEF RemoveMap, Put

\* No element but the one removed is missing meanwhile.
LEMMA RemoveKeeps ==
  ASSUME NEW s, NEW n, NEW i, NEW f, RemoveRange(s, i, n, f),
         NEW cleared \in BOOLEAN, cleared => f = n - i, NEW k \in 1..n, k # i
  PROVE  \E j \in Keys : RemoveMap(s, i, n, f, cleared)[j] = s[k]
<1> USE DEF RemoveRange
<1>0. MAX \in Nat /\ Keys \subseteq Int /\ 1..MAX \subseteq Keys /\ n \in Int /\ i \in Int /\ f \in Int
  BY LibraryAssumption DEF Keys
<1>1. CASE k \in (i + 1)..(i + f)
  <2>1. k - 1 \in Keys /\ k - 1 \in i..(i + f - 1) /\ (k - 1) + 1 = k
    BY <1>0, <1>1
  <2>2. RemoveMap(s, i, n, f, cleared)[k - 1] = s[k]
    BY <2>1 DEF RemoveMap
  <2> QED
    BY <2>1, <2>2
<1>2. CASE k \notin (i + 1)..(i + f)
  <2>1. k \in Keys /\ k \notin i..(i + f - 1) /\ ~(k = n /\ cleared)
    BY <1>0, <1>2
  <2> QED
    BY <2>1 DEF RemoveMap, Put
<1> QED
  BY <1>1, <1>2

\* Nothing is moved yet.
LEMMA InsertMap0 ==
  ASSUME NEW s, NEW n, NEW i, NEW f, InsertRange(s, i, n, f)
  PROVE  InsertMap(s, i, n, 0, FALSE) = s
<1>1. ASSUME NEW k \in Keys PROVE k \notin (n + 2 - 0)..(n + 1)
  BY LibraryAssumption DEF Keys, InsertRange
<1> QED
  BY <1>1 DEF InsertMap, InsertRange

\* The entries of an insertion, access by access.
LEMMA InsertMoves ==
  ASSUME NEW s, NEW n, NEW i, NEW f, InsertRange(s, i, n, f), f < n + 1 - i
  PROVE   /\ InsertMap(s, i, n, f, FALSE)[n - f] = s[n - f]
         /\ Put(InsertMap(s, i, n, f, FALSE), n + 1 - f, s[n - f])
            = InsertMap(s, i, n, f + 1, FALSE)
<1> USE DEF InsertRange
<1>0. MAX \in Nat /\ Keys \subseteq Int /\ 1..MAX \subseteq Keys /\ n \in Int /\ i \in Int /\ f \in Int
  BY LibraryAssumption DEF Keys
<1>1. /\ n - f \in Keys /\ n + 1 - f \in Keys /\ n - f \notin (n + 2 - f)..(n + 1)
      /\ (n + 1 - f) - 1 = n - f
  BY <1>0 DEF Keys
<1>2. ASSUME NEW k \in Keys
      PROVE  k \in (n + 2 - (f + 1))..(n + 1) <=> (k \in (n + 2 - f)..(n + 1) \/ k = n + 1 - f)
  BY <1>0
<1>3. InsertMap(s, i, n, f, FALSE)[n - f] = s[n - f]
  BY <1>1 DEF InsertMap, Put
<1>4. ASSUME NEW k \in Keys
      PROVE  Put(InsertMap(s, i, n, f, FALSE), n + 1 - f, s[n - f])[k]
             = InsertMap(s, i, n, f + 1, FALSE)[k]
  BY <1>1, <1>2 DEF InsertMap, Put
<1>5. Put(InsertMap(s, i, n, f, FALSE), n + 1 - f, s[n - f])
      = InsertMap(s, i, n, f + 1, FALSE)
  BY <1>4 DEF InsertMap, Put
<1> QED
  BY <1>3, <1>5

\* The last access of it.
LEMMA InsertLast ==
  ASSUME NEW s, NEW n, NEW i, NEW f, InsertRange(s, i, n, f), f = n + 1 - i
  PROVE  Put(InsertMap(s, i, n, f, FALSE), i, New) = InsertMap(s, i, n, f, TRUE)
<1> USE DEF InsertRange
<1>0. MAX \in Nat /\ Keys \subseteq Int /\ 1..MAX \subseteq Keys /\ n \in Int /\ i \in Int /\ f \in Int
  BY LibraryAssumption DEF Keys
<1>1. i \in Keys /\ i \notin (n + 2 - f)..(n + 1)
  BY <1>0
<1> QED
  BY <1>1 DEF InsertMap, Put

\* No element is missing while they are moved up.
LEMMA InsertKeeps ==
  ASSUME NEW s, NEW n, NEW i, NEW f, InsertRange(s, i, n, f),
         NEW put \in BOOLEAN, put => f = n + 1 - i, NEW k \in 1..n
  PROVE  \E j \in Keys : InsertMap(s, i, n, f, put)[j] = s[k]
<1> USE DEF InsertRange
<1>0. MAX \in Nat /\ Keys \subseteq Int /\ 1..MAX \subseteq Keys /\ n \in Int /\ i \in Int /\ f \in Int
  BY LibraryAssumption DEF Keys
<1>1. CASE k \in (n + 1 - f)..n
  <2>1. k + 1 \in Keys /\ k + 1 \in (n + 2 - f)..(n + 1) /\ (k + 1) - 1 = k
    BY <1>0, <1>1
  <2>2. InsertMap(s, i, n, f, put)[k + 1] = s[k]
    BY <2>1 DEF InsertMap
  <2> QED
    BY <2>1, <2>2
<1>2. CASE k \notin (n + 1 - f)..n
  <2>1. k \in Keys /\ k \notin (n + 2 - f)..(n + 1) /\ ~(k = i /\ put)
    BY <1>0, <1>2
  <2> QED
    BY <2>1 DEF InsertMap, Put
<1> QED
  BY <1>1, <1>2

-----------------------------------------------------------------------------
(* What the table holds, step by step. *)

\* A read finds the entry, wherever it is kept.
LEMMA ReadsEntry ==
  ASSUME CallInv, Coherent, PlacesInv, GetHere \/ GetAnswered
  PROVE  /\ Entries' = Entries /\ PlacesInv'
         /\ stack'[access.bottom + 1] = Entries[access.key]
<1>1. UNCHANGED <<own, backing, meta>> /\ pc' = "run"
  BY DEF GetHere, GetAnswered, AccessFrame, Advance
<1>2. /\ plan # << >> /\ access.kind = "get" /\ pc \in {"run", "await"}
      /\ \/ /\ own[access.key] # Nil \/ meta.index = "none"
            /\ stack'[access.bottom + 1] = own[access.key]
         \/ pc = "await" /\ stack'[access.bottom + 1] = backing[access.key]
  BY Reads
<1>3. access.key \in Keys
  BY <1>2, AtAccess
<1>4. stack'[access.bottom + 1] = Entry(own, backing, access.key)
  BY <1>2, <1>3 DEF PlacesInv, Entry
<1> QED
  BY <1>1, <1>3, <1>4 DEF Entries, PlacesInv

\* A write changes the entry it is to change and no other, wherever it is kept.
LEMMA WritesPlaces ==
  ASSUME CallInv, Coherent, PlacesInv, plan # << >>, access.kind = "set", access.key \in Keys,
         NEW v \in Values,
         \/ /\ own[access.key] # Nil \/ meta.newindex = "none"
            /\ own' = [own EXCEPT ![access.key] = v] /\ backing' = backing
         \/ /\ pc = "await"
            /\ backing' = [backing EXCEPT ![access.key] = v] /\ own' = own
  PROVE  /\ Entries' = Put(Entries, access.key, v)
         /\ \A k \in Keys : own'[k] # Nil => backing'[k] = Nil
         /\ meta.index = "none" => \A k \in Keys : backing'[k] = Nil
<1>1. own \in [Keys -> Values] /\ backing \in [Keys -> Values]
  BY DEF CallInv, Typed
<1> DEFINE key == access.key
<1>2. /\ \A k \in Keys : own[k] # Nil => backing[k] = Nil
      /\ meta.index = "none" => \A k \in Keys : backing[k] = Nil
      /\ (meta.index = "none") <=> (meta.newindex = "none")
      /\ pc = "await" => own[key] = Nil /\ meta.newindex # "none"
  BY DEF PlacesInv, Coherent, MetaOf
<1>3. key \in Keys
  OBVIOUS
<1> HIDE DEF key
<1>4. CASE /\ own[key] # Nil \/ meta.newindex = "none"
           /\ own' = [own EXCEPT ![key] = v] /\ backing' = backing
  <2>1. backing[key] = Nil
    BY <1>2, <1>3, <1>4
  <2>2. \A k \in Keys : own'[k] = IF k = key THEN v ELSE own[k]
    BY <1>1, <1>4
  <2>3. \A k \in Keys : Entry(own', backing', k) = IF k = key THEN v ELSE Entry(own, backing, k)
    BY <1>4, <2>1, <2>2 DEF Entry
  <2>4. Entries' = Put(Entries, key, v)
    BY <1>3, <2>3 DEF Entries, Put
  <2>5. \A k \in Keys : own'[k] # Nil => backing'[k] = Nil
    BY <1>2, <1>4, <2>1, <2>2
  <2> QED
    BY <1>2, <1>4, <2>4, <2>5 DEF key
<1>5. CASE pc = "await" /\ backing' = [backing EXCEPT ![key] = v] /\ own' = own
  <2>1. own[key] = Nil /\ meta.index # "none"
    BY <1>2, <1>5
  <2>2. \A k \in Keys : backing'[k] = IF k = key THEN v ELSE backing[k]
    BY <1>1, <1>5
  <2>3. \A k \in Keys : Entry(own', backing', k) = IF k = key THEN v ELSE Entry(own, backing, k)
    BY <1>5, <2>1, <2>2 DEF Entry
  <2>4. Entries' = Put(Entries, key, v)
    BY <1>3, <2>3 DEF Entries, Put
  <2>5. \A k \in Keys : own'[k] # Nil => backing'[k] = Nil
    BY <1>2, <1>5, <2>1, <2>2
  <2> QED
    BY <2>1, <2>4, <2>5 DEF key
<1> QED
  BY <1>4, <1>5 DEF key

\* A write that is over.
LEMMA WritesEntry ==
  ASSUME CallInv, Coherent, PlacesInv, SetHere \/ SetAnswered
  PROVE  Entries' = Put(Entries, access.key, ToAssign) /\ PlacesInv'
<1>1. UNCHANGED meta /\ pc' = "run"
  BY DEF SetHere, SetAnswered, AccessFrame, Advance
<1>2. /\ plan # << >> /\ access.kind = "set" /\ pc \in {"run", "await"} /\ ToAssign \in Values
      /\ \/ /\ own[access.key] # Nil \/ meta.newindex = "none"
            /\ own' = [own EXCEPT ![access.key] = ToAssign] /\ backing' = backing
         \/ /\ pc = "await"
            /\ backing' = [backing EXCEPT ![access.key] = ToAssign] /\ own' = own
  BY Writes
<1>3. access.key \in Keys
  BY <1>2, AtAccess
<1>4. /\ Entries' = Put(Entries, access.key, ToAssign)
      /\ \A k \in Keys : own'[k] # Nil => backing'[k] = Nil
      /\ meta.index = "none" => \A k \in Keys : backing'[k] = Nil
  BY <1>2, <1>3, WritesPlaces
<1> QED
  BY <1>1, <1>4 DEF PlacesInv

\* What a call that is not over has to assign.
LEMMA AssignsGiven ==
  ASSUME CallInv, pc \in {"run", "await"}, plan # << >>, access.kind = "set", ~access.moves
  PROVE  ToAssign = access.val
  BY DEF CallInv, StackInv, ToAssign

\* Two accesses of a removal that follow one another.
LEMMA RemoveNext ==
  ASSUME NEW p \in Seq(Access), NEW i \in Int, NEW n \in Int, NEW f \in Int, n <= MAX,
         RemoveShape(p, i, n, f), p # << >>
  PROVE  LET q == Tail(p)
             g == Charged(f, Head(p)) IN
         \/ /\ Head(p) = Get(i, 0) /\ f = 0 /\ g = 0
            /\ q # << >> /\ ~Head(q).moves
         \/ /\ Head(p) = Get(i + f + 1, 1) /\ f < n - i /\ g = f /\ Len(p) < 2 * (n - i) + 2
            /\ q # << >> /\ Head(q) = Move(i + f, 1)
         \/ /\ Head(p) = Set(n, Nil, 1) /\ f = n - i /\ g = f /\ Len(p) < 2 * (n - i) + 2
            /\ q = << >>
         \/ /\ Head(p) = Move(i + f, 1) /\ f < n - i /\ g = f + 1 /\ Len(p) < 2 * (n - i) + 2
            /\ q # << >> /\ ~Head(q).moves
<1> DEFINE r == Len(p)
           q == Tail(p)
           g == Charged(f, Head(p))
           d == 2 * (n - i) + 2 - r
           e == 2 * (n - i) + 2 - Len(q)
<1>1. i \in 1..n /\ f \in 0..(n - i)
  BY DEF RemoveShape
<1>2. /\ q \in Seq(Access) /\ Len(q) = r - 1 /\ r \in Nat /\ r > 0
      /\ q # << >> <=> r > 1
  BY LeftTail
<1>3. \/ d = 0 /\ f = 0 /\ Head(p) = Get(i, 0)
      \/ d = 2 * f + 1 /\ f < n - i /\ Head(p) = Get(i + f + 1, 1)
      \/ d = 2 * f + 1 /\ f = n - i /\ r = 1 /\ Head(p) = Set(n, Nil, 1)
      \/ d = 2 * f + 2 /\ f < n - i /\ Head(p) = Move(i + f, 1)
  BY RemoveAccess
<1>4. RemoveShape(q, i, n, g)
  BY RemoveAdvance
<1> HIDE DEF r, q
<1>5. /\ Charged(f, Get(i, 0)) = f + 0 /\ Charged(f, Get(i + f + 1, 1)) = f + 0
      /\ Charged(f, Set(n, Nil, 1)) = f + 0 /\ Charged(f, Move(i + f, 1)) = f + 1
  BY DEF Get, Set, Move, Charged
<1>6. /\ d = 0 => r < 2 * (n - i) + 3 /\ r > 1
      /\ d = 2 * f + 1 => r < 2 * (n - i) + 2 /\ (f < n - i => r > 1)
      /\ d = 2 * f + 2 => r < 2 * (n - i) + 2 /\ (f < n - i => r > 1)
      /\ f + 0 = f /\ e = d + 1
  BY <1>1, <1>2
<1>7. g \in Int
  BY <1>1, <1>3, <1>5, <1>6
<1>8. q # << >> =>
      \/ e = 0 /\ g = 0 /\ Head(q) = Get(i, 0)
      \/ e = 2 * g + 1 /\ g < n - i /\ Head(q) = Get(i + g + 1, 1)
      \/ e = 2 * g + 1 /\ g = n - i /\ Len(q) = 1 /\ Head(q) = Set(n, Nil, 1)
      \/ e = 2 * g + 2 /\ g < n - i /\ Head(q) = Move(i + g, 1)
  <2> HIDE DEF g
  <2> QED
    BY <1>2, <1>4, <1>7, RemoveAccess, SMTT(30)
<1>9. ~Get(i, 0).moves /\ ~Get(i + g + 1, 1).moves /\ ~Set(n, Nil, 1).moves
  BY DEF Get, Set
<1> HIDE DEF d, e, g
<1> SUFFICES
         \/ /\ Head(p) = Get(i, 0) /\ f = 0 /\ g = 0
            /\ q # << >> /\ ~Head(q).moves
         \/ /\ Head(p) = Get(i + f + 1, 1) /\ f < n - i /\ g = f /\ r < 2 * (n - i) + 2
            /\ q # << >> /\ Head(q) = Move(i + f, 1)
         \/ /\ Head(p) = Set(n, Nil, 1) /\ f = n - i /\ g = f /\ r < 2 * (n - i) + 2
            /\ q = << >>
         \/ /\ Head(p) = Move(i + f, 1) /\ f < n - i /\ g = f + 1 /\ r < 2 * (n - i) + 2
            /\ q # << >> /\ ~Head(q).moves
  BY DEF r, q, g
<1>10. CASE d = 0 /\ f = 0 /\ Head(p) = Get(i, 0)
  <2>1. g = 0 /\ q # << >> /\ e = 1
    BY <1>2, <1>5, <1>6, <1>10 DEF g
  <2>2. ~Head(q).moves
    BY <1>8, <1>9, <2>1
  <2> QED
    BY <1>10, <2>1, <2>2
<1>11. CASE d = 2 * f + 1 /\ f < n - i /\ Head(p) = Get(i + f + 1, 1)
  <2>1. g = f /\ q # << >> /\ e = 2 * f + 2 /\ r < 2 * (n - i) + 2
    BY <1>1, <1>2, <1>5, <1>6, <1>11 DEF g
  <2>2. Head(q) = Move(i + f, 1)
    BY <1>1, <1>8, <2>1
  <2> QED
    BY <1>11, <2>1, <2>2
<1>12. CASE d = 2 * f + 1 /\ f = n - i /\ r = 1 /\ Head(p) = Set(n, Nil, 1)
  <2>1. g = f /\ q = << >> /\ r < 2 * (n - i) + 2
    BY <1>2, <1>5, <1>6, <1>12 DEF g
  <2> QED
    BY <1>12, <2>1
<1>13. CASE d = 2 * f + 2 /\ f < n - i /\ Head(p) = Move(i + f, 1)
  <2>1. g = f + 1 /\ q # << >> /\ e = 2 * g + 1 /\ r < 2 * (n - i) + 2
    BY <1>1, <1>2, <1>5, <1>6, <1>13 DEF g
  <2>2. ~Head(q).moves
    BY <1>1, <1>7, <1>8, <1>9, <2>1
  <2> QED
    BY <1>13, <2>1, <2>2
<1> QED
  BY <1>3, <1>10, <1>11, <1>12, <1>13

\* Two accesses of an insertion that follow one another.
LEMMA InsertNext ==
  ASSUME NEW p \in Seq(Access), NEW i \in Int, NEW n \in Int, NEW f \in Int,
         InsertShape(p, i, n, f), p # << >>
  PROVE  LET q == Tail(p)
             g == Charged(f, Head(p)) IN
         \/ /\ Head(p) = Get(n - f, 0) /\ f < n + 1 - i /\ g = f
            /\ q # << >> /\ Head(q) = Move(n + 1 - f, 0)
         \/ /\ Head(p) = Set(i, New, 0) /\ f = n + 1 - i /\ g = f
            /\ q = << >>
         \/ /\ Head(p) = Move(n + 1 - f, 0) /\ f < n + 1 - i /\ g = f + 1
            /\ q # << >> /\ ~Head(q).moves
<1> DEFINE r == Len(p)
           q == Tail(p)
           g == Charged(f, Head(p))
           d == 2 * (n + 1 - i) + 1 - r
           e == 2 * (n + 1 - i) + 1 - Len(q)
<1>1. n < MAX /\ i \in 1..(n + 1) /\ f \in 0..(n + 1 - i)
  BY DEF InsertShape
<1>2. /\ q \in Seq(Access) /\ Len(q) = r - 1 /\ r \in Nat /\ r > 0
      /\ q # << >> <=> r > 1
  BY LeftTail
<1>3. \/ d = 2 * f /\ f < n + 1 - i /\ Head(p) = Get(n - f, 0)
      \/ d = 2 * f /\ f = n + 1 - i /\ r = 1 /\ Head(p) = Set(i, New, 0)
      \/ d = 2 * f + 1 /\ f < n + 1 - i /\ Head(p) = Move(n + 1 - f, 0)
  BY InsertAccess
<1>4. InsertShape(q, i, n, g)
  BY InsertAdvance
<1> HIDE DEF r, q
<1>5. /\ Charged(f, Get(n - f, 0)) = f + 0
      /\ Charged(f, Set(i, New, 0)) = f + 0 /\ Charged(f, Move(n + 1 - f, 0)) = f + 1
  BY DEF Get, Set, Move, Charged
<1>6. /\ d = 2 * f => (f < n + 1 - i => r > 1)
      /\ d = 2 * f + 1 => (f < n + 1 - i => r > 1)
      /\ f + 0 = f /\ e = d + 1
  BY <1>1, <1>2
<1>7. g \in Int
  BY <1>1, <1>3, <1>5, <1>6
<1>8. q # << >> =>
      \/ e = 2 * g /\ g < n + 1 - i /\ Head(q) = Get(n - g, 0)
      \/ e = 2 * g /\ g = n + 1 - i /\ Len(q) = 1 /\ Head(q) = Set(i, New, 0)
      \/ e = 2 * g + 1 /\ g < n + 1 - i /\ Head(q) = Move(n + 1 - g, 0)
  <2> HIDE DEF g
  <2> QED
    BY <1>2, <1>4, <1>7, InsertAccess
<1>9. ~Get(n - g, 0).moves /\ ~Set(i, New, 0).moves
  BY DEF Get, Set
<1> HIDE DEF d, e, g
<1> SUFFICES
         \/ /\ Head(p) = Get(n - f, 0) /\ f < n + 1 - i /\ g = f
            /\ q # << >> /\ Head(q) = Move(n + 1 - f, 0)
         \/ /\ Head(p) = Set(i, New, 0) /\ f = n + 1 - i /\ g = f
            /\ q = << >>
         \/ /\ Head(p) = Move(n + 1 - f, 0) /\ f < n + 1 - i /\ g = f + 1
            /\ q # << >> /\ ~Head(q).moves
  BY DEF r, q, g
<1>11. CASE d = 2 * f /\ f < n + 1 - i /\ Head(p) = Get(n - f, 0)
  <2>1. g = f /\ q # << >> /\ e = 2 * f + 1
    BY <1>1, <1>2, <1>5, <1>6, <1>11 DEF g
  <2>2. Head(q) = Move(n + 1 - f, 0)
    BY <1>1, <1>8, <2>1
  <2> QED
    BY <1>11, <2>1, <2>2
<1>12. CASE d = 2 * f /\ f = n + 1 - i /\ r = 1 /\ Head(p) = Set(i, New, 0)
  <2>1. g = f /\ q = << >>
    BY <1>2, <1>5, <1>6, <1>12 DEF g
  <2> QED
    BY <1>12, <2>1
<1>13. CASE d = 2 * f + 1 /\ f < n + 1 - i /\ Head(p) = Move(n + 1 - f, 0)
  <2>1. g = f + 1 /\ q # << >> /\ e = 2 * g
    BY <1>1, <1>2, <1>5, <1>6, <1>13 DEF g
  <2>2. ~Head(q).moves
    BY <1>1, <1>7, <1>8, <1>9, <2>1
  <2> QED
    BY <1>13, <2>1, <2>2
<1> QED
  BY <1>3, <1>11, <1>12, <1>13

\* An access is made, here or by a metamethod.
Accessed == GetHere \/ GetAnswered \/ SetHere \/ SetAnswered

\* What an access does besides reading or writing.
LEMMA AccessMade ==
  ASSUME CallInv, Accessed
  PROVE  /\ plan # << >> /\ plan \in Seq(Access) /\ plan' = Tail(plan) /\ pc' = "run"
         /\ pc \in {"run", "await"} /\ call.op # "pack"
         /\ fuel_used' = Charged(fuel_used, access)
         /\ UNCHANGED <<call, length, start, meta, disturbed, Index, First>>
         /\ Shape /\ Index \in Int /\ First \in Keys /\ length \in Int /\ length \in Keys
         /\ length <= MAX /\ fuel_used \in Int
         /\ access.kind = "get" => GetHere \/ GetAnswered
         /\ access.kind = "set" => SetHere \/ SetAnswered
<1>1. /\ Advance /\ Charge /\ AccessFrame /\ plan # << >> /\ pc \in {"run", "await"}
      /\ access.kind = "get" => GetHere \/ GetAnswered
      /\ access.kind = "set" => SetHere \/ SetAnswered
  <2>1. CASE GetHere \/ GetAnswered
    BY <2>1, Reads DEF GetHere, GetAnswered
  <2>2. CASE SetHere \/ SetAnswered
    BY <2>2, Writes DEF SetHere, SetAnswered
  <2> QED
    BY <2>1, <2>2 DEF Accessed
<1>2. UNCHANGED <<call, length, start, meta, disturbed>> /\ plan' = Tail(plan) /\ pc' = "run"
  BY <1>1 DEF AccessFrame, Advance
<1>3. UNCHANGED <<Index, First>>
  BY <1>2 DEF Index, First, Given
<1>4. fuel_used' = Charged(fuel_used, access)
  BY <1>1 DEF Charge, Charged
<1>5. /\ Shape /\ Index \in Int /\ First \in Keys /\ length \in Int /\ fuel_used \in 0..MAX
      /\ call.op # "pack"
  BY <1>1, AtAccess
<1>6. plan \in Seq(Access) /\ length \in Keys
  BY DEF CallInv, Typed
<1>7. length <= MAX /\ fuel_used \in Int
  BY <1>5, <1>6, LibraryAssumption DEF Keys
<1> QED
  BY <1>1, <1>2, <1>3, <1>4, <1>5, <1>6, <1>7

\* A removal that goes on as it should.
LEMMA RemoveDataStep ==
  ASSUME CallInv, start \in [Keys -> Values], Coherent, PlacesInv, Accessed,
         call.op = "remove", RemoveData
  PROVE  RemoveData'
<1> DEFINE i == Index
           n == length
           f == fuel_used
<1>1. /\ plan # << >> /\ plan \in Seq(Access) /\ plan' = Tail(plan) /\ pc' = "run"
      /\ pc \in {"run", "await"}
      /\ f' = Charged(f, access) /\ i' = i /\ n' = n /\ start' = start
      /\ i \in Int /\ n \in Int /\ f \in Int /\ n <= MAX
      /\ access.kind = "get" => GetHere \/ GetAnswered
      /\ access.kind = "set" => SetHere \/ SetAnswered
  BY AccessMade
<1>2. RemoveShape(plan, i, n, f)
  BY AccessMade DEF Shape, ShapeOf
<1>3. n \in 1..MAX /\ i \in 1..n /\ f \in 0..(n - i) /\ i \in Keys
  BY <1>1, <1>2, LibraryAssumption DEF RemoveShape, Keys
<1>4. Entries = RemoveMap(start, i, n, f, FALSE)
  BY <1>1 DEF RemoveData
<1>5. \/ /\ access = Get(i, 0) /\ f = 0 /\ f' = 0
         /\ plan' # << >> /\ ~Head(plan').moves
      \/ /\ access = Get(i + f + 1, 1) /\ f < n - i /\ f' = f /\ Len(plan) < 2 * (n - i) + 2
         /\ plan' # << >> /\ Head(plan') = Move(i + f, 1)
      \/ /\ access = Set(n, Nil, 1) /\ f = n - i /\ f' = f /\ Len(plan) < 2 * (n - i) + 2
         /\ plan' = << >>
      \/ /\ access = Move(i + f, 1) /\ f < n - i /\ f' = f + 1 /\ Len(plan) < 2 * (n - i) + 2
         /\ plan' # << >> /\ ~Head(plan').moves
  BY <1>1, <1>2, RemoveNext, SMTT(30) DEF access
<1>6. Len(plan) < 2 * (n - i) + 2 => stack[1] = start[i]
  BY DEF RemoveData
<1>7. access.moves => ToAssign = start[i + f + 1]
  BY <1>1 DEF RemoveData
<1>8. /\ f = 0 => RemoveMap(start, i, n, f, FALSE) = start
      /\ f < n - i =>
           /\ RemoveMap(start, i, n, f, FALSE)[i + f + 1] = start[i + f + 1]
           /\ Put(RemoveMap(start, i, n, f, FALSE), i + f, start[i + f + 1])
              = RemoveMap(start, i, n, f + 1, FALSE)
      /\ f = n - i =>
           Put(RemoveMap(start, i, n, f, FALSE), n, Nil) = RemoveMap(start, i, n, f, TRUE)
  <2> HIDE DEF i, n, f
  <2>1. RemoveRange(start, i, n, f)
    BY <1>3 DEF RemoveRange
  <2>2. f = 0 => RemoveMap(start, i, n, f, FALSE) = start
    BY <2>1, RemoveMap0, Zenon
  <2>3. f < n - i =>
          /\ RemoveMap(start, i, n, f, FALSE)[i + f + 1] = start[i + f + 1]
          /\ Put(RemoveMap(start, i, n, f, FALSE), i + f, start[i + f + 1])
             = RemoveMap(start, i, n, f + 1, FALSE)
    BY <2>1, RemoveMoves, Zenon
  <2>4. f = n - i =>
          Put(RemoveMap(start, i, n, f, FALSE), n, Nil) = RemoveMap(start, i, n, f, TRUE)
    BY <2>1, RemoveLast, Zenon
  <2> QED
    BY <2>2, <2>3, <2>4
<1> SUFFICES /\ stack'[1] = start[i]
             /\ plan' # << >> /\ Head(plan').moves => ToAssign' = start[i + f' + 1]
             /\ plan' # << >> => Entries' = RemoveMap(start, i, n, f', FALSE)
             /\ plan' = << >> => Entries' = RemoveMap(start, i, n, f', TRUE)
  BY <1>1 DEF RemoveData, access
<1> HIDE DEF i, n, f
<1>9. CASE /\ access = Get(i, 0) /\ f = 0 /\ f' = 0
           /\ plan' # << >> /\ ~Head(plan').moves
  <2>1. access.kind = "get" /\ access.bottom = 0 /\ access.key = i
    BY <1>9 DEF Get
  <2>2. Entries' = Entries /\ stack'[0 + 1] = Entries[i]
    BY <1>1, <2>1, ReadsEntry
  <2>3. 0 + 1 = 1
    OBVIOUS
  <2> QED
    BY <1>4, <1>8, <1>9, <2>2, <2>3, Zenon
<1>10. CASE /\ access = Get(i + f + 1, 1) /\ f < n - i /\ f' = f /\ Len(plan) < 2 * (n - i) + 2
            /\ plan' # << >> /\ Head(plan') = Move(i + f, 1)
  <2>1. access.kind = "get" /\ access.bottom = 1 /\ access.key = i + f + 1
    BY <1>10 DEF Get
  <2>2. Entries' = Entries /\ stack'[1 + 1] = Entries[i + f + 1]
    BY <1>1, <2>1, ReadsEntry
  <2>3. stack'[1] = stack[1]
    BY <1>1, <2>1, Reads
  <2>4. ToAssign' = stack'[1 + 1]
    <3>1. access' = Move(i + f, 1)
      BY <1>10 DEF access
    <3>2. Move(i + f, 1).moves /\ Move(i + f, 1).bottom = 1
      BY DEF Move, Set
    <3> QED
      BY <1>1, <3>1, <3>2 DEF ToAssign
  <2> QED
    BY <1>4, <1>6, <1>8, <1>10, <2>2, <2>3, <2>4
<1>11. CASE /\ access = Set(n, Nil, 1) /\ f = n - i /\ f' = f /\ Len(plan) < 2 * (n - i) + 2
            /\ plan' = << >>
  <2>1. /\ access.kind = "set" /\ access.bottom = 1 /\ access.key = n /\ access.val = Nil
        /\ ~access.moves
    BY <1>11 DEF Set
  <2>2. Entries' = Put(Entries, n, ToAssign)
    BY <1>1, <2>1, WritesEntry
  <2>3. stack'[1] = stack[1]
    BY <1>1, <2>1, Writes
  <2>4. ToAssign = Nil
    BY <1>1, <2>1, AssignsGiven
  <2> QED
    BY <1>4, <1>6, <1>8, <1>11, <2>2, <2>3, <2>4
<1>12. CASE /\ access = Move(i + f, 1) /\ f < n - i /\ f' = f + 1 /\ Len(plan) < 2 * (n - i) + 2
            /\ plan' # << >> /\ ~Head(plan').moves
  <2>1. access.kind = "set" /\ access.bottom = 1 /\ access.key = i + f /\ access.moves
    BY <1>12 DEF Set, Move
  <2>2. Entries' = Put(Entries, i + f, ToAssign)
    BY <1>1, <2>1, WritesEntry
  <2>3. stack'[1] = stack[1]
    BY <1>1, <2>1, Writes
  <2> QED
    BY <1>4, <1>6, <1>7, <1>8, <1>12, <2>1, <2>2, <2>3
<1> QED
  BY <1>5, <1>9, <1>10, <1>11, <1>12

\* An insertion that goes on as it should.
LEMMA InsertDataStep ==
  ASSUME CallInv, start \in [Keys -> Values], Coherent, PlacesInv, Accessed,
         call.op = "insert", InsertData
  PROVE  InsertData'
<1> DEFINE i == Index
           n == length
           f == fuel_used
<1>1. /\ plan # << >> /\ plan \in Seq(Access) /\ plan' = Tail(plan) /\ pc' = "run"
      /\ pc \in {"run", "await"}
      /\ f' = Charged(f, access) /\ i' = i /\ n' = n /\ start' = start
      /\ i \in Int /\ n \in Int /\ f \in Int /\ n <= MAX
      /\ access.kind = "get" => GetHere \/ GetAnswered
      /\ access.kind = "set" => SetHere \/ SetAnswered
  BY AccessMade
<1>2. InsertShape(plan, i, n, f)
  BY AccessMade DEF Shape, ShapeOf
<1>3. InsertRange(start, i, n, f)
  BY <1>1, <1>2, LibraryAssumption DEF InsertShape, Keys, InsertRange
<1>4. Entries = InsertMap(start, i, n, f, FALSE)
  BY <1>1 DEF InsertData
<1>5. \/ /\ access = Get(n - f, 0) /\ f < n + 1 - i /\ f' = f
         /\ plan' # << >> /\ Head(plan') = Move(n + 1 - f, 0)
      \/ /\ access = Set(i, New, 0) /\ f = n + 1 - i /\ f' = f
         /\ plan' = << >>
      \/ /\ access = Move(n + 1 - f, 0) /\ f < n + 1 - i /\ f' = f + 1
         /\ plan' # << >> /\ ~Head(plan').moves
  BY <1>1, <1>2, InsertNext DEF access
<1>7. access.moves => ToAssign = start[n - f]
  BY <1>1 DEF InsertData
<1>8. /\ f < n + 1 - i =>
           /\ InsertMap(start, i, n, f, FALSE)[n - f] = start[n - f]
           /\ Put(InsertMap(start, i, n, f, FALSE), n + 1 - f, start[n - f])
              = InsertMap(start, i, n, f + 1, FALSE)
      /\ f = n + 1 - i =>
           Put(InsertMap(start, i, n, f, FALSE), i, New) = InsertMap(start, i, n, f, TRUE)
  <2> HIDE DEF i, n, f
  <2>3. f < n + 1 - i =>
          /\ InsertMap(start, i, n, f, FALSE)[n - f] = start[n - f]
          /\ Put(InsertMap(start, i, n, f, FALSE), n + 1 - f, start[n - f])
             = InsertMap(start, i, n, f + 1, FALSE)
    BY <1>3, InsertMoves, Zenon
  <2>4. f = n + 1 - i =>
          Put(InsertMap(start, i, n, f, FALSE), i, New) = InsertMap(start, i, n, f, TRUE)
    BY <1>3, InsertLast, Zenon
  <2> QED
    BY <2>3, <2>4
<1> SUFFICES /\ plan' # << >> /\ Head(plan').moves => ToAssign' = start[n - f']
             /\ plan' # << >> => Entries' = InsertMap(start, i, n, f', FALSE)
             /\ plan' = << >> => Entries' = InsertMap(start, i, n, f', TRUE)
  BY <1>1 DEF InsertData, access
<1> HIDE DEF i, n, f
<1>10. CASE /\ access = Get(n - f, 0) /\ f < n + 1 - i /\ f' = f
            /\ plan' # << >> /\ Head(plan') = Move(n + 1 - f, 0)
  <2>1. access.kind = "get" /\ access.bottom = 0 /\ access.key = n - f
    BY <1>10 DEF Get
  <2>2. Entries' = Entries /\ stack'[0 + 1] = Entries[n - f]
    BY <1>1, <2>1, ReadsEntry
  <2>4. ToAssign' = stack'[0 + 1]
    <3>1. access' = Move(n + 1 - f, 0)
      BY <1>10 DEF access
    <3>2. Move(n + 1 - f, 0).moves /\ Move(n + 1 - f, 0).bottom = 0
      BY DEF Move, Set
    <3> QED
      BY <1>1, <3>1, <3>2 DEF ToAssign
  <2> QED
    BY <1>4, <1>8, <1>10, <2>2, <2>4
<1>11. CASE /\ access = Set(i, New, 0) /\ f = n + 1 - i /\ f' = f
            /\ plan' = << >>
  <2>1. access.kind = "set" /\ access.key = i /\ access.val = New /\ ~access.moves
    BY <1>11 DEF Set
  <2>2. Entries' = Put(Entries, i, ToAssign)
    BY <1>1, <2>1, WritesEntry
  <2>4. ToAssign = New
    BY <1>1, <2>1, AssignsGiven
  <2> QED
    BY <1>4, <1>8, <1>11, <2>2, <2>4
<1>12. CASE /\ access = Move(n + 1 - f, 0) /\ f < n + 1 - i /\ f' = f + 1
            /\ plan' # << >> /\ ~Head(plan').moves
  <2>1. access.kind = "set" /\ access.key = n + 1 - f /\ access.moves
    BY <1>12 DEF Set, Move
  <2>2. Entries' = Put(Entries, n + 1 - f, ToAssign)
    BY <1>1, <2>1, WritesEntry
  <2> QED
    BY <1>4, <1>7, <1>8, <1>12, <2>1, <2>2
<1> QED
  BY <1>5, <1>10, <1>11, <1>12

\* unpack that goes on as it should.
LEMMA UnpackDataStep ==
  ASSUME CallInv, start \in [Keys -> Values], Coherent, PlacesInv, Accessed,
         call.op = "unpack", UnpackData
  PROVE  UnpackData'
<1> DEFINE n == length
           r == Len(plan)
<1>1. /\ plan # << >> /\ plan \in Seq(Access) /\ plan' = Tail(plan)
      /\ First' = First /\ n' = n /\ start' = start
      /\ First \in Keys /\ n \in Int /\ fuel_used \in Int
      /\ access.kind = "get" => GetHere \/ GetAnswered
  BY AccessMade
<1>2. UnpackShape(plan, First, n, fuel_used)
  BY AccessMade DEF Shape, ShapeOf
<1>3. access = Get(First + n - r, n - r)
  BY <1>1, <1>2, UnpackAccess DEF access
<1>4. /\ Len(plan') = r - 1 /\ r \in Nat /\ r > 0
  BY <1>1, LeftTail
<1>5. n \in 1..MAX /\ r <= n
  BY <1>2 DEF UnpackShape
<1>6. access.kind = "get" /\ access.bottom = n - r /\ access.key = First + n - r
  BY <1>3 DEF Get
<1>7. Entries' = Entries /\ stack'[n - r + 1] = Entries[First + n - r]
  BY <1>1, <1>6, ReadsEntry
<1>8. \A m \in 1..(n - r) : stack'[m] = stack[m]
  BY <1>1, <1>6, Reads
<1>9. Entries = start /\ \A m \in 1..(n - r) : stack[m] = start[First + m - 1]
  BY DEF UnpackData
<1> HIDE DEF n, r
<1>10. ASSUME NEW m \in 1..(n - (r - 1)) PROVE stack'[m] = start[First + m - 1]
  <2>1. CASE m \in 1..(n - r)
    BY <1>8, <1>9, <2>1
  <2>2. CASE m \notin 1..(n - r)
    <3>1. m = n - r + 1 /\ First + m - 1 = First + n - r
      BY <1>1, <1>4, <1>5, <2>2, LibraryAssumption DEF Keys
    <3> QED
      BY <1>7, <1>9, <3>1
  <2> QED
    BY <2>1, <2>2
<1> QED
  BY <1>1, <1>4, <1>7, <1>9, <1>10 DEF UnpackData, n

\* With nothing on the stack the next access does not assign from it.
LEMMA EmptyStack ==
  ASSUME CallInv', pc' = "run", call'.op # "pack", stack' = << >>, plan' # << >>
  PROVE  ~access'.moves
<1>1. plan' \in Seq(Access) /\ 0 = Height'
  BY DEF CallInv, Typed, StackInv
<1>2. access' \in Access
  BY <1>1, LeftTail DEF access
<1>3. 0 = Before(access')
  BY <1>1 DEF Height, HeightOf, access
<1>4. access'.moves \in BOOLEAN /\ access'.bottom \in 0..MAX
  BY <1>2 DEF Access
<1> QED
  BY <1>3, <1>4, LibraryAssumption DEF Before

\* What the three parts of the invariant say when a call goes on.
LEMMA DataGoesOn ==
  ASSUME pc' \in {"run", "await", "pending"}, call'.op # "pack",
         Undisturbed' => PlacesInv' /\ WorkData'
  PROVE  DataInv' /\ ResultCorrect' /\ ErrorLosesNothing'
  BY DEF DataInv, ResultCorrect, ErrorLosesNothing

\* The length is known: the call is over and correct, or it starts its accesses on
\* the entries as they were.
LEMMA StartsData ==
  ASSUME CallInv, CallInv', start \in [Keys -> Values], pc \in {"begin", "length", "await_len"},
         call.op # "pack", NEW len \in Keys, WithLength(len),
         call.op = "remove" => use_fallback \/ len # 0,
         Undisturbed => PlacesInv /\ Entries = start,
         UNCHANGED <<array_len, own, backing, meta, call, batch, fuel_used, start, disturbed>>
  PROVE  DataInv' /\ ResultCorrect' /\ ErrorLosesNothing'
<1>0. /\ Typed /\ Index \in Int /\ First \in Keys \ {MIN} /\ MAX \in Nat /\ MIN \in Int
      /\ Given => call.index \in Int
  BY CallFacts DEF CallInv
<1>1. /\ fuel_used' = 0 /\ call' = call /\ start' = start /\ First' = First
      /\ len \in Int /\ len <= MAX /\ MIN <= len /\ MIN < 0
      /\ Undisturbed' <=> Undisturbed
  BY LibraryAssumption DEF CallInv, BeginInv, Keys, First, Undisturbed, Coherent
<1>2. Entries' = Entries
  BY DEF Entries
<1>3. ASSUME pc' = "run", Undisturbed' PROVE PlacesInv'
  BY <1>1, <1>3 DEF PlacesInv
<1>4. ASSUME pc' = "done", Undisturbed' => ResultCorrect'
      PROVE  DataInv' /\ ResultCorrect' /\ ErrorLosesNothing'
  BY <1>1, <1>4 DEF DataInv, ResultCorrect, ErrorLosesNothing
<1>5. ASSUME pc' = "error", Undisturbed' => ResultCorrect'
      PROVE  DataInv' /\ ResultCorrect' /\ ErrorLosesNothing'
  BY <1>1, <1>5 DEF DataInv, ResultCorrect, ErrorLosesNothing
<1>6. ASSUME call.op = "remove", RemoveFrom(len) PROVE DataInv' /\ ResultCorrect' /\ ErrorLosesNothing'
  <2> DEFINE i == IF Given THEN call.index ELSE len
  <2>1. length' = len /\ i \in Int /\ Index' = i
    BY <1>0, <1>1, <1>6 DEF RemoveFrom, Index, Given
  <2>2. CASE i - 1 = len
    <3>1. pc' = "done" /\ stack' = <<Nil>>
      BY <1>6, <2>2 DEF RemoveFrom, Finish
    <3>2. Index' = length' + 1
      BY <1>1, <2>1, <2>2
    <3>3. Undisturbed' => ResultCorrect'
      BY <1>1, <1>2, <1>6, <3>1, <3>2 DEF ResultCorrect
    <3> QED
      BY <1>4, <3>1, <3>3
  <2>3. CASE i - 1 # len /\ i \in 1..len
    <3> DEFINE p == RemovePlan(i, len)
    <3>1. plan' = p /\ pc' = "run" /\ stack' = << >>
      BY <1>6, <2>3 DEF RemoveFrom, Run
    <3>2. p \in Seq(Access) /\ Len(p) = 2 * (len - i) + 2
      BY <1>1, <2>1, <2>3, RemovePlanAt
    <3>3. 2 * (len - i) + 2 \in Nat /\ 2 * (len - i) + 2 > 0
      BY <1>1, <2>1, <2>3
    <3> HIDE DEF p, i
    <3>4. p # << >>
      BY <3>2, <3>3
    <3>5. ~access'.moves
      BY <1>1, <1>6, <3>1, <3>4, EmptyStack
    <3>6. RemoveMap(start, i, len, 0, FALSE) = start
      <4>1. RemoveRange(start, i, len, 0)
        BY <1>1, <2>1, <2>3 DEF RemoveRange
      <4> QED
        BY <4>1, RemoveMap0, Zenon
    <3>7. ~(Len(plan') < 2 * (length' - Index') + 2)
      BY <2>1, <3>1, <3>2, <3>3
    <3>8. ASSUME Undisturbed' PROVE RemoveData'
      <4>1. Entries' = start
        BY <1>1, <1>2, <3>8
      <4> QED
        BY <1>1, <2>1, <3>1, <3>4, <3>5, <3>6, <3>7, <4>1 DEF RemoveData
    <3> QED
      BY <1>1, <1>3, <1>6, <3>1, <3>8, DataGoesOn DEF WorkData
  <2>4. CASE i - 1 # len /\ i \notin 1..len
    <3>1. pc' = "error"
      BY <1>6, <2>4 DEF RemoveFrom, Fail
    <3>2. Index' \notin 1..(length' + 1)
      BY <1>1, <2>1, <2>4
    <3>3. EmptyRemoval' => use_fallback'
      BY <1>6, <2>1 DEF EmptyRemoval, use_fallback
    <3>4. Undisturbed' => ResultCorrect'
      BY <1>1, <1>2, <1>6, <3>1, <3>2, <3>3 DEF ResultCorrect
    <3> QED
      BY <1>5, <3>1, <3>4
  <2> QED
    BY <2>2, <2>3, <2>4
<1>7. ASSUME call.op = "insert", InsertFrom(len) PROVE DataInv' /\ ResultCorrect' /\ ErrorLosesNothing'
  <2> DEFINE i == IF Given THEN call.index ELSE len + 1
  <2>1. length' = len /\ i \in Int /\ Index' = i
    BY <1>0, <1>1, <1>7 DEF InsertFrom, Index, Given
  <2>3. CASE len < MAX /\ i \in 1..(len + 1)
    <3> DEFINE p == InsertPlan(i, len)
    <3>1. plan' = p /\ pc' = "run" /\ stack' = << >>
      BY <1>7, <2>3 DEF InsertFrom, Run
    <3>2. p \in Seq(Access) /\ Len(p) = 2 * (len + 1 - i) + 1
      BY <1>1, <2>1, <2>3, InsertPlanAt
    <3>3. 2 * (len + 1 - i) + 1 \in Nat /\ 2 * (len + 1 - i) + 1 > 0
      BY <1>1, <2>1, <2>3
    <3> HIDE DEF p, i
    <3>4. p # << >>
      BY <3>2, <3>3
    <3>5. ~access'.moves
      BY <1>1, <1>7, <3>1, <3>4, EmptyStack
    <3>6. InsertMap(start, i, len, 0, FALSE) = start
      <4>1. InsertRange(start, i, len, 0)
        BY <1>0, <1>1, <2>1, <2>3 DEF InsertRange
      <4> QED
        BY <4>1, InsertMap0, Zenon
    <3>8. ASSUME Undisturbed' PROVE InsertData'
      <4>1. Entries' = start
        BY <1>1, <1>2, <3>8
      <4> QED
        BY <1>1, <2>1, <3>1, <3>4, <3>5, <3>6, <4>1 DEF InsertData
    <3> QED
      BY <1>1, <1>3, <1>7, <3>1, <3>8, DataGoesOn DEF WorkData
  <2>4. CASE ~(len < MAX /\ i \in 1..(len + 1))
    <3>1. pc' = "error"
      BY <1>7, <2>4 DEF InsertFrom, Fail
    <3>2. Index' \notin 1..(length' + 1) \/ length' = MAX
      BY <1>0, <1>1, <2>1, <2>4
    <3>3. Undisturbed' => ResultCorrect'
      BY <1>1, <1>2, <1>7, <3>1, <3>2 DEF ResultCorrect
    <3> QED
      BY <1>5, <3>1, <3>3
  <2> QED
    BY <2>3, <2>4
<1>8. ASSUME call.op = "unpack", UnpackTo(First, len) PROVE DataInv' /\ ResultCorrect' /\ ErrorLosesNothing'
  <2>2. CASE First > len
    <3>1. pc' = "done" /\ stack' = << >> /\ length' = 0
      BY <1>8, <2>2 DEF UnpackTo, Finish
    <3>2. << >> = [m \in 1..0 |-> start[First + m - 1]]
      OBVIOUS
    <3>3. Undisturbed' => ResultCorrect'
      BY <1>1, <1>2, <1>8, <3>1, <3>2 DEF ResultCorrect
    <3> QED
      BY <1>4, <3>1, <3>3
  <2>3. CASE ~(First > len) /\ Computable(First, len)
    <3> DEFINE n == len - First + 1
               p == UnpackPlan(First, n)
    <3>1. plan' = p /\ pc' = "run" /\ length' = n
      BY <1>8, <2>3 DEF UnpackTo, Run
    <3>2. First \in Int /\ n \in 1..MAX /\ n \in Keys /\ First + n - 1 = len
      BY <1>0, <1>1, <2>3 DEF Computable, Keys
    <3>3. Len(p) = n
      BY <1>0, <3>2, UnpackPlanAt
    <3> HIDE DEF p, n
    <3>4. length' - Len(plan') = 0
      BY <3>1, <3>2, <3>3
    <3>8. ASSUME Undisturbed' PROVE UnpackData'
      BY <1>1, <1>2, <3>4, <3>8 DEF UnpackData
    <3> QED
      BY <1>1, <1>3, <1>8, <3>1, <3>8, DataGoesOn DEF WorkData
  <2>4. CASE ~(First > len) /\ ~Computable(First, len)
    <3>1. pc' = "error"
      BY <1>8, <2>4 DEF UnpackTo, Fail
    <3>3. Undisturbed' => ResultCorrect'
      BY <1>1, <1>2, <1>8, <3>1 DEF ResultCorrect
    <3> QED
      BY <1>5, <3>1, <3>3
  <2> QED
    BY <2>2, <2>3, <2>4
<1> QED
  BY <1>6, <1>7, <1>8 DEF WithLength

\* A plain table holds its entries itself.
LEMMA PlainEntries ==
  ASSUME meta.index = "none", PlacesInv
  PROVE  \A k \in Keys : Entry(own, backing, k) = own[k] /\ backing[k] = Nil
  BY DEF PlacesInv, Entry

\* array_remove_shift agrees with the definition of a removal.
LEMMA ArrayRemovesData ==
  ASSUME CallInv, CallInv', start \in [Keys -> Values], pc = "begin", call.op = "remove",
         ~use_fallback, NEW n \in Borders(own), ArrayRemove(n),
         Undisturbed => PlacesInv /\ Entries = start,
         UNCHANGED <<array_len, backing, meta, call, batch, start, disturbed>>
  PROVE  DataInv' /\ ResultCorrect' /\ ErrorLosesNothing'
<1> DEFINE i == IF Given THEN call.index ELSE n
<1>0. /\ Typed /\ own \in [Keys -> Values] /\ own[MAX] = Nil
      /\ n \in 0..(MAX - 1) /\ n \in Keys /\ n \in Int /\ MAX \in Nat
  BY BorderRange, LibraryAssumption DEF CallInv, BeginInv, Typed
<1>1. i \in Int
  BY <1>0, CallFacts
<1>2. /\ length' = n => Index' = i
      /\ Undisturbed' <=> Undisturbed
  BY DEF Index, Given, Undisturbed, Coherent
<1>3. meta.index = "none"
  BY DEF use_fallback
<1>4. ASSUME Undisturbed
      PROVE  \A k \in Keys : start[k] = own[k] /\ backing[k] = Nil
  BY <1>3, <1>4, PlainEntries DEF Entries
<1>5. \/ /\ i = n + 1 \/ (i = 0 /\ n = 0)
         /\ Finish(<<Nil>>) /\ length' = n /\ own' = own
      \/ /\ i \in 1..n
         /\ Finish(<<own[i]>>) /\ length' = n
         /\ own' = RotateLeft([own EXCEPT ![i] = Nil], i, n)
      \/ i \in 1..n /\ RemoveFrom(n) /\ UNCHANGED <<own, fuel_used>>
      \/ /\ i \notin 1..(n + 1) /\ ~(i = 0 /\ n = 0)
         /\ Fail /\ length' = n /\ UNCHANGED <<own, fuel_used>>
  BY DEF ArrayRemove
<1> HIDE DEF i
<1>6. CASE /\ i = n + 1 \/ (i = 0 /\ n = 0)
           /\ Finish(<<Nil>>) /\ length' = n /\ own' = own
  <2>1. pc' = "done" /\ stack' = <<Nil>> /\ Entries' = Entries
    BY <1>6 DEF Finish, Entries
  <2>2. Undisturbed' => ResultCorrect'
    BY <1>2, <1>6, <2>1 DEF ResultCorrect, EmptyRemoval, use_fallback
  <2> QED
    BY <2>1, <2>2 DEF DataInv, ResultCorrect, ErrorLosesNothing
<1>7. CASE /\ i \in 1..n
           /\ Finish(<<own[i]>>) /\ length' = n
           /\ own' = RotateLeft([own EXCEPT ![i] = Nil], i, n)
  <2>1. pc' = "done" /\ stack' = <<own[i]>> /\ i \in Keys /\ Index' = i
    BY <1>0, <1>2, <1>7, LibraryAssumption DEF Finish, Keys
  <2>2. ASSUME Undisturbed PROVE Entries' = Removed(i, n)
    <3>1. ASSUME NEW k \in Keys
          PROVE  own'[k] = IF k = n THEN Nil ELSE IF k \in i..(n - 1) THEN start[k + 1] ELSE start[k]
      <4> DEFINE f == [own EXCEPT ![i] = Nil]
      <4>1. f[i] = Nil /\ \A j \in Keys : j # i => f[j] = own[j]
        BY <1>0, <2>1
      <4> HIDE DEF f
      <4>2. own'[k] = IF k = n THEN f[i] ELSE IF k \in i..(n - 1) THEN f[k + 1] ELSE f[k]
        BY <1>7 DEF RotateLeft, f
      <4>3. CASE k = n
        BY <4>1, <4>2, <4>3
      <4>4. CASE k # n /\ k \in i..(n - 1)
        <5>1. k + 1 \in Keys /\ k + 1 # i
          BY <1>0, <1>1, <4>4, LibraryAssumption DEF Keys
        <5> QED
          BY <1>4, <2>2, <4>1, <4>2, <4>4, <5>1
      <4>5. CASE k # n /\ k \notin i..(n - 1)
        <5>1. k # i
          BY <1>0, <1>7, <4>5
        <5> QED
          BY <1>4, <2>2, <4>1, <4>2, <4>5, <5>1
      <4> QED
        BY <4>3, <4>4, <4>5
    <3>2. \A k \in Keys : Entry(own', backing', k) = own'[k]
      BY <1>4, <2>2 DEF Entry
    <3> QED
      BY <3>1, <3>2 DEF Entries, Removed
  <2>4. ASSUME Undisturbed' PROVE ResultCorrect'
    <3>1. Entries' = Removed(Index, length)'
      BY <1>2, <1>7, <2>1, <2>2, <2>4 DEF Removed
    <3>2. stack' = <<start[i]>>
      BY <1>2, <1>4, <2>1, <2>4
    <3> QED
      BY <1>7, <2>1, <3>1, <3>2 DEF ResultCorrect
  <2> QED
    BY <2>1, <2>4 DEF DataInv, ResultCorrect, ErrorLosesNothing
<1>8. CASE i \in 1..n /\ RemoveFrom(n) /\ UNCHANGED <<own, fuel_used>>
  <2>1. n # 0
    BY <1>0, <1>8
  <2> QED
    BY <1>0, <1>8, <2>1, StartsData DEF WithLength
<1>9. CASE /\ i \notin 1..(n + 1) /\ ~(i = 0 /\ n = 0)
           /\ Fail /\ length' = n /\ UNCHANGED <<own, fuel_used>>
  <2>1. pc' = "error" /\ Entries' = Entries
    BY <1>9 DEF Fail, Entries
  <2>2. Undisturbed' => ResultCorrect'
    BY <1>2, <1>9, <2>1 DEF ResultCorrect, EmptyRemoval
  <2> QED
    BY <2>1, <2>2 DEF DataInv, ResultCorrect, ErrorLosesNothing
<1> QED
  BY <1>5, <1>6, <1>7, <1>8, <1>9

\* array_insert_shift agrees with the definition of an insertion.
LEMMA ArrayInsertsData ==
  ASSUME CallInv, CallInv', start \in [Keys -> Values], pc = "begin", call.op = "insert",
         ~use_fallback, NEW n \in Borders(own), ArrayInsert(n),
         Undisturbed => PlacesInv /\ Entries = start,
         UNCHANGED <<array_len, backing, meta, call, batch, start, disturbed>>
  PROVE  DataInv' /\ ResultCorrect' /\ ErrorLosesNothing'
<1> DEFINE i == IF Given THEN call.index ELSE n + 1
<1>0. /\ Typed /\ own \in [Keys -> Values] /\ own[MAX] = Nil
      /\ n \in 0..(MAX - 1) /\ n \in Keys /\ n \in Int /\ MAX \in Nat
  BY BorderRange, LibraryAssumption DEF CallInv, BeginInv, Typed
<1>1. i \in Int
  BY <1>0, CallFacts
<1>2. /\ length' = n => Index' = i
      /\ Undisturbed' <=> Undisturbed
  BY DEF Index, Given, Undisturbed, Coherent
<1>3. meta.index = "none"
  BY DEF use_fallback
<1>4. ASSUME Undisturbed
      PROVE  \A k \in Keys : start[k] = own[k] /\ backing[k] = Nil
  BY <1>3, <1>4, PlainEntries DEF Entries
<1>5. \/ /\ i \in 1..(n + 1)
         /\ own' = [RotateRight(own, i, n + 1) EXCEPT ![i] = New]
         /\ Finish(<< >>) /\ length' = n
      \/ InsertFrom(n) /\ UNCHANGED <<own, fuel_used>>
      \/ /\ i \notin 1..(n + 1)
         /\ Fail /\ length' = n /\ UNCHANGED <<own, fuel_used>>
  BY DEF ArrayInsert
<1> HIDE DEF i
<1>7. CASE /\ i \in 1..(n + 1)
           /\ own' = [RotateRight(own, i, n + 1) EXCEPT ![i] = New]
           /\ Finish(<< >>) /\ length' = n
  <2>1. pc' = "done" /\ i \in Keys /\ Index' = i
    BY <1>0, <1>2, <1>7, LibraryAssumption DEF Finish, Keys
  <2>2. ASSUME Undisturbed PROVE Entries' = Inserted(i, n)
    <3>1. ASSUME NEW k \in Keys
          PROVE  own'[k] = IF k = i THEN New ELSE IF k \in (i + 1)..(n + 1) THEN start[k - 1] ELSE start[k]
      <4> DEFINE f == RotateRight(own, i, n + 1)
      <4>1. own'[k] = IF k = i THEN New ELSE f[k]
        BY <1>7, <2>1 DEF RotateRight
      <4>2. k # i => f[k] = IF k \in (i + 1)..(n + 1) THEN own[k - 1] ELSE own[k]
        BY DEF RotateRight
      <4>3. k \in (i + 1)..(n + 1) => k - 1 \in Keys
        BY <1>0, <1>7, LibraryAssumption DEF Keys
      <4> HIDE DEF f
      <4> QED
        BY <1>4, <2>2, <4>1, <4>2, <4>3
    <3>2. \A k \in Keys : Entry(own', backing', k) = own'[k]
      BY <1>4, <2>2 DEF Entry
    <3> QED
      BY <3>1, <3>2 DEF Entries, Inserted
  <2>4. ASSUME Undisturbed' PROVE ResultCorrect'
    <3>1. Entries' = Inserted(Index, length)'
      BY <1>2, <1>7, <2>1, <2>2, <2>4 DEF Inserted
    <3> QED
      BY <1>7, <2>1, <3>1 DEF ResultCorrect
  <2> QED
    BY <2>1, <2>4 DEF DataInv, ResultCorrect, ErrorLosesNothing
<1>8. CASE InsertFrom(n) /\ UNCHANGED <<own, fuel_used>>
  BY <1>0, <1>8, StartsData DEF WithLength
<1>9. CASE /\ i \notin 1..(n + 1)
           /\ Fail /\ length' = n /\ UNCHANGED <<own, fuel_used>>
  <2>1. pc' = "error" /\ Entries' = Entries
    BY <1>9 DEF Fail, Entries
  <2>2. Undisturbed' => ResultCorrect'
    BY <1>2, <1>9, <2>1 DEF ResultCorrect
  <2> QED
    BY <2>1, <2>2 DEF DataInv, ResultCorrect, ErrorLosesNothing
<1> QED
  BY <1>5, <1>7, <1>8, <1>9

\* The metamethod did not do its work, or it did.
WorkDone ==
  \/ UNCHANGED <<own, backing>>
  \/ /\ pc = "await" /\ access.kind = "set" /\ own' = own /\ ToAssign \in Values
     /\ backing' = [backing EXCEPT ![access.key] = ToAssign]

\* An error between two accesses, or after a metamethod did its work: every
\* element is still there.
LEMMA RaisesData ==
  ASSUME CallInv, start \in [Keys -> Values], pc \in {"run", "await"}, plan # << >>, pc' = "raised",
         Undisturbed => PlacesInv /\ WorkData,
         UNCHANGED <<call, length, meta, start, disturbed>>, WorkDone
  PROVE  DataInv' /\ ResultCorrect' /\ ErrorLosesNothing'
<1> DEFINE i == Index
           n == length
           f == fuel_used
<1>1. /\ call.op \in {"remove", "insert", "unpack"} /\ Shape /\ access.key \in Keys
      /\ i \in Int /\ First \in Keys /\ n \in Int /\ f \in Int /\ n <= MAX
      /\ plan \in Seq(Access)
  BY AtAccess, LibraryAssumption DEF CallInv, Typed, Keys
<1>2. i' = i /\ n' = n /\ start' = start /\ (Undisturbed' <=> Undisturbed)
  BY DEF Index, Given, Undisturbed, Coherent
<1>3. DataInv' /\ ResultCorrect'
  BY <1>1 DEF DataInv, ResultCorrect
<1> SUFFICES ASSUME Undisturbed
             PROVE  \A k \in 1..n : ~(call.op = "remove" /\ k = i) => \E j \in Keys : Entries'[j] = start[k]
  BY <1>2, <1>3 DEF ErrorLosesNothing
<1>4. \/ Entries' = Entries
      \/ access.kind = "set" /\ Entries' = Put(Entries, access.key, ToAssign)
  <2>1. CASE UNCHANGED <<own, backing>>
    BY <2>1 DEF Entries
  <2>2. CASE /\ pc = "await" /\ access.kind = "set" /\ own' = own /\ ToAssign \in Values
             /\ backing' = [backing EXCEPT ![access.key] = ToAssign]
    BY <1>1, <2>2, WritesPlaces DEF Undisturbed
  <2> QED
    BY <2>1, <2>2 DEF WorkDone
<1>5. CASE call.op = "remove"
  <2>1. RemoveShape(plan, i, n, f) /\ RemoveData
    BY <1>1, <1>5 DEF Shape, ShapeOf, WorkData
  <2>2. RemoveRange(start, i, n, f)
    BY <1>1, <2>1, LibraryAssumption DEF RemoveShape, RemoveRange
  <2>3. \/ access = Get(i, 0)
        \/ access = Get(i + f + 1, 1)
        \/ access = Set(n, Nil, 1) /\ f = n - i
        \/ access = Move(i + f, 1) /\ f < n - i
    BY <1>1, <2>1, RemoveAccess DEF access
  <2>4. /\ Entries = RemoveMap(start, i, n, f, FALSE)
        /\ access.moves => ToAssign = start[i + f + 1]
    BY <2>1 DEF RemoveData
  <2> HIDE DEF i, n, f
  <2>5. /\ f < n - i =>
             /\ Put(RemoveMap(start, i, n, f, FALSE), i + f, start[i + f + 1])
                = RemoveMap(start, i, n, f + 1, FALSE)
             /\ RemoveRange(start, i, n, f + 1)
        /\ f = n - i =>
             Put(RemoveMap(start, i, n, f, FALSE), n, Nil) = RemoveMap(start, i, n, f, TRUE)
    <3>1. f < n - i =>
            /\ RemoveMap(start, i, n, f, FALSE)[i + f + 1] = start[i + f + 1]
            /\ Put(RemoveMap(start, i, n, f, FALSE), i + f, start[i + f + 1])
               = RemoveMap(start, i, n, f + 1, FALSE)
      BY <2>2, RemoveMoves, Zenon
    <3>2. f = n - i =>
             Put(RemoveMap(start, i, n, f, FALSE), n, Nil) = RemoveMap(start, i, n, f, TRUE)
      BY <2>2, RemoveLast, Zenon
    <3>3. f < n - i => RemoveRange(start, i, n, f + 1)
      BY <1>1, <2>2 DEF RemoveRange
    <3> QED
      BY <3>1, <3>2, <3>3
  <2>6. \E g, c : /\ RemoveRange(start, i, n, g) /\ c \in BOOLEAN /\ (c => g = n - i)
                  /\ Entries' = RemoveMap(start, i, n, g, c)
    <3>1. CASE Entries' = Entries
      BY <2>2, <2>4, <3>1
    <3>2. CASE access.kind = "set" /\ Entries' = Put(Entries, access.key, ToAssign)
      <4>1. \/ access = Set(n, Nil, 1) /\ f = n - i
            \/ access = Move(i + f, 1) /\ f < n - i
        <5>1. Get(i, 0).kind = "get" /\ Get(i + f + 1, 1).kind = "get"
          BY DEF Get
        <5> QED
          BY <2>3, <3>2, <5>1
      <4>2. CASE access = Set(n, Nil, 1) /\ f = n - i
        <5>1. access.key = n /\ ~access.moves /\ access.val = Nil
          BY <4>2 DEF Set
        <5>2. ToAssign = Nil
          BY <3>2, <5>1, AssignsGiven
        <5>3. Entries' = RemoveMap(start, i, n, f, TRUE)
          BY <2>4, <2>5, <3>2, <4>2, <5>1, <5>2
        <5> QED
          BY <2>2, <4>2, <5>3
      <4>3. CASE access = Move(i + f, 1) /\ f < n - i
        <5>1. access.key = i + f /\ access.moves
          BY <4>3 DEF Move, Set
        <5>2. Entries' = RemoveMap(start, i, n, f + 1, FALSE)
          BY <2>4, <2>5, <3>2, <4>3, <5>1
        <5> QED
          BY <2>5, <4>3, <5>2
      <4> QED
        BY <4>1, <4>2, <4>3
    <3> QED
      BY <1>4, <3>1, <3>2
  <2>7. PICK g, c : /\ RemoveRange(start, i, n, g) /\ c \in BOOLEAN /\ (c => g = n - i)
                    /\ Entries' = RemoveMap(start, i, n, g, c)
    BY <2>6
  <2>8. ASSUME NEW k \in 1..n, k # i PROVE \E j \in Keys : Entries'[j] = start[k]
    BY <2>7, <2>8, RemoveKeeps
  <2> QED
    BY <1>5, <2>8
<1>6. CASE call.op = "insert"
  <2>1. InsertShape(plan, i, n, f) /\ InsertData
    BY <1>1, <1>6 DEF Shape, ShapeOf, WorkData
  <2>2. InsertRange(start, i, n, f)
    BY <1>1, <2>1, LibraryAssumption DEF InsertShape, InsertRange
  <2>3. \/ access = Get(n - f, 0)
        \/ access = Set(i, New, 0) /\ f = n + 1 - i
        \/ access = Move(n + 1 - f, 0) /\ f < n + 1 - i
    BY <1>1, <2>1, InsertAccess DEF access
  <2>4. /\ Entries = InsertMap(start, i, n, f, FALSE)
        /\ access.moves => ToAssign = start[n - f]
    BY <2>1 DEF InsertData
  <2> HIDE DEF i, n, f
  <2>5. /\ f < n + 1 - i =>
             /\ Put(InsertMap(start, i, n, f, FALSE), n + 1 - f, start[n - f])
                = InsertMap(start, i, n, f + 1, FALSE)
             /\ InsertRange(start, i, n, f + 1)
        /\ f = n + 1 - i =>
             Put(InsertMap(start, i, n, f, FALSE), i, New) = InsertMap(start, i, n, f, TRUE)
    <3>1. f < n + 1 - i =>
            /\ InsertMap(start, i, n, f, FALSE)[n - f] = start[n - f]
            /\ Put(InsertMap(start, i, n, f, FALSE), n + 1 - f, start[n - f])
               = InsertMap(start, i, n, f + 1, FALSE)
      BY <2>2, InsertMoves, Zenon
    <3>2. f = n + 1 - i =>
             Put(InsertMap(start, i, n, f, FALSE), i, New) = InsertMap(start, i, n, f, TRUE)
      BY <2>2, InsertLast, Zenon
    <3>3. f < n + 1 - i => InsertRange(start, i, n, f + 1)
      BY <1>1, <2>2 DEF InsertRange
    <3> QED
      BY <3>1, <3>2, <3>3
  <2>6. \E g, c : /\ InsertRange(start, i, n, g) /\ c \in BOOLEAN /\ (c => g = n + 1 - i)
                  /\ Entries' = InsertMap(start, i, n, g, c)
    <3>1. CASE Entries' = Entries
      BY <2>2, <2>4, <3>1
    <3>2. CASE access.kind = "set" /\ Entries' = Put(Entries, access.key, ToAssign)
      <4>1. \/ access = Set(i, New, 0) /\ f = n + 1 - i
            \/ access = Move(n + 1 - f, 0) /\ f < n + 1 - i
        <5>1. Get(n - f, 0).kind = "get"
          BY DEF Get
        <5> QED
          BY <2>3, <3>2, <5>1
      <4>2. CASE access = Set(i, New, 0) /\ f = n + 1 - i
        <5>1. access.key = i /\ ~access.moves /\ access.val = New
          BY <4>2 DEF Set
        <5>2. ToAssign = New
          BY <3>2, <5>1, AssignsGiven
        <5>3. Entries' = InsertMap(start, i, n, f, TRUE)
          BY <2>4, <2>5, <3>2, <4>2, <5>1, <5>2
        <5> QED
          BY <2>2, <4>2, <5>3
      <4>3. CASE access = Move(n + 1 - f, 0) /\ f < n + 1 - i
        <5>1. access.key = n + 1 - f /\ access.moves
          BY <4>3 DEF Move, Set
        <5>2. Entries' = InsertMap(start, i, n, f + 1, FALSE)
          BY <2>4, <2>5, <3>2, <4>3, <5>1
        <5> QED
          BY <2>5, <4>3, <5>2
      <4> QED
        BY <4>1, <4>2, <4>3
    <3> QED
      BY <1>4, <3>1, <3>2
  <2>7. PICK g, c : /\ InsertRange(start, i, n, g) /\ c \in BOOLEAN /\ (c => g = n + 1 - i)
                    /\ Entries' = InsertMap(start, i, n, g, c)
    BY <2>6
  <2>8. ASSUME NEW k \in 1..n PROVE \E j \in Keys : Entries'[j] = start[k]
    BY <2>7, <2>8, InsertKeeps
  <2> QED
    BY <2>8
<1>7. CASE call.op = "unpack"
  <2>1. UnpackShape(plan, First, n, f) /\ Entries = start
    BY <1>1, <1>7 DEF Shape, ShapeOf, WorkData, UnpackData
  <2>2. access = Get(First + n - Len(plan), n - Len(plan))
    BY <1>1, <2>1, UnpackAccess DEF access
  <2>3. access.kind = "get"
    BY <2>2 DEF Get
  <2>4. Entries' = start
    BY <1>4, <2>1, <2>3
  <2>5. ASSUME NEW k \in 1..n PROVE k \in Keys
    BY <1>1, LibraryAssumption DEF Keys
  <2> QED
    BY <2>4, <2>5
<1> QED
  BY <1>1, <1>5, <1>6, <1>7

\* A call whose accesses are all made returns what it should.
LEMMA ReturnsData ==
  ASSUME CallInv, start \in [Keys -> Values], Return, Undisturbed => PlacesInv /\ WorkData
  PROVE  DataInv' /\ ResultCorrect' /\ ErrorLosesNothing'
<1> DEFINE i == Index
           n == length
<1>0. /\ plan = << >> /\ pc = "run" /\ pc' = "done" /\ UNCHANGED <<table, frame, stack>>
      /\ call.op # "pack" /\ Typed
  BY DEF Return, CallInv, PackInv
<1>1. /\ UNCHANGED <<call, length, start, stack>> /\ Entries' = Entries
      /\ i' = i /\ First' = First /\ (Undisturbed' <=> Undisturbed)
  BY <1>0 DEF table, frame, Entries, Index, First, Given, Undisturbed, Coherent
<1>2. /\ i \in Int /\ First \in Keys /\ n \in Keys /\ fuel_used \in 0..MAX /\ n \in Int
      /\ plan \in Seq(Access) /\ call.op \in {"remove", "insert", "unpack"}
  BY <1>0, CallFacts DEF Typed
<1>3. Shape /\ Len(stack) = Height /\ stack \in Seq(Values)
  BY <1>0 DEF CallInv, WorkInv, StackInv
<1>4. fuel_used = Shifted(call.op, i, n)
  <2>1. ShapeOf(call.op, Index, First, length, plan, fuel_used)
    BY <1>3 DEF Shape
  <2>2. plan = << >> => fuel_used = Shifted(call.op, Index, length)
    <3>1. /\ Index \in Int /\ First \in Keys /\ length \in Keys /\ fuel_used \in 0..MAX
          /\ plan \in Seq(Access)
      BY <1>2
    <3>2. \A op, f : \A j \in Int, first \in Keys, k \in Keys, p \in Seq(Access) :
            f \in 0..MAX /\ ShapeOf(op, j, first, k, p, f) /\ p = << >> => f = Shifted(op, j, k)
      BY ShapeCharged
    <3> QED
      BY <2>1, <3>1, <3>2, Zenon
  <2> QED
    BY <1>0, <2>2
<1> SUFFICES ASSUME Undisturbed' PROVE ResultCorrect'
  BY <1>0, <1>1 DEF DataInv, ResultCorrect, ErrorLosesNothing
<1>5. WorkData
  BY <1>1
<1>6. CASE call.op = "remove"
  <2>1. i \in 1..n /\ RemoveData /\ fuel_used = n - i
    BY <1>3, <1>4, <1>5, <1>6 DEF Shape, ShapeOf, RemoveShape, WorkData, Shifted
  <2>2. Len(plan) < 2 * (n - i) + 2
    BY <1>0, <1>2, <2>1
  <2>3. stack = <<start[i]>>
    <3>1. Len(stack) = 1 /\ stack[1] = start[i]
      BY <1>0, <1>3, <1>6, <2>1, <2>2 DEF RemoveData, Height, HeightOf, ResultHeight
    <3> QED
      BY <1>3, <3>1
  <2>4. Entries = Removed(i, n)
    <3>1. Entries = RemoveMap(start, i, n, n - i, TRUE)
      BY <1>0, <2>1 DEF RemoveData
    <3>2. ASSUME NEW k \in Keys PROVE k \in i..(i + (n - i) - 1) <=> k \in i..(n - 1)
      BY <1>2
    <3>3. n \notin i..(n - 1)
      BY <1>2
    <3>4. RemoveMap(start, i, n, n - i, TRUE) = Removed(i, n)
      BY <3>2, <3>3 DEF RemoveMap, Removed
    <3> QED
      BY <3>1, <3>4
  <2>5. Entries' = Removed(i, n)'
    BY <1>1, <2>4 DEF Removed
  <2> QED
    BY <1>0, <1>1, <1>6, <2>1, <2>3, <2>5 DEF ResultCorrect
<1>7. CASE call.op = "insert"
  <2>1. i \in 1..(n + 1) /\ InsertData /\ fuel_used = n + 1 - i
    BY <1>3, <1>4, <1>5, <1>7 DEF Shape, ShapeOf, InsertShape, WorkData, Shifted
  <2>4. Entries = Inserted(i, n)
    <3>1. Entries = InsertMap(start, i, n, n + 1 - i, TRUE)
      BY <1>0, <2>1 DEF InsertData
    <3>2. ASSUME NEW k \in Keys PROVE k \in (n + 2 - (n + 1 - i))..(n + 1) <=> k \in (i + 1)..(n + 1)
      BY <1>2
    <3>3. i \notin (i + 1)..(n + 1)
      BY <1>2
    <3>4. InsertMap(start, i, n, n + 1 - i, TRUE) = Inserted(i, n)
      BY <3>2, <3>3 DEF InsertMap, Inserted
    <3> QED
      BY <3>1, <3>4
  <2>5. Entries' = Inserted(i, n)'
    BY <1>1, <2>4 DEF Inserted
  <2> QED
    BY <1>0, <1>1, <1>7, <2>1, <2>5 DEF ResultCorrect
<1>8. CASE call.op = "unpack"
  <2>1. n \in 1..MAX /\ UnpackData
    BY <1>3, <1>5, <1>8 DEF Shape, ShapeOf, UnpackShape, WorkData
  <2>2. n - Len(plan) = n /\ Len(stack) = n
    BY <1>0, <1>2, <1>3, <1>8 DEF Height, HeightOf, ResultHeight
  <2>3. Entries = start /\ \A m \in 1..n : stack[m] = start[First + m - 1]
    BY <2>1, <2>2 DEF UnpackData
  <2>4. stack = [m \in 1..n |-> start[First + m - 1]]
    <3> HIDE DEF n
    <3> QED
      BY <1>2, <1>3, <2>2, <2>3
  <2> QED
    BY <1>0, <1>1, <1>8, <2>3, <2>4 DEF ResultCorrect
<1> QED
  BY <1>2, <1>6, <1>7, <1>8

\* Pack stores its arguments batch by batch and nothing else.
LEMMA PacksData ==
  ASSUME CallInv, CallInv', DataInv, PackBatch
  PROVE  DataInv' /\ ResultCorrect' /\ ErrorLosesNothing'
<1> DEFINE m == Len(stack)
<1>0. /\ call.op = "pack" /\ pc \in {"begin", "pending"} /\ length' = m
      /\ UNCHANGED <<array_len, backing, meta, call, plan, fuel_used, start, disturbed>>
  BY DEF PackBatch
<1>1. PICK n \in 0..(m - batch) :
        /\ batch' = batch + n
        /\ own' = [k \in Keys |-> IF k \in (batch + 1)..(batch + n) THEN stack[k] ELSE own[k]]
        /\ IF batch + n < m THEN pc' = "pending" /\ UNCHANGED stack
                            ELSE pc' = "done" /\ stack' = <<Tab>>
  BY DEF PackBatch
<1>2. /\ stack = start /\ stack \in Seq(Values) /\ batch <= m /\ m \in Nat
      /\ batch \in Nat
  BY <1>0, LibraryAssumption DEF CallInv, PackInv, Typed
<1>3. Undisturbed' <=> Undisturbed
  BY <1>0 DEF Undisturbed, Coherent
<1>4. pc' \in {"pending", "done"} /\ (pc' = "done" => batch' = m)
  BY <1>1, <1>2
<1> HIDE DEF m
<1>5. ASSUME Undisturbed PROVE PackData'
  <2>1. PackData
    BY <1>0, <1>5 DEF DataInv
  <2>2. ASSUME NEW k \in Keys
        PROVE  k \in 1..(batch + n) <=> (k \in 1..batch \/ k \in (batch + 1)..(batch + n))
    <3>1. k \in Int /\ n \in Nat
      BY <1>1, <1>2, LibraryAssumption DEF Keys
    <3> QED
      BY <1>2, <3>1
  <2>3. ASSUME NEW k \in Keys PROVE own'[k] = IF k \in 1..batch' THEN start[k] ELSE Nil
    BY <1>1, <1>2, <2>1, <2>2 DEF PackData
  <2> QED
    BY <1>0, <2>1, <2>3 DEF PackData
<1>6. ASSUME Undisturbed', pc' = "pending" PROVE PlacesInv'
  BY <1>3, <1>5, <1>6 DEF PackData, PlacesInv
<1>7. ASSUME Undisturbed', pc' = "done"
      PROVE  \A k \in Keys : Entries'[k] = IF k \in DOMAIN start THEN start[k] ELSE Nil
  <2>1. DOMAIN start = 1..m
    BY <1>2 DEF m
  <2>2. batch' = m /\ start' = start
    BY <1>0, <1>4, <1>7
  <2>3. ASSUME NEW k \in Keys
        PROVE  backing'[k] = Nil /\ own'[k] = IF k \in 1..batch' THEN start'[k] ELSE Nil
    BY <1>3, <1>5, <1>7 DEF PackData
  <2>4. ASSUME NEW k \in Keys PROVE Entries'[k] = own'[k]
    BY <2>3 DEF Entries, Entry
  <2> QED
    BY <2>1, <2>2, <2>3, <2>4
<1> QED
  BY <1>0, <1>3, <1>4, <1>5, <1>6, <1>7
  DEF DataInv, ResultCorrect, ErrorLosesNothing, WorkData

\* An access that is made keeps the entries as far as the call has come.
LEMMA AccessesData ==
  ASSUME CallInv, start \in [Keys -> Values], Accessed, Undisturbed => PlacesInv /\ WorkData
  PROVE  DataInv' /\ ResultCorrect' /\ ErrorLosesNothing'
<1>1. /\ pc' = "run" /\ call.op # "pack" /\ UNCHANGED <<call, meta, disturbed>>
      /\ access.kind = "get" => GetHere \/ GetAnswered
      /\ access.kind = "set" => SetHere \/ SetAnswered
      /\ plan # << >> /\ pc \in {"run", "await"}
  BY AccessMade
<1>2. access.kind \in {"get", "set"}
  BY <1>1, AtAccess
<1>3. ASSUME Undisturbed' PROVE PlacesInv' /\ WorkData'
  <2>1. Coherent /\ PlacesInv /\ WorkData
    BY <1>1, <1>3 DEF Undisturbed, Coherent
  <2>2. PlacesInv'
    BY <1>1, <1>2, <2>1, ReadsEntry, WritesEntry
  <2>3. ASSUME call.op = "remove" PROVE RemoveData'
    BY <2>1, <2>3, RemoveDataStep DEF WorkData
  <2>4. ASSUME call.op = "insert" PROVE InsertData'
    BY <2>1, <2>4, InsertDataStep DEF WorkData
  <2>5. ASSUME call.op = "unpack" PROVE UnpackData'
    BY <2>1, <2>5, UnpackDataStep DEF WorkData
  <2> QED
    BY <1>1, <2>2, <2>3, <2>4, <2>5 DEF WorkData
<1> QED
  BY <1>1, <1>3, DataGoesOn

\* Calling a metamethod changes no entry, and keeps what was read below its
\* arguments and the value to assign among them.
LEMMA CallsMetaData ==
  ASSUME CallInv, NEW kind \in {"get", "set"}, CallMeta(kind),
         Undisturbed => PlacesInv /\ WorkData
  PROVE  DataInv' /\ ResultCorrect' /\ ErrorLosesNothing'
<1>1. /\ pc = "run" /\ pc' = "await" /\ plan # << >> /\ access' = access /\ access.kind = kind
      /\ \A j \in 1..access.bottom : stack'[j] = stack[j]
      /\ kind = "set" => ToAssign' = ToAssign
  BY CallsMeta
<1>2. /\ own[access.key] = Nil /\ MetaOf(kind) # "none"
      /\ UNCHANGED <<own, backing, meta, call, length, start, disturbed, plan, fuel_used>>
  BY DEF CallMeta, AccessFrame
<1>3. /\ UNCHANGED <<Index, First, Entries>> /\ (Undisturbed' <=> Undisturbed)
      /\ MetaOf(kind)' = MetaOf(kind)
  BY <1>2 DEF Index, First, Given, Entries, Undisturbed, Coherent, MetaOf
<1>4. /\ call.op # "pack" /\ Shape /\ (access.moves => access.kind = "set")
      /\ Index \in Int /\ First \in Keys /\ length \in Int /\ fuel_used \in 0..MAX
      /\ call.op \in {"remove", "insert", "unpack"}
      /\ plan \in Seq(Access) /\ length <= MAX
  BY <1>1, AtAccess, LibraryAssumption DEF CallInv, Typed, Keys
<1>5. ASSUME Undisturbed' PROVE PlacesInv' /\ WorkData'
  <2>1. PlacesInv /\ WorkData
    BY <1>3, <1>5
  <2>2. PlacesInv'
    BY <1>1, <1>2, <1>3, <2>1 DEF PlacesInv
  <2>3. ASSUME call.op = "remove" PROVE RemoveData'
    <3>1. RemoveShape(plan, Index, length, fuel_used) /\ RemoveData
      BY <1>4, <2>1, <2>3 DEF Shape, ShapeOf, WorkData
    <3>2. ASSUME Len(plan) < 2 * (length - Index) + 2 PROVE stack'[1] = stack[1]
      <4>1. access.bottom = 1
        <5>1. \/ Len(plan) = 2 * (length - Index) + 2
              \/ access = Get(Index + fuel_used + 1, 1)
              \/ access = Set(length, Nil, 1)
              \/ access = Move(Index + fuel_used, 1)
          BY <1>1, <1>4, <3>1, RemoveAccess DEF access
        <5> QED
          BY <1>4, <3>2, <5>1 DEF Get, Set, Move
      <4> QED
        BY <1>1, <4>1
    <3> QED
      BY <1>1, <1>2, <1>3, <1>4, <3>1, <3>2 DEF RemoveData
  <2>4. ASSUME call.op = "insert" PROVE InsertData'
    BY <1>1, <1>2, <1>3, <1>4, <2>1, <2>4 DEF InsertData, WorkData
  <2>5. ASSUME call.op = "unpack" PROVE UnpackData'
    <3>1. UnpackShape(plan, First, length, fuel_used) /\ UnpackData
      BY <1>4, <2>1, <2>5 DEF Shape, ShapeOf, WorkData
    <3>2. access.bottom = length - Len(plan)
      BY <1>1, <1>4, <3>1, UnpackAccess DEF access, Get
    <3> QED
      BY <1>1, <1>2, <1>3, <3>1, <3>2 DEF UnpackData
  <2> QED
    BY <1>2, <2>2, <2>3, <2>4, <2>5 DEF WorkData
<1> QED
  BY <1>1, <1>2, <1>4, <1>5, DataGoesOn

\* Every initial state has the invariant: what the table shows is what it holds or
\* what is behind its metamethods, and never both.
LEMMA TableBegins == Init => TableInv
<1> SUFFICES ASSUME Init PROVE TableInv
  OBVIOUS
<1>1. CallInv
  BY CallBegins
<1>2. /\ pc = "begin" /\ batch = 0 /\ own \in [Keys -> Values] /\ backing \in [Keys -> Values]
      /\ call.op # "pack" => start = Entries
  BY <1>1 DEF CallInv, Typed, Init
<1>3. StartInv
  BY <1>2 DEF StartInv, Entries, Entry
<1>4. PICK O \in SUBSET (Slots \ {MAX}), B \in SUBSET Slots :
        /\ O \cap B = {} /\ own = Holding(O) /\ backing = Holding(B)
        /\ meta.index = "none" /\ meta.newindex = "none" => B = {}
        /\ call.op = "pack" => O = {} /\ meta = Plain
  BY DEF Init
<1>5. ASSUME NEW k \in Keys
      PROVE  /\ own[k] = IF k \in O THEN k ELSE Nil
             /\ backing[k] = IF k \in B THEN k ELSE Nil
             /\ k # Nil
  BY <1>4, LibraryAssumption DEF Holding
<1>6. \A k \in Keys : own[k] # Nil => backing[k] = Nil
  BY <1>4, <1>5
<1>7. ASSUME Coherent, meta.index = "none" PROVE \A k \in Keys : backing[k] = Nil
  BY <1>4, <1>5, <1>7 DEF Coherent
<1>8. ASSUME call.op = "pack" PROVE PackData
  <2>1. O = {} /\ B = {}
    BY <1>4, <1>8 DEF Plain
  <2>2. ASSUME NEW k \in Keys PROVE k \notin 1..batch
    BY <1>2, LibraryAssumption DEF Keys
  <2> QED
    BY <1>5, <2>1, <2>2 DEF PackData
<1>9. DataInv
  BY <1>2, <1>6, <1>7, <1>8 DEF DataInv, Undisturbed, PlacesInv
<1> QED
  BY <1>1, <1>2, <1>3, <1>9 DEF TableInv, FallbackInv, ResultCorrect, ErrorLosesNothing

\* A call that fails before its length is known has lost nothing.
LEMMA RaisesEarly ==
  ASSUME CallInv, pc \in {"length", "await_len"}, pc' = "raised", UNCHANGED <<call, length>>
  PROVE  DataInv' /\ ResultCorrect' /\ ErrorLosesNothing'
<1>1. 1..length' = {} /\ call.op # "pack"
  BY DEF CallInv, BeginInv
<1> QED
  BY <1>1 DEF DataInv, ResultCorrect, ErrorLosesNothing

\* A removal waits for its length on the fallback only, and stays there.
LEMMA FallbackKept ==
  ASSUME FallbackInv, [Next]_vars
  PROVE  FallbackInv'
<1>1. UNCHANGED <<call, meta>>
  BY DEF Next, BeginFast, BeginFallback, BeginUnpack, FindLength, LengthFound, GetHere, SetHere,
    GetAnswered, SetAnswered, MetaError, Return, CallMeta, BadMeta, NextBatch, Pending, PackBatch,
    Interfere, Ended, AccessFrame, frame, table, vars
<1>2. CASE BeginFallback
  BY <1>1, <1>2 DEF BeginFallback, FallbackInv, use_fallback
<1>3. CASE pc \in {"length", "await_len"} \/ UNCHANGED pc
  BY <1>1, <1>3 DEF FallbackInv, use_fallback
<1>4. CASE pc' \notin {"length", "await_len"}
  BY <1>4 DEF FallbackInv
<1>5. BeginFast => pc' \notin {"length", "await_len"}
  BY DEF BeginFast, ArrayRemove, ArrayInsert, RemoveFrom, InsertFrom, Finish, Fail, Run
<1>6. BeginUnpack => pc' \notin {"length", "await_len"}
  BY DEF BeginUnpack, UnpackTo, Finish, Fail, Run
<1>7. FindLength \/ LengthFound => pc \in {"length", "await_len"}
  BY DEF FindLength, LengthFound
<1>8. GetHere \/ SetHere \/ GetAnswered \/ SetAnswered \/ MetaError \/ Return
        => pc' \notin {"length", "await_len"}
  BY DEF GetHere, SetHere, GetAnswered, SetAnswered, MetaError, Return, Advance, Raise
<1>9. ASSUME NEW kind \in {"get", "set"}
      PROVE  CallMeta(kind) \/ BadMeta(kind) => pc' \notin {"length", "await_len"}
  BY DEF CallMeta, BadMeta, Raise
<1>10. NextBatch \/ Pending \/ PackBatch => pc' \notin {"length", "await_len"}
  BY DEF NextBatch, Pending, PackBatch
<1>11. Interfere \/ Ended \/ UNCHANGED vars => UNCHANGED pc
  BY DEF Interfere, Ended, vars
<1> QED
  BY <1>2, <1>3, <1>4, <1>5, <1>6, <1>7, <1>8, <1>9, <1>10, <1>11 DEF Next

\* Every step keeps it, one step of the proof for each action.
LEMMA TableSteps == TableInv /\ [Next]_vars => TableInv'
<1> SUFFICES ASSUME TableInv, [Next]_vars PROVE TableInv'
  OBVIOUS
<1>0. CallInv /\ StartInv /\ DataInv /\ CallInv' /\ Typed
  BY CallSteps DEF TableInv, CallInv
<1>1. UNCHANGED <<call, start>>
  BY DEF Next, BeginFast, BeginFallback, BeginUnpack, FindLength, LengthFound, GetHere, SetHere,
    GetAnswered, SetAnswered, MetaError, Return, CallMeta, BadMeta, NextBatch, Pending, PackBatch,
    Interfere, Ended, AccessFrame, frame, vars
<1>2. StartInv' /\ (call.op # "pack" => start \in [Keys -> Values])
  BY <1>0, <1>1 DEF StartInv
<1>2a. FallbackInv /\ FallbackInv'
  BY FallbackKept DEF TableInv
<1> SUFFICES DataInv' /\ ResultCorrect' /\ ErrorLosesNothing'
  BY <1>0, <1>2, <1>2a DEF TableInv
<1>3. /\ pc \in {"begin", "length", "await_len"} /\ call.op # "pack" =>
           (Undisturbed => PlacesInv /\ Entries = start)
      /\ pc \in {"run", "await", "pending"} => (Undisturbed => PlacesInv /\ WorkData)
  BY <1>0 DEF DataInv
<1>4. CASE BeginFast
  <2>1. PICK n \in Borders(own) : IF call.op = "remove" THEN ArrayRemove(n) ELSE ArrayInsert(n)
    BY <1>4 DEF BeginFast
  <2>2. /\ pc = "begin" /\ call.op \in {"remove", "insert"} /\ ~use_fallback
        /\ UNCHANGED <<array_len, backing, meta, call, batch, start, disturbed>>
    BY <1>4 DEF BeginFast
  <2>3. CASE call.op = "remove"
    BY <1>0, <1>2, <1>3, <2>1, <2>2, <2>3, ArrayRemovesData
  <2>4. CASE call.op = "insert"
    BY <1>0, <1>2, <1>3, <2>1, <2>2, <2>4, ArrayInsertsData
  <2> QED
    BY <2>2, <2>3, <2>4
<1>5. CASE BeginFallback
  <2>1. /\ call.op # "pack" /\ pc = "begin" /\ pc' = "length"
        /\ UNCHANGED <<own, backing, meta, call, start, disturbed>>
    BY <1>5 DEF BeginFallback, table, frame
  <2>2. Entries' = Entries /\ (Undisturbed' <=> Undisturbed)
    BY <2>1 DEF Entries, Undisturbed, Coherent
  <2>3. PlacesInv => PlacesInv'
    BY <2>1 DEF PlacesInv
  <2> QED
    BY <1>3, <2>1, <2>2, <2>3 DEF DataInv, ResultCorrect, ErrorLosesNothing
<1>6. CASE BeginUnpack
  <2>1. /\ pc = "begin" /\ call.op = "unpack" /\ call.last # Nil /\ UnpackTo(First, call.last)
        /\ UNCHANGED <<array_len, own, backing, meta, call, batch, fuel_used, start, disturbed>>
    BY <1>6 DEF BeginUnpack, table
  <2>2. call.last \in Keys
    BY <1>0, <2>1, CallFacts
  <2>3. WithLength(call.last)
    BY <2>1 DEF WithLength
  <2> QED
    BY <1>0, <1>2, <1>3, <2>1, <2>2, <2>3, StartsData
<1>7. CASE FindLength
  <2>1. /\ UNCHANGED <<array_len, own, backing, meta, call, batch, fuel_used, start, disturbed>>
        /\ pc = "length" /\ call.op # "pack"
    BY <1>0, <1>7 DEF FindLength, table, CallInv, BeginInv
  <2>2. CASE \E n \in Borders(own) : WithLength(n)
    <3>1. PICK n \in Borders(own) : WithLength(n)
      BY <2>2
    <3>2. n \in Keys
      BY LibraryAssumption DEF Borders, Keys
    <3>3. call.op = "remove" => use_fallback
      BY <1>2a, <2>1 DEF FallbackInv
    <3> QED
      BY <1>0, <1>2, <1>3, <2>1, <3>1, <3>2, <3>3, StartsData
  <2>3. CASE pc' = "await_len"
    <3>1. Entries' = Entries /\ (Undisturbed' <=> Undisturbed)
      BY <2>1 DEF Entries, Undisturbed, Coherent
    <3>2. PlacesInv => PlacesInv'
      BY <2>1, <2>3 DEF PlacesInv
    <3> QED
      BY <1>3, <2>1, <2>3, <3>1, <3>2 DEF DataInv, ResultCorrect, ErrorLosesNothing
  <2>4. CASE Raise /\ UNCHANGED length
    BY <1>0, <2>1, <2>4, RaisesEarly DEF Raise
  <2> QED
    BY <1>7, <2>2, <2>3, <2>4 DEF FindLength
<1>8. CASE LengthFound
  <2>1. /\ UNCHANGED <<array_len, own, backing, meta, call, batch, fuel_used, start, disturbed>>
        /\ pc = "await_len" /\ call.op # "pack"
    BY <1>0, <1>8 DEF LengthFound, table, CallInv, BeginInv
  <2>2. CASE \E n \in Lens : WithLength(n)
    <3>1. PICK n \in Lens : WithLength(n)
      BY <2>2
    <3>2. n \in Keys
      BY LibraryAssumption
    <3>3. call.op = "remove" => use_fallback
      BY <1>2a, <2>1 DEF FallbackInv
    <3> QED
      BY <1>0, <1>2, <1>3, <2>1, <3>1, <3>2, <3>3, StartsData
  <2>3. CASE Raise /\ UNCHANGED length
    BY <1>0, <2>1, <2>3, RaisesEarly DEF Raise
  <2> QED
    BY <1>8, <2>2, <2>3 DEF LengthFound
<1>9. CASE Accessed
  <2>1. pc \in {"run", "await"} /\ call.op # "pack"
    BY <1>0, <1>9, AccessMade
  <2> QED
    BY <1>0, <1>2, <1>3, <1>9, <2>1, AccessesData
<1>10. CASE MetaError
  <2>1. /\ pc = "await" /\ plan # << >> /\ pc' = "raised" /\ call.op # "pack"
        /\ UNCHANGED <<own, call, length, meta, start, disturbed>>
    BY <1>0, <1>10 DEF MetaError, Raise, AccessFrame, CallInv, WorkInv, PackInv
  <2>2. access.kind = "set" => ToAssign \in Values /\ Last(stack) = ToAssign
    <3> DEFINE b == access.bottom
    <3>1. b \in Nat /\ stack \in Seq(Stacked)
      BY <1>0, <2>1, AtAccess, LibraryAssumption DEF Typed
    <3>2. ASSUME access.kind = "set" PROVE Len(stack) = b + 3 /\ stack[b + 3] \in Values
      BY <1>0, <2>1, <3>2 DEF CallInv, StackInv
    <3>3. Len(stack) = b + 3 => stack # << >>
      BY <3>1
    <3> QED
      BY <2>1, <3>2, <3>3 DEF Last, ToAssign
  <2>3. WorkDone
    BY <1>10, <2>1, <2>2 DEF MetaError, WorkDone
  <2> QED
    BY <1>0, <1>2, <1>3, <2>1, <2>3, RaisesData
<1>11. CASE Return
  <2>1. pc = "run" /\ call.op # "pack"
    BY <1>0, <1>11 DEF Return, CallInv, PackInv
  <2> QED
    BY <1>0, <1>2, <1>3, <1>11, <2>1, ReturnsData
<1>12. ASSUME NEW kind \in {"get", "set"}, CallMeta(kind)
       PROVE  DataInv' /\ ResultCorrect' /\ ErrorLosesNothing'
  <2>1. pc = "run"
    BY <1>12 DEF CallMeta, Running
  <2> QED
    BY <1>0, <1>3, <1>12, <2>1, CallsMetaData
<1>13. ASSUME NEW kind \in {"get", "set"}, BadMeta(kind)
       PROVE  DataInv' /\ ResultCorrect' /\ ErrorLosesNothing'
  <2>1. /\ pc = "run" /\ plan # << >> /\ pc' = "raised" /\ UNCHANGED <<own, backing>>
        /\ UNCHANGED <<call, length, meta, start, disturbed>>
    BY <1>13 DEF BadMeta, Running, Raise, AccessFrame
  <2>2. call.op # "pack" /\ WorkDone
    BY <1>0, <2>1, AtAccess DEF WorkDone
  <2> QED
    BY <1>0, <1>2, <1>3, <2>1, <2>2, RaisesData
<1>14. CASE NextBatch \/ Pending
  <2>1. /\ pc \in {"run", "pending"} /\ pc' \in {"run", "pending"} /\ call.op = "unpack"
        /\ UNCHANGED <<own, backing, meta, call, length, plan, stack, start, disturbed>>
    BY <1>14 DEF NextBatch, Pending, table, frame
  <2>2. Entries' = Entries /\ (Undisturbed' <=> Undisturbed) /\ First' = First
    BY <2>1 DEF Entries, Undisturbed, Coherent, First
  <2>3. PlacesInv => PlacesInv'
    BY <2>1 DEF PlacesInv
  <2>4. UnpackData => UnpackData'
    BY <2>1, <2>2 DEF UnpackData
  <2>5. WorkData => WorkData'
    BY <2>1, <2>4 DEF WorkData
  <2> QED
    BY <1>3, <2>1, <2>2, <2>3, <2>5, DataGoesOn
<1>15. CASE PackBatch
  BY <1>0, <1>15, PacksData
<1>16. CASE Interfere
  <2>1. ~Undisturbed' /\ pc' \in {"await", "await_len", "pending"}
    BY <1>16 DEF Interfere, Undisturbed
  <2> QED
    BY <2>1 DEF DataInv, ResultCorrect, ErrorLosesNothing
<1>17. CASE UNCHANGED vars
  <2>1. /\ UNCHANGED <<own, backing, meta, call, length, plan, stack, start, disturbed, pc, batch>>
        /\ fuel_used' = fuel_used
    BY <1>17 DEF vars, table, frame
  <2>2. /\ UNCHANGED <<Entries, First, Index, access>>
        /\ (Undisturbed' <=> Undisturbed)
    BY <2>1 DEF Entries, Undisturbed, Coherent, First, Index, Given, access
  <2>3. ToAssign' = ToAssign
    BY <2>1, <2>2 DEF ToAssign
  <2>4. DataInv'
    <3>1. PlacesInv => PlacesInv'
      BY <2>1, <2>2 DEF PlacesInv, MetaOf
    <3>2. (RemoveData => RemoveData') /\ (InsertData => InsertData')
      BY <2>1, <2>2, <2>3 DEF RemoveData, InsertData
    <3>3. (UnpackData => UnpackData') /\ (PackData => PackData')
      BY <2>1, <2>2 DEF UnpackData, PackData
    <3>4. WorkData => WorkData'
      BY <2>1, <3>2, <3>3 DEF WorkData
    <3> QED
      BY <1>0, <2>1, <2>2, <3>1, <3>3, <3>4 DEF DataInv
  <2>5. ResultCorrect'
    <3>1. ResultCorrect
      BY DEF TableInv
    <3> QED
      BY <2>1, <2>2, <3>1 DEF ResultCorrect, Removed, Inserted, EmptyRemoval, use_fallback
  <2>6. ErrorLosesNothing'
    <3>1. ErrorLosesNothing
      BY DEF TableInv
    <3> QED
      BY <2>1, <2>2, <3>1 DEF ErrorLosesNothing
  <2> QED
    BY <2>4, <2>5, <2>6
<1> QED
  BY <1>4, <1>5, <1>6, <1>7, <1>8, <1>9, <1>10, <1>11, <1>12, <1>13, <1>14, <1>15, <1>16, <1>17
  DEF Next, Ended, Accessed

\* The invariant holds throughout.
LEMMA TableAlways == Spec => []TableInv
  BY TableBegins, TableSteps, PTL DEF Spec

\* When nothing else changes the table, remove, insert, unpack and pack do to what
\* the table shows exactly what the reference definitions say, whether they work
\* on the array part, on the entries or through __index and __newindex, for every
\* length a __len may give, every index and every layout of the entries; and a call
\* that fails has changed nothing and had an index out of range.  The one call for
\* which the path matters, position 0 of an empty table, returns nil on the fast
\* path and fails on the fallback, never the other way round.
THEOREM LibraryCorrect == Spec => []ResultCorrect
<1>1. TableInv => ResultCorrect
  BY DEF TableInv
<1> QED
  BY <1>1, TableAlways, PTL

\* A metamethod that raises an error halfway, before or after it did its work,
\* leaves every element of the table somewhere in it, but for the one removed.
THEOREM ErrorsLoseNothing == Spec => []ErrorLosesNothing
<1>1. TableInv => ErrorLosesNothing
  BY DEF TableInv
<1> QED
  BY <1>1, TableAlways, PTL
=============================================================================
