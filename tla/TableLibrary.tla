---------------------------- MODULE TableLibrary ----------------------------
(***************************************************************************)
(* One call of table.remove, table.insert, table.unpack or table.pack      *)
(* (stdlib/table.rs) on a table whose metatable may have __index,          *)
(* __newindex and __len.  Reads and writes go through meta_ops::index and  *)
(* new_index; each metamethod is called by a sequence, which waits for it  *)
(* and finds its results on the stack.                                     *)
(*                                                                         *)
(* `own` is what the table holds itself (module RawTable), `backing` what  *)
(* its metamethods read and write.  While the sequence waits, for a        *)
(* metamethod or for more fuel, other code may change the table.  Integers *)
(* are MIN..MAX, standing for i64.                                         *)
(***************************************************************************)
EXTENDS Integers, Sequences

CONSTANTS
  MIN, MAX,
  Metatables,         \* [index, newindex, len]: what each metamethod is
  Lens,               \* what a __len function may return
  Indices,            \* integers the program passes
  Nil, Tab, New, Other,  \* nil, the table (or the one its metamethod names), the
                         \* inserted value, any other value
  MIN_BATCH_SIZE,
  MaxPacked           \* bound: arguments of pack

Keys == MIN..MAX
Slots == 1..MAX
Values == Slots \cup {Nil, New, Other}
MetaKinds == {"none", "function", "table", "bad"}

ASSUME LibraryAssumption ==
  /\ MIN \in Int /\ MAX \in Nat \ {0} /\ MIN < 0
  /\ Metatables \subseteq [index : MetaKinds, newindex : MetaKinds, len : MetaKinds]
  /\ Lens \cup Indices \subseteq Keys \ {MIN}
  /\ MIN_BATCH_SIZE \in Nat \ {0} /\ MaxPacked \in 0..MAX
  /\ Nil \notin Keys

VARIABLES
  own, array_len, backing, meta,     \* the table: its entries, array part and metatable
  call,       \* the call and its arguments
  pc,         \* where it stands
  length,     \* the length it works with
  plan,       \* the accesses still to make
  stack,      \* the window of the stack that belongs to the call
  batch,      \* accesses left in the batch of unpack or pack
  fuel_used,  \* fuel consumed for shifted items
  start,      \* the entries when the call began
  disturbed   \* whether other code changed the table since

table == <<own, array_len, backing, meta>>
frame == <<call, length, plan, batch, fuel_used, start, disturbed>>
vars == <<table, frame, pc, stack>>

\* What the program sees: own entries hide those behind the metamethods.
Entry(o, b, k) == IF o[k] # Nil THEN o[k] ELSE b[k]
Entries == [k \in Keys |-> Entry(own, backing, k)]

Borders(f) == {n \in 0..MAX : (n = 0 \/ f[n] # Nil) /\ (n = MAX \/ f[n + 1] = Nil)}

Take(s, n) == [i \in 1..n |-> IF i <= Len(s) THEN s[i] ELSE Nil]
PopBack(s) == IF s = << >> THEN s ELSE SubSeq(s, 1, Len(s) - 1)
Last(s) == IF s = << >> THEN Nil ELSE s[Len(s)]

-----------------------------------------------------------------------------
(* The accesses each function makes, in order. *)

Get(key, bottom) == [kind |-> "get", key |-> key, val |-> Nil, bottom |-> bottom, moves |-> FALSE]
Set(key, val, bottom) == [kind |-> "set", key |-> key, val |-> val, bottom |-> bottom, moves |-> FALSE]
\* Assign the value that was read last.
Move(key, bottom) == [Set(key, Other, bottom) EXCEPT !.moves = TRUE]

\* Mutant: the last slot is not cleared.
RemovePlanKeepsLast(index, len) ==
  <<Get(index, 0)>>
  \o [n \in 1..(2 * (len - index)) |->
        IF n % 2 = 1 THEN Get(index + (n + 1) \div 2, 1) ELSE Move(index + n \div 2 - 1, 1)]

RemovePlan(index, len) ==
  <<Get(index, 0)>>
  \o [n \in 1..(2 * (len - index)) |->
        IF n % 2 = 1 THEN Get(index + (n + 1) \div 2, 1) ELSE Move(index + n \div 2 - 1, 1)]
  \o <<Set(len, Nil, 1)>>

\* Mutant: the elements are moved up from the first one on.
InsertPlanForwards(index, len) ==
  [n \in 1..(2 * (len + 1 - index)) |->
     LET i == index + (n + 1) \div 2 IN
     IF n % 2 = 1 THEN Get(i - 1, 0) ELSE Move(i, 0)]
  \o <<Set(index, New, 0)>>

InsertPlan(index, len) ==
  [n \in 1..(2 * (len + 1 - index)) |->
     LET i == len + 1 - (n - 1) \div 2 IN
     IF n % 2 = 1 THEN Get(i - 1, 0) ELSE Move(i, 0)]
  \o <<Set(index, New, 0)>>

UnpackPlan(first, len) == [n \in 1..len |-> Get(first + n - 1, n - 1)]

-----------------------------------------------------------------------------
(* How a call goes on. *)

Finish(s) == pc' = "done" /\ stack' = s /\ plan' = << >>
Fail == pc' = "error" /\ UNCHANGED <<stack, plan>>
Raise == pc' = "raised" /\ UNCHANGED <<stack, plan>>

\* The accesses p follow.
Run(p) == plan' = p /\ pc' = "run" /\ stack' = << >>

Given == call.index # Nil

\* table_remove_impl after the length is known.
RemoveFrom(len) ==
  LET index == IF Given THEN call.index ELSE len IN
  /\ length' = len
  /\ IF index - 1 = len THEN Finish(<<Nil>>)
     ELSE IF index \in 1..len THEN Run(RemovePlan(index, len))
     ELSE Fail

\* Mutant: the end index is not checked for overflow.
InsertFromUnchecked(len) ==
  LET index == IF Given THEN call.index ELSE len + 1 IN
  /\ length' = len
  /\ IF index \in 1..(len + 1) THEN Run(InsertPlan(index, len)) ELSE Fail

\* table_insert_impl after the length is known.
InsertFrom(len) ==
  LET index == IF Given THEN call.index ELSE len + 1 IN
  /\ length' = len
  /\ IF len < MAX /\ index \in 1..(len + 1) THEN Run(InsertPlan(index, len)) ELSE Fail

\* try_compute_length: the distance has to be an integer, and so has its successor.
Computable(first, last) == last - first < MAX

\* Unpack::LengthFound.
UnpackTo(first, last) ==
  IF first > last THEN Finish(<< >>) /\ length' = 0
  ELSE IF Computable(first, last)
       THEN Run(UnpackPlan(first, last - first + 1)) /\ length' = last - first + 1
       ELSE Fail /\ length' = 0

First == IF call.index = Nil THEN 1 ELSE call.index
WithLength(len) ==
  \/ call.op = "remove" /\ RemoveFrom(len)
  \/ call.op = "insert" /\ InsertFrom(len)
  \/ call.op = "unpack" /\ UnpackTo(First, len)

-----------------------------------------------------------------------------
(* The fast paths, on the array part of a plain table. *)

RotateLeft(f, a, b) == [k \in Keys |-> IF k = b THEN f[a] ELSE IF k \in a..(b - 1) THEN f[k + 1] ELSE f[k]]
RotateRight(f, a, b) == [k \in Keys |-> IF k = a THEN f[b] ELSE IF k \in (a + 1)..b THEN f[k - 1] ELSE f[k]]

\* Mutant: the cost of a removal counts from zero.
RemovedFuelOffByOne(n) == fuel_used' = n - (IF Given THEN call.index - 1 ELSE n)

\* The fuel consumed after a removal, usize::saturating_sub.
RemovedFuel(n) ==
  LET shifted == n - (IF Given THEN call.index ELSE n) IN
  fuel_used' = IF shifted < 0 THEN 0 ELSE shifted

\* array_remove_shift.
ArrayRemove(n) ==
  LET index == IF Given THEN call.index ELSE n IN
  \/ /\ index = n + 1 \/ (index = 0 /\ n = 0)
     /\ Finish(<<Nil>>) /\ RemovedFuel(n) /\ length' = n
     /\ UNCHANGED own
  \/ /\ index \in 1..n /\ n <= array_len
     /\ Finish(<<own[index]>>) /\ RemovedFuel(n) /\ length' = n
     /\ own' = RotateLeft([own EXCEPT ![index] = Nil], index, n)
  \/ /\ index \in 1..n /\ n > array_len
     /\ RemoveFrom(n)
     /\ UNCHANGED <<own, fuel_used>>
  \/ /\ index \notin 1..(n + 1) /\ ~(index = 0 /\ n = 0)
     /\ Fail /\ length' = n
     /\ UNCHANGED <<own, fuel_used>>

\* array_insert_shift.  A full array is grown first, which no entry notices.
ArrayInsert(n) ==
  LET index == IF Given THEN call.index ELSE n + 1 IN
  \/ /\ index \in 1..(n + 1) /\ n <= array_len
     /\ own' = [RotateRight(own, index, n + 1) EXCEPT ![index] = New]
     /\ fuel_used' = n - (index - 1)
     /\ Finish(<< >>) /\ length' = n
  \/ /\ index \in 1..(n + 1) /\ n > array_len
     /\ InsertFrom(n)
     /\ UNCHANGED <<own, fuel_used>>
  \/ /\ index \notin 1..(n + 1)
     /\ Fail /\ length' = n
     /\ UNCHANGED <<own, fuel_used>>

-----------------------------------------------------------------------------
(* Starting a call. *)

use_fallback == meta.index # "none" \/ meta.newindex # "none" \/ meta.len # "none"

Calls ==
  [op : {"remove", "insert"}, index : Indices \cup {Nil}, last : {Nil}]
  \cup [op : {"unpack"}, index : Indices \cup {Nil}, last : Indices \cup {Nil}]
  \cup [op : {"pack"}, index : {Nil}, last : {Nil}]

\* Every slot that is in use holds its own number.  pack fills a new table with
\* its arguments.
Holding(S) == [k \in Keys |-> IF k \in S THEN k ELSE Nil]
Plain == [index |-> "none", newindex |-> "none", len |-> "none"]
Arguments == UNION {[1..n -> {New, Nil}] : n \in 0..MaxPacked}

Init ==
  /\ call \in Calls
  /\ \E O \in SUBSET (Slots \ {MAX}), B \in SUBSET Slots :
       /\ O \cap B = {} /\ own = Holding(O) /\ backing = Holding(B)
       /\ meta \in Metatables
       /\ meta.index = "none" /\ meta.newindex = "none" => B = {}
       /\ call.op = "pack" => O = {} /\ meta = Plain
  /\ array_len \in 0..MAX /\ (array_len > 0 => meta = Plain /\ call.op # "pack")
  /\ stack \in IF call.op = "pack" THEN Arguments ELSE {<< >>}
  /\ start = IF call.op = "pack" THEN stack ELSE Entries
  /\ pc = "begin" /\ length = 0 /\ plan = << >> /\ batch = 0
  /\ fuel_used = 0 /\ disturbed = FALSE

\* The callbacks table_remove_impl and table_insert_impl.
BeginFast ==
  /\ pc = "begin" /\ call.op \in {"remove", "insert"} /\ ~use_fallback
  /\ \E n \in Borders(own) : IF call.op = "remove" THEN ArrayRemove(n) ELSE ArrayInsert(n)
  /\ UNCHANGED <<array_len, backing, meta, call, batch, start, disturbed>>

BeginFallback ==
  /\ pc = "begin"
  /\ \/ call.op \in {"remove", "insert"} /\ use_fallback
     \/ call.op = "unpack" /\ call.last = Nil
  /\ pc' = "length"
  /\ UNCHANGED <<table, frame, stack>>

\* unpack with both ends given.
BeginUnpack ==
  /\ pc = "begin" /\ call.op = "unpack" /\ call.last # Nil
  /\ UnpackTo(First, call.last)
  /\ UNCHANGED <<table, call, batch, fuel_used, start, disturbed>>

\* meta_ops::len.
FindLength ==
  /\ pc = "length"
  /\ \/ /\ meta.len = "none"
        /\ \E n \in Borders(own) : WithLength(n)
     \/ /\ meta.len = "function"
        /\ pc' = "await_len" /\ stack' = Append(stack, Tab) /\ UNCHANGED <<plan, length>>
     \/ /\ meta.len \in {"table", "bad"}
        /\ Raise /\ UNCHANGED length
  /\ UNCHANGED <<table, call, batch, fuel_used, start, disturbed>>

\* The length is the first result; consume drops the others.
LengthFound ==
  /\ pc = "await_len"
  /\ \/ \E n \in Lens : WithLength(n)
     \/ Raise /\ UNCHANGED length
  /\ UNCHANGED <<table, call, batch, fuel_used, start, disturbed>>

-----------------------------------------------------------------------------
(* One access at a time: index_helper and index_set_helper. *)

access == Head(plan)
Advance == plan' = Tail(plan) /\ pc' = "run"

\* unpack and pack ask for fuel a batch at a time; the others for each item.
InBatch == call.op = "unpack" => batch > 0
Charge ==
  /\ batch' = IF call.op = "unpack" THEN batch - 1 ELSE batch
  /\ fuel_used' = fuel_used + (IF access.moves THEN 1 ELSE 0)

Assigned == IF access.moves THEN Last(stack) ELSE access.val
Lower == IF access.moves THEN PopBack(stack) ELSE stack
Running(kind) == pc = "run" /\ plan # << >> /\ InBatch /\ access.kind = kind
Awaiting(kind) == pc = "await" /\ access.kind = kind
AccessFrame == UNCHANGED <<array_len, meta, call, length, start, disturbed>>

\* meta_ops::index.
GetHere ==
  /\ Running("get")
  /\ own[access.key] # Nil \/ meta.index = "none"
  /\ stack' = Append(stack, own[access.key])
  /\ Advance /\ Charge /\ AccessFrame /\ UNCHANGED <<own, backing>>

\* meta_ops::new_index.
SetHere ==
  /\ Running("set")
  /\ own[access.key] # Nil \/ meta.newindex = "none"
  /\ own' = [own EXCEPT ![access.key] = Assigned]
  /\ stack' = Lower
  /\ Advance /\ Charge /\ AccessFrame /\ UNCHANGED backing

MetaOf(kind) == IF kind = "get" THEN meta.index ELSE meta.newindex

\* A metamethod is called with its arguments on top of the stack.
CallMeta(kind) ==
  /\ Running(kind)
  /\ own[access.key] = Nil /\ MetaOf(kind) \in {"function", "table"}
  /\ stack' = IF kind = "get" THEN stack \o <<Tab, access.key>>
                              ELSE Lower \o <<Tab, access.key, Assigned>>
  /\ pc' = "await"
  /\ AccessFrame /\ UNCHANGED <<own, backing, plan, batch, fuel_used>>

BadMeta(kind) ==
  /\ Running(kind)
  /\ own[access.key] = Nil /\ MetaOf(kind) = "bad"
  /\ Raise /\ AccessFrame /\ UNCHANGED <<own, backing, batch, fuel_used>>

\* A function may return nothing for nil, or more than was asked for.
Results(v) == {<<v>>, <<v, Other>>} \cup (IF v = Nil THEN {<< >>} ELSE {})
Returned(r) == SubSeq(stack, 1, access.bottom) \o r

\* Mutant: the results are left as they came.
GotKeeps(r) == stack' = Returned(r)

\* The results of __index come where its arguments were; one is kept.
Got(r) == stack' = Take(Returned(r), access.bottom + 1)

GetAnswered ==
  /\ Awaiting("get")
  /\ \E r \in IF meta.index = "table" THEN {<<backing[access.key]>>} ELSE Results(backing[access.key]) :
       Got(r)
  /\ Advance /\ Charge /\ AccessFrame /\ UNCHANGED <<own, backing>>

\* Those of __newindex are dropped.
WasSet(r) == stack' = Take(Returned(r), access.bottom)

SetAnswered ==
  /\ Awaiting("set")
  /\ backing' = [backing EXCEPT ![access.key] = Last(stack)]
  /\ \E r \in IF meta.newindex = "table" THEN {<< >>} ELSE {<< >>, <<Other>>} : WasSet(r)
  /\ Advance /\ Charge /\ AccessFrame /\ UNCHANGED own

\* The function raises an error, before or after it did its work; the sequence
\* is polled with it and fails too.
MetaError ==
  /\ pc = "await" /\ MetaOf(access.kind) = "function"
  /\ backing' \in {backing} \cup (IF access.kind = "set" THEN {[backing EXCEPT ![access.key] = Last(stack)]} ELSE {})
  /\ Raise /\ AccessFrame /\ UNCHANGED <<own, batch, fuel_used>>

\* Everything was accessed: what is on the stack is returned.
Return ==
  /\ pc = "run" /\ plan = << >>
  /\ pc' = "done"
  /\ UNCHANGED <<table, frame, stack>>

-----------------------------------------------------------------------------
(* Batches, and other code. *)

\* At least MIN_BATCH_SIZE elements, or all that are left, or more if the fuel
\* allows; when it is used up after a batch the sequence waits for its turn.  (If a
\* batch ends with a call of __index the code starts the next one at once, which
\* is one of the choices here.)
NextBatch ==
  /\ pc \in {"run", "pending"} /\ call.op = "unpack" /\ plan # << >> /\ batch = 0
  /\ \E n \in 1..Len(plan) :
       /\ n >= MIN_BATCH_SIZE \/ n = Len(plan)
       /\ batch' = n
  /\ pc' = "run"
  /\ UNCHANGED <<table, call, length, plan, stack, fuel_used, start, disturbed>>

Pending ==
  /\ pc = "run" /\ call.op = "unpack" /\ batch = 0
  /\ plan # << >> /\ Len(plan) < length
  /\ pc' = "pending"
  /\ UNCHANGED <<table, frame, stack>>

\* Pack: field n of the new table is set, then its elements from the stack, batch
\* by batch; it has no metatable.  `length` is n, and `batch` counts the elements
\* stored.
PackBatch ==
  /\ pc \in {"begin", "pending"} /\ call.op = "pack"
  /\ length' = Len(stack)
  /\ \E n \in 0..(Len(stack) - batch) :
       /\ n >= MIN_BATCH_SIZE \/ n = Len(stack) - batch
       /\ batch' = batch + n
       /\ own' = [k \in Keys |-> IF k \in (batch + 1)..(batch + n) THEN stack[k] ELSE own[k]]
       /\ IF batch + n < Len(stack) THEN pc' = "pending" /\ UNCHANGED stack
                                    ELSE pc' = "done" /\ stack' = <<Tab>>
  /\ UNCHANGED <<array_len, backing, meta, call, plan, fuel_used, start, disturbed>>

\* Other code assigns an entry meanwhile.
Interfere ==
  /\ pc \in {"await", "await_len", "pending"} /\ call.op # "pack" /\ ~disturbed
  /\ \E k \in Slots, v \in {Nil, Other} :
       \/ own' = [own EXCEPT ![k] = v] /\ UNCHANGED backing
       \/ backing' = [backing EXCEPT ![k] = v] /\ UNCHANGED own
  /\ disturbed' = TRUE
  /\ UNCHANGED <<array_len, meta, call, length, plan, batch, fuel_used, start, pc, stack>>

\* The end of the behaviour.
Ended == pc \in {"done", "error", "raised"} /\ UNCHANGED vars

Next ==
  \/ BeginFast \/ BeginFallback \/ BeginUnpack \/ FindLength \/ LengthFound
  \/ GetHere \/ SetHere \/ GetAnswered \/ SetAnswered \/ MetaError \/ Return
  \/ \E kind \in {"get", "set"} : CallMeta(kind) \/ BadMeta(kind)
  \/ NextBatch \/ Pending \/ PackBatch \/ Interfere \/ Ended

Spec == Init /\ [][Next]_vars
-----------------------------------------------------------------------------
(* What is checked. *)

TypeOK ==
  /\ {own, backing} \subseteq [Keys -> Values] /\ array_len \in 0..MAX /\ meta \in Metatables
  /\ call \in Calls /\ length \in Keys
  /\ pc \in {"begin", "length", "await_len", "run", "await", "pending", "done", "error", "raised"}
  /\ \A i \in DOMAIN plan : plan[i].key \in Keys /\ plan[i].bottom \in 0..MAX
  /\ \A i \in DOMAIN stack : stack[i] \in Keys \cup Values \cup {Tab}
  /\ batch \in 0..MAX /\ fuel_used \in 0..MAX

\* index_helper, index_set_helper and Unpack call each metamethod with its own
\* arguments and nothing else, whatever the calls before it returned: the stack
\* was cut back to the bottom the callee is given.
ArgumentsExact ==
  pc = "await" =>
    LET args == SubSeq(stack, access.bottom + 1, Len(stack)) IN
    /\ Len(args) = IF access.kind = "get" THEN 2 ELSE 3
    /\ args[1] = Tab /\ args[2] = access.key

\* However many values metamethods return, and whatever other code does to the
\* table meanwhile, remove and pack return one value, insert none, and unpack as
\* many as its range had when it began.
ResultCount ==
  pc = "done" =>
    Len(stack) = CASE call.op \in {"remove", "pack"} -> 1
                   [] call.op = "insert" -> 0
                   [] call.op = "unpack" -> length

\* Both: the sequence and what it calls agree on where each one's values are.
StackExact == ArgumentsExact /\ ResultCount

\* Reads and writes of absent keys go to the same place.
Coherent == (meta.index = "none") <=> (meta.newindex = "none")
Undisturbed == Coherent /\ ~disturbed

Index == IF Given THEN call.index ELSE IF call.op = "insert" THEN length + 1 ELSE length

Removed(i, n) ==
  [k \in Keys |-> IF k = n THEN Nil ELSE IF k \in i..(n - 1) THEN start[k + 1] ELSE start[k]]
Inserted(i, n) ==
  [k \in Keys |-> IF k = i THEN New ELSE IF k \in (i + 1)..(n + 1) THEN start[k - 1] ELSE start[k]]

\* Position 0 of an empty table, which is what table.remove(t) takes when #t = 0.
EmptyRemoval == call.op = "remove" /\ Index = 0 /\ length = 0

\* The fast paths and the fallbacks agree with one definition of each function
\* on what the table shows, wherever its entries are kept: an element taken out
\* or put in and the rest shifted by one, a range returned, or an error and
\* nothing changed.  There is one call they disagree on: an EmptyRemoval returns
\* nil on the fast path and raises an error on the fallback (EmptyRemovalIsNil).
ResultCorrect ==
  /\ pc = "done" /\ Undisturbed =>
       CASE call.op = "remove" ->
              \/ Index \in 1..length /\ stack = <<start[Index]>> /\ Entries = Removed(Index, length)
              \/ /\ Index = length + 1 \/ (EmptyRemoval /\ ~use_fallback)
                 /\ stack = <<Nil>> /\ Entries = start
         [] call.op = "insert" -> Index \in 1..(length + 1) /\ Entries = Inserted(Index, length)
         [] call.op = "unpack" ->
              stack = [n \in 1..length |-> start[First + n - 1]] /\ Entries = start
         [] call.op = "pack" ->
              \A k \in Keys : Entries[k] = IF k \in DOMAIN start THEN start[k] ELSE Nil
  /\ pc = "error" /\ Undisturbed =>
       /\ Entries = start
       /\ call.op = "remove" => Index \notin 1..(length + 1) /\ (EmptyRemoval => use_fallback)
       /\ call.op = "insert" => Index \notin 1..(length + 1) \/ length = MAX

\* table.rs:191: "When the table is empty, table.remove(t, #t), will return nil",
\* and table.rs:263, in the fallback: "either index and length are zero, or index
\* == length + 1", where the two give nil.  Whatever metamethods the table has.
EmptyRemovalIsNil ==
  pc \in {"done", "error"} /\ Undisturbed /\ EmptyRemoval => pc = "done" /\ stack = <<Nil>>

\* When a metamethod raises an error halfway, every element of the table is
\* still somewhere in it, but for the one that was being removed.
ErrorLosesNothing ==
  pc = "raised" /\ Undisturbed =>
    \A k \in 1..length :
      start[k] # Nil /\ ~(call.op = "remove" /\ k = Index) => \E j \in Keys : Entries[j] = start[k]

\* FUEL_PER_SHIFTED_ITEM: the fast path and the fallback consume fuel for as many
\* elements as they shift, so that long shifts count against the time slice.
ShiftsCharged ==
  pc = "done" =>
    fuel_used = CASE call.op = "remove" /\ Index \in 1..length -> length - Index
                  [] call.op = "insert" -> length + 1 - Index
                  [] OTHER -> 0
=============================================================================
