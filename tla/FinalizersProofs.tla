-------------------------- MODULE FinalizersProofs --------------------------
(***************************************************************************)
(* For any heap, any program and any interleaving of collections with it:  *)
(* no registered thread and no table that is owed a finalizer is freed, no *)
(* finalizer is lost or queued more often than its table was registered,   *)
(* and, as long as stopped threads are not started again, every upvalue's  *)
(* thread outlives the upvalue or closes it.                               *)
(***************************************************************************)
EXTENDS Finalizers, StackLemmas

\* StrongLive, edge by edge.
Edgewise ==
  /\ held \subseteq live /\ Pending \subseteq live
  /\ \A o \in live \cap Tables : refs[o] \subseteq live
  /\ \A u \in UpVals : upval[u].thread \in live =>
       u \in live /\ upval[u].val \in live \cup {Nil}
  /\ \A u \in live \cap UpVals : upval[u].thread = Closed => upval[u].val \in live \cup {Nil}

\* The edges of a live object are live exactly when each of its references is.
LEMMA StrongEdgewise == TypeOK => (StrongLive <=> Edgewise)
<1> SUFFICES ASSUME TypeOK PROVE StrongLive <=> Edgewise
  OBVIOUS
<1> USE HeapAssumption DEF TypeOK, Obj, Values
<1>1. ASSUME StrongLive PROVE Edgewise
  <2>1. \A o \in live : Edges(o) \subseteq live
    BY <1>1 DEF StrongLive, IsClosed
  <2>2. \A o \in live \cap Tables : refs[o] \subseteq live
    BY <2>1 DEF Edges
  <2>3. ASSUME NEW u \in UpVals, upval[u].thread \in live
        PROVE  u \in live /\ upval[u].val \in live \cup {Nil}
    <3>1. upval[u].thread \in Threads /\ upval[u].thread \notin Tables
      BY <2>3
    <3>2. OpenOn(upval[u].thread) \cup Vals(OpenOn(upval[u].thread)) \subseteq live
      BY <2>1, <2>3, <3>1 DEF Edges
    <3> QED
      BY <3>2 DEF OpenOn, Vals
  <2>4. ASSUME NEW u \in live \cap UpVals, upval[u].thread = Closed
        PROVE  upval[u].val \in live \cup {Nil}
    <3>1. Vals({u}) \subseteq live
      BY <2>1, <2>4 DEF Edges
    <3> QED
      BY <3>1 DEF Vals
  <2> QED
    BY <1>1, <2>2, <2>3, <2>4 DEF StrongLive, Edgewise
<1>2. ASSUME Edgewise PROVE StrongLive
  <2>1. ASSUME NEW o \in live, NEW e \in Edges(o) PROVE e \in live
    <3>1. CASE o \in Tables
      BY <1>2, <2>1, <3>1 DEF Edges, Edgewise
    <3>2. CASE o \in Threads
      <4>1. o \notin Tables
        BY <3>2
      <4>2. e \in OpenOn(o) \cup Vals(OpenOn(o))
        BY <2>1, <3>2, <4>1 DEF Edges
      <4> QED
        BY <1>2, <4>2 DEF OpenOn, Vals, Edgewise
    <3>3. CASE o \in UpVals
      <4>1. o \notin Tables /\ o \notin Threads
        BY <3>3
      <4>2. upval[o].thread = Closed /\ e \in Vals({o})
        BY <2>1, <4>1 DEF Edges
      <4> QED
        BY <1>2, <3>3, <4>2 DEF Vals, Edgewise
    <3> QED
      BY <3>1, <3>2, <3>3
  <2> QED
    BY <1>2, <2>1 DEF StrongLive, IsClosed, Edgewise
<1> QED
  BY <1>1, <1>2

\* Marking from S: S is found, and all that is found is live and keeps its
\* edges.
LEMMA ClosureFacts ==
  ASSUME NEW S, S \subseteq live, IsClosed(live)
  PROVE  S \subseteq Closure(S) /\ Closure(S) \subseteq live /\ IsClosed(Closure(S))
<1>1. S \subseteq Closure(S) /\ Closure(S) \subseteq live
  BY DEF Closure
<1>2. ASSUME NEW o \in Closure(S), NEW e \in Edges(o) PROVE e \in Closure(S)
  <2>1. e \in live
    BY <1>1, <1>2 DEF IsClosed
  <2>2. ASSUME NEW M \in SUBSET live, S \subseteq M, IsClosed(M) PROVE e \in M
    <3>1. o \in M
      BY <1>2, <2>2 DEF Closure
    <3> QED
      BY <1>2, <2>2, <3>1 DEF IsClosed
  <2> QED
    BY <2>1, <2>2 DEF Closure
<1> QED
  BY <1>1, <1>2 DEF IsClosed

\* Elements of a list that grows, is popped from, or is consumed from the front.
LEMMA ElementsAppend ==
  ASSUME NEW S, NEW s \in Seq(S), NEW e \in S
  PROVE  Append(s, e) \in Seq(S) /\ Elements(Append(s, e)) = Elements(s) \cup {e}
<1>1. /\ Append(s, e) \in Seq(S) /\ Len(Append(s, e)) = Len(s) + 1 /\ Len(s) \in Nat
      /\ \A i \in 1..Len(s) : Append(s, e)[i] = s[i]
      /\ Append(s, e)[Len(s) + 1] = e
  BY PushElements
<1>2. 1..(Len(s) + 1) = (1..Len(s)) \cup {Len(s) + 1}
  BY <1>1
<1> QED
  BY <1>1, <1>2 DEF Elements

\* Popping a list loses at most its top.
LEMMA ElementsPop ==
  ASSUME NEW S, NEW s \in Seq(S), s # << >>
  PROVE  /\ Pop(s) \in Seq(S) /\ Elements(Pop(s)) \subseteq Elements(s)
         /\ Top(s) \in Elements(s) /\ Top(s) \in S
         /\ Elements(s) = Elements(Pop(s)) \cup {Top(s)}
<1>1. Len(s) \in Nat /\ Len(s) > 0 /\ Top(s) \in S
  BY NonEmpty
<1>2. Pop(s) \in Seq(S) /\ Len(Pop(s)) = Len(s) - 1 /\ \A i \in 1..(Len(s) - 1) : Pop(s)[i] = s[i]
  BY PopElements
<1>3. 1..Len(s) = (1..(Len(s) - 1)) \cup {Len(s)}
  BY <1>1
<1>4. Elements(s) = Elements(Pop(s)) \cup {Top(s)}
  BY <1>1, <1>2, <1>3 DEF Elements, Top
<1> QED
  BY <1>1, <1>2, <1>4

\* Consuming a list from the front.
LEMMA ElementsTail ==
  ASSUME NEW S, NEW s \in Seq(S), s # << >>
  PROVE  /\ Tail(s) \in Seq(S) /\ Head(s) \in S
         /\ Elements(s) = {Head(s)} \cup Elements(Tail(s))
<1>1. Len(s) \in Nat /\ Len(s) > 0 /\ \A i \in 1..Len(s) : s[i] \in S
  BY NonEmpty
<1>2. /\ Tail(s) \in Seq(S) /\ Len(Tail(s)) = Len(s) - 1 /\ Head(s) = s[1]
      /\ \A i \in 1..(Len(s) - 1) : Tail(s)[i] = s[i + 1]
  BY <1>1
<1>3. ASSUME NEW x \in Elements(s) PROVE x \in {Head(s)} \cup Elements(Tail(s))
  <2>1. PICK i \in 1..Len(s) : x = s[i]
    BY DEF Elements
  <2>2. CASE i = 1
    BY <1>2, <2>1, <2>2
  <2>3. CASE i # 1
    <3>1. i - 1 \in 1..(Len(s) - 1) /\ (i - 1) + 1 = i
      BY <1>1, <2>1, <2>3
    <3> QED
      BY <1>2, <2>1, <3>1 DEF Elements
  <2> QED
    BY <2>2, <2>3
<1>4. ASSUME NEW x \in Elements(Tail(s)) PROVE x \in Elements(s)
  <2>1. PICK i \in 1..(Len(s) - 1) : x = s[i + 1]
    BY <1>2 DEF Elements
  <2>2. i + 1 \in 1..Len(s)
    BY <1>1, <2>1
  <2> QED
    BY <2>1, <2>2 DEF Elements
<1>5. Head(s) \in Elements(s) /\ Head(s) \in S
  BY <1>1, <1>2 DEF Elements
<1> QED
  BY <1>2, <1>3, <1>4, <1>5

\* A step of the program keeps the heap in order and is none of the collector's.
LEMMA ProgramHeap == ASSUME HeapInv, Program PROVE HeapInv'
<1> USE HeapAssumption DEF Obj, Values
<1>1. TypeOK /\ Edgewise /\ FreshEmpty /\ threads \subseteq live
  BY StrongEdgewise DEF HeapInv, TrackedThreadsLive
<1>l. ListedLive
  BY DEF HeapInv
<1> DEFINE Good == TypeOK' /\ Edgewise' /\ FreshEmpty' /\ TrackedThreadsLive'
<1>2. ASSUME Mutator, Good, Elements(finalizable') \subseteq live', live \subseteq live'
      PROVE  HeapInv'
  <2>1. (TypeOK => (StrongLive <=> Edgewise))'
    BY StrongEdgewise, PTL
  <2>2. phase' \in MutatorPhases
    BY <1>2 DEF Mutator, cycle
  <2>3. RootsMarked' /\ FinalizedThreads' /\ KeptMarked'
    BY <2>2 DEF RootsMarked, FinalizedThreads, KeptMarked, MutatorPhases
  <2>4. ListedLive'
    BY <1>2, <1>l DEF ListedLive, Mutator, cycle
  <2> QED
    BY <1>2, <2>1, <2>3, <2>4 DEF HeapInv
<1>u. ASSUME Mutator, Good, finalizable' = finalizable, live \subseteq live' PROVE HeapInv'
  BY <1>2, <1>l, <1>u DEF ListedLive
<1> USE DEF Mutator, cycle, gcState, heap, held, Pending
<1>3. ASSUME NEW o \in Tables, NewTable(o) PROVE HeapInv'
  <2>1. Good
    BY <1>1, <1>3 DEF NewTable, Allocate, Hold, TypeOK, Edgewise, FreshEmpty, TrackedThreadsLive
  <2> QED
    BY <1>u, <1>3, <2>1 DEF NewTable, Allocate
<1>4. ASSUME NEW o \in Tables, SetMetatable(o) PROVE HeapInv'
  <2>1. Good
    BY <1>1, <1>4 DEF SetMetatable, TypeOK, Edgewise, FreshEmpty, TrackedThreadsLive
  <2>2. Elements(finalizable') = Elements(finalizable) \cup {o} /\ o \in live
    BY <1>1, <1>4, ElementsAppend DEF SetMetatable, TypeOK, Edgewise
  <2> QED
    BY <1>2, <1>l, <1>4, <2>1, <2>2 DEF SetMetatable, ListedLive
<1>5. ASSUME NEW o \in Tables, ClearMetatable(o) PROVE HeapInv'
  <2>1. Good
    BY <1>1, <1>5 DEF ClearMetatable, TypeOK, Edgewise, FreshEmpty, TrackedThreadsLive
  <2> QED
    BY <1>u, <1>5, <2>1 DEF ClearMetatable
<1>6. ASSUME NEW t \in Threads, NewThread(t) PROVE HeapInv'
  <2>1. Good
    BY <1>1, <1>6 DEF NewThread, Allocate, Hold, TypeOK, Edgewise, FreshEmpty, TrackedThreadsLive
  <2> QED
    BY <1>u, <1>6, <2>1 DEF NewThread, Allocate
<1>7. ASSUME NEW t \in Threads, FinishThread(t) PROVE HeapInv'
  <2>1. Good
    BY <1>1, <1>7 DEF FinishThread, CloseAll, TypeOK, Edgewise, FreshEmpty, TrackedThreadsLive
  <2> QED
    BY <1>u, <1>7, <2>1 DEF FinishThread
<1>8. ASSUME NEW t \in Threads, StartThread(t) PROVE HeapInv'
  <2>1. Good
    BY <1>1, <1>8 DEF StartThread, TypeOK, Edgewise, FreshEmpty, TrackedThreadsLive
  <2> QED
    BY <1>u, <1>8, <2>1 DEF StartThread
<1>9. ASSUME NEW u \in UpVals, NEW v \in (held \cap Values) \cup {Nil}, SetUpValue(u, v)
      PROVE  HeapInv'
  <2>1. upval \in [UpVals -> [thread : Threads \cup {Closed}, val : Values]]
    BY <1>1 DEF TypeOK
  <2>2. upval' = [upval EXCEPT ![u] = [@ EXCEPT !.val = v]]
    BY <1>9 DEF SetUpValue
  <2>3. upval' \in [UpVals -> [thread : Threads \cup {Closed}, val : Values]]
    BY <2>1, <2>2
  <2>4. \A w \in UpVals : /\ upval'[w].thread = upval[w].thread
                         /\ upval'[w].val = IF w = u THEN v ELSE upval[w].val
    BY <2>1, <2>2
  <2>5. TypeOK'
    BY <1>1, <1>9, <2>3 DEF SetUpValue, TypeOK
  <2>6. Edgewise' /\ FreshEmpty' /\ TrackedThreadsLive'
    BY <1>1, <1>9, <2>4 DEF SetUpValue, TypeOK, Edgewise, FreshEmpty, TrackedThreadsLive
  <2> QED
    BY <1>u, <1>9, <2>5, <2>6 DEF SetUpValue
<1>10. ASSUME NEW u \in UpVals, NEW v \in (held \cap Values) \cup {Nil}, NEW t \in Threads,
              OpenUpValue(t, u, v)
       PROVE  HeapInv'
  <2>1. Good
    BY <1>1, <1>10 DEF OpenUpValue, Allocate, Hold, TypeOK, Edgewise, FreshEmpty, TrackedThreadsLive
  <2> QED
    BY <1>u, <1>10, <2>1 DEF OpenUpValue, Allocate
<1>11. ASSUME NEW o \in Tables, NEW v \in held, SetField(o, v) PROVE HeapInv'
  <2>1. Good
    BY <1>1, <1>11 DEF SetField, TypeOK, Edgewise, FreshEmpty, TrackedThreadsLive
  <2> QED
    BY <1>u, <1>11, <2>1 DEF SetField
<1>12. ASSUME NEW o \in Obj, NEW v \in Obj, Load(o, v) PROVE HeapInv'
  <2>1. v \in live
    <3>1. CASE v \in Edges(o)
      BY <1>12, <3>1 DEF Load, HeapInv, StrongLive, IsClosed
    <3>2. CASE o \in UpVals /\ Accessible(o) /\ v \in Vals({o})
      BY <1>1, <1>12, <3>2 DEF Load, Accessible, Vals, Edgewise, TypeOK
    <3> QED
      BY <1>12, <3>1, <3>2 DEF Load
  <2>2. Good
    BY <1>1, <1>12, <2>1 DEF Load, Hold, TypeOK, Edgewise, FreshEmpty, TrackedThreadsLive
  <2> QED
    BY <1>u, <1>12, <2>2 DEF Load
<1>13. ASSUME NEW o \in Obj, Drop(o) PROVE HeapInv'
  <2>1. Good
    BY <1>1, <1>13 DEF Drop, TypeOK, Edgewise, FreshEmpty, TrackedThreadsLive
  <2> QED
    BY <1>u, <1>13, <2>1 DEF Drop
<1> QED
  BY <1>3, <1>4, <1>5, <1>6, <1>7, <1>8, <1>9, <1>10, <1>11, <1>12, <1>13 DEF Program

\* A step of the collector keeps the heap in order: everything dead that goes
\* has been found dead by a marking that no later change made stale.
LEMMA CollectorHeap == ASSUME HeapInv, Collector PROVE HeapInv'
<1> USE HeapAssumption DEF Obj, Values
<1>1. /\ TypeOK /\ FreshEmpty /\ StrongLive /\ RootsMarked /\ threads \subseteq live
      /\ FinalizedThreads /\ Edgewise /\ ListedLive /\ KeptMarked
  BY StrongEdgewise DEF HeapInv, TrackedThreadsLive
<1>2. (TypeOK => (StrongLive <=> Edgewise))'
  BY StrongEdgewise, PTL
<1>3. \A S \in SUBSET live : S \subseteq Closure(S) /\ Closure(S) \subseteq live
  BY <1>1, ClosureFacts DEF StrongLive
<1> USE DEF HeapInv, MutatorPhases, Phases, TrackedThreadsLive
<1>4. ASSUME NEW floating \in SUBSET live, NEW h \in {"enter", "gc_collect", "run_finalizers"},
             EndMark(floating, h)
      PROVE  HeapInv'
  <2>1. held \cup Pending \cup floating \subseteq marked' /\ marked' \subseteq live
    BY <1>1, <1>3, <1>4 DEF EndMark, StrongLive
  <2>2. UNCHANGED <<fresh, live, refs, upval, active, has_gc, threads, finalizable, pending, owed, tracked>>
    BY <1>4 DEF EndMark, heap, gcState
  <2>3. held' = held /\ Pending' = Pending
    BY <2>2 DEF held, Pending
  <2>4. TypeOK'
    BY <1>1, <1>4, <2>1, <2>2 DEF TypeOK, EndMark
  <2>5. Edgewise' /\ FreshEmpty'
    BY <1>1, <2>2, <2>3 DEF Edgewise, FreshEmpty
  <2>6. RootsMarked' /\ FinalizedThreads' /\ threads' \subseteq live' /\ ListedLive' /\ KeptMarked'
    BY <1>1, <1>4, <2>1, <2>2, <2>3 DEF RootsMarked, FinalizedThreads, ListedLive, KeptMarked, EndMark
  <2> QED
    BY <1>2, <2>4, <2>5, <2>6
<1>5. ASSUME UNCHANGED heap, UNCHANGED <<has_gc, threads>>, UNCHANGED marked, TypeOK',
             Pending' = Pending,
             ListedLive', KeptMarked',
             phase' # "Finalized", phase \in MutatorPhases <=> phase' \in MutatorPhases
      PROVE  HeapInv'
  <2>1. held' = held
    BY <1>5 DEF held, heap
  <2>2. Edgewise' /\ FreshEmpty' /\ threads' \subseteq live'
    BY <1>1, <1>5, <2>1 DEF Edgewise, FreshEmpty, heap
  <2>3. RootsMarked' /\ FinalizedThreads'
    BY <1>1, <1>5, <2>1 DEF RootsMarked, FinalizedThreads
  <2> QED
    BY <1>2, <1>5, <2>2, <2>3
<1>6. ASSUME CollectDebt PROVE HeapInv'
  <2>1. PICK floating \in SUBSET live : EndMark(floating, host)
    BY <1>6 DEF CollectDebt
  <2>2. host \in {"enter", "gc_collect", "run_finalizers"}
    BY <1>1 DEF TypeOK
  <2> QED
    BY <1>4, <2>1, <2>2
<1>7. ASSUME GcCollect PROVE HeapInv'
  <2>1. CASE \E floating \in SUBSET live : EndMark(floating, "gc_collect")
    BY <1>4, <2>1
  <2>2. CASE /\ phase = "Sweeping" /\ phase' = "Mutating" /\ host' = "run_finalizers"
             /\ UNCHANGED <<heap, gcState, marked, todo, tracked>>
    <3>1. TypeOK' /\ Pending' = Pending /\ ListedLive' /\ KeptMarked'
      BY <1>1, <2>2 DEF TypeOK, heap, gcState, Pending, ListedLive, KeptMarked
    <3> QED
      BY <1>5, <2>2, <3>1 DEF gcState
  <2> QED
    BY <1>7, <2>1, <2>2 DEF GcCollect
<1>8. ASSUME NEW t \in Threads, PrepareThread(t) PROVE HeapInv'
  <2>1. UNCHANGED <<fresh, live, refs, upval, active, has_gc, threads, finalizable, pending, owed, tracked, host, phase>>
    BY <1>8 DEF PrepareThread, heap, gcState
  <2>2. held' = held /\ Pending' = Pending /\ t \in live
    BY <1>1, <1>8, <2>1 DEF held, Pending, TypeOK, PrepareThread
  <2>3. Vals(OpenOn(t) \cap marked) \subseteq live
    BY <1>1, <2>2 DEF Vals, OpenOn, Edgewise
  <2>4. marked \subseteq marked' /\ marked' \subseteq live
    BY <1>1, <1>8, <2>3 DEF PrepareThread, TypeOK
  <2>5. TypeOK'
    BY <1>1, <1>8, <2>1, <2>4 DEF TypeOK, PrepareThread
  <2>6. Edgewise' /\ FreshEmpty'
    BY <1>1, <2>1, <2>2 DEF Edgewise, FreshEmpty
  <2>7. RootsMarked' /\ FinalizedThreads' /\ threads' \subseteq live' /\ ListedLive' /\ KeptMarked'
    BY <1>1, <2>1, <2>2, <2>4 DEF RootsMarked, FinalizedThreads, ListedLive, KeptMarked
  <2> QED
    BY <1>2, <2>5, <2>6, <2>7
<1>9. ASSUME PrepareThreadsDone PROVE HeapInv'
  <2>1. TypeOK' /\ Pending' = Pending
    BY <1>1, <1>9 DEF TypeOK, PrepareThreadsDone, heap, Pending
  <2>2. Elements(<< >>) = {}
    BY DEF Elements
  <2>3. ListedLive' /\ KeptMarked'
    BY <1>1, <1>9, <2>2 DEF PrepareThreadsDone, ListedLive, KeptMarked, heap
  <2> QED
    BY <1>5, <1>9, <2>1, <2>3 DEF PrepareThreadsDone
<1>10. ASSUME PrepareTable PROVE HeapInv'
  <2> DEFINE o == Head(tracked)
  <2>1. UNCHANGED <<fresh, live, refs, upval, active, has_gc, threads, phase, todo, host>>
    BY <1>10 DEF PrepareTable, heap
  <2>2. /\ o \in Tables /\ tracked' \in Seq(Tables)
        /\ Elements(tracked) = {o} \cup Elements(tracked')
    BY <1>1, <1>10, ElementsTail DEF PrepareTable, TypeOK
  <2>3. o \in live /\ Elements(tracked') \subseteq live
    BY <1>1, <2>2 DEF ListedLive
  <2>4. /\ finalizable' \in Seq(Tables) /\ pending' \in Seq(Tables)
        /\ marked \subseteq marked' /\ marked' \subseteq live /\ owed' \subseteq Tables
        /\ Elements(finalizable') \subseteq Elements(finalizable) \cup (marked \cap {o})
        /\ Pending' \subseteq Pending \cup (marked' \cap {o})
    <3>0. /\ finalizable \in Seq(Tables) /\ pending \in Seq(Tables)
          /\ marked \subseteq live /\ owed \subseteq Tables
      BY <1>1 DEF TypeOK
    <3>f. Append(finalizable, o) \in Seq(Tables) /\ Elements(Append(finalizable, o)) = Elements(finalizable) \cup {o}
      BY <2>2, <3>0, ElementsAppend
    <3>p. Append(pending, o) \in Seq(Tables) /\ Elements(Append(pending, o)) = Elements(pending) \cup {o}
      BY <2>2, <3>0, ElementsAppend
    <3> HIDE DEF o
    <3>1. CASE o \in marked
      <4>1. finalizable' = Append(finalizable, o) /\ UNCHANGED <<marked, pending, owed>>
        BY <1>10, <3>1 DEF PrepareTable, o
      <4> QED
        BY <3>0, <3>f, <3>1, <4>1 DEF Pending
    <3>2. CASE o \notin marked
      <4>1. /\ marked' = marked \cup {o} /\ finalizable' = finalizable
            /\ \/ pending' = Append(pending, o) /\ owed' = owed \ {o}
               \/ pending' = pending /\ owed' = owed
        BY <1>10, <3>2 DEF PrepareTable, o
      <4> QED
        BY <2>3, <3>0, <3>p, <4>1 DEF Pending
    <3> QED
      BY <3>1, <3>2
  <2>5. phase = "PrepTables" /\ held' = held
    BY <1>10, <2>1 DEF PrepareTable, held
  <2>6. TypeOK'
    BY <1>1, <2>1, <2>2, <2>4, <2>5 DEF TypeOK
  <2>7. Edgewise' /\ FreshEmpty'
    BY <1>1, <2>1, <2>4, <2>5 DEF Edgewise, FreshEmpty
  <2>8. RootsMarked' /\ FinalizedThreads' /\ threads' \subseteq live' /\ ListedLive' /\ KeptMarked'
    BY <1>1, <2>1, <2>3, <2>4, <2>5 DEF RootsMarked, FinalizedThreads, ListedLive, KeptMarked
  <2> QED
    BY <1>2, <2>6, <2>7, <2>8
<1>11. ASSUME PrepareDone PROVE HeapInv'
  <2>1. TypeOK' /\ Pending' = Pending /\ ListedLive' /\ KeptMarked'
    BY <1>1, <1>11 DEF TypeOK, PrepareDone, heap, gcState, Pending, ListedLive, KeptMarked
  <2> QED
    BY <1>5, <1>11, <2>1 DEF PrepareDone, gcState
<1>12. ASSUME Finalize PROVE HeapInv'
  <2> DEFINE found == Closure(marked)
             dead == threads \ found
  <2>1. marked \subseteq found /\ found \subseteq live
    BY <1>1, <1>3 DEF TypeOK
  <2>2. /\ UNCHANGED <<fresh, live, refs, has_gc, finalizable, pending, owed, todo, tracked, host>>
        /\ marked' = found /\ active' = active \ dead /\ threads' = threads \ dead
        /\ phase = "Finalizing" /\ phase' = "Finalized" /\ CloseAll(dead)
    BY <1>12 DEF Finalize
  <2> HIDE DEF found
  <2>3. held' = held /\ Pending' = Pending
    BY <2>2 DEF held, Pending
  <2>a. upval' \in [UpVals -> [thread : Threads \cup {Closed}, val : Values]]
    BY <1>1, <2>2 DEF TypeOK, CloseAll
  <2>4. TypeOK'
    BY <1>1, <2>1, <2>2, <2>a DEF TypeOK
  <2>5. Edgewise' /\ FreshEmpty'
    BY <1>1, <2>2, <2>3 DEF Edgewise, FreshEmpty, CloseAll, TypeOK
  <2>6. RootsMarked' /\ FinalizedThreads' /\ threads' \subseteq live' /\ ListedLive' /\ KeptMarked'
    BY <1>1, <2>1, <2>2, <2>3 DEF RootsMarked, FinalizedThreads, ListedLive, KeptMarked
  <2> QED
    BY <1>2, <2>4, <2>5, <2>6
<1>13. ASSUME Sweep PROVE HeapInv'
  <2>1. marked \subseteq live' /\ live' \subseteq live /\ IsClosed(live')
    BY <1>1, <1>13, ClosureFacts DEF Sweep, TypeOK, StrongLive
  <2>2. /\ UNCHANGED <<fresh, refs, upval, active, has_gc, threads, finalizable, pending, owed, todo, tracked>>
        /\ marked' = {} /\ phase = "Finalized" /\ phase' \in MutatorPhases
        /\ host' \in {host, "run_finalizers"}
    BY <1>13 DEF Sweep, gcState
  <2>3. held' = held /\ Pending' = Pending
    BY <2>2 DEF held, Pending
  <2>4. TypeOK'
    BY <1>1, <2>1, <2>2 DEF TypeOK
  <2>5. \A o : Edges(o)' = Edges(o)
    BY <2>2 DEF Edges, OpenOn, Vals
  <2>6. StrongLive' /\ FreshEmpty'
    BY <1>1, <2>1, <2>2, <2>3, <2>5 DEF StrongLive, FreshEmpty, IsClosed, RootsMarked
  <2>7. Elements(tracked) = {}
    BY <1>1, <2>2 DEF TypeOK, Elements
  <2>8. RootsMarked' /\ FinalizedThreads' /\ threads' \subseteq live' /\ ListedLive' /\ KeptMarked'
    BY <1>1, <2>1, <2>2, <2>7 DEF RootsMarked, FinalizedThreads, ListedLive, KeptMarked
  <2> QED
    BY <2>4, <2>6, <2>8
<1>14. ASSUME EndSweep PROVE HeapInv'
  <2>1. TypeOK' /\ Pending' = Pending /\ ListedLive' /\ KeptMarked'
    BY <1>1, <1>14 DEF TypeOK, EndSweep, heap, gcState, Pending, ListedLive, KeptMarked
  <2> QED
    BY <1>5, <1>14, <2>1 DEF EndSweep, gcState
<1>15. ASSUME RunFinalizer PROVE HeapInv'
  <2>1. /\ UNCHANGED <<fresh, live, upval, active, has_gc, threads, finalizable, owed, phase, marked, todo, tracked>>
        /\ phase \in MutatorPhases
    BY <1>15 DEF RunFinalizer
  <2>2. /\ refs' \in [Tables \cup {Root} -> SUBSET Obj] /\ pending' \in Seq(Tables)
        /\ \A o \in Tables : refs'[o] = refs[o]
        /\ host' \in {host, "enter"}
        /\ held' \cup Pending' \subseteq held \cup Pending
    <3>1. CASE pending = << >>
      BY <1>1, <1>15, <3>1 DEF RunFinalizer, TypeOK, held, Pending
    <3>2. CASE pending # << >>
      <4>1. Pop(pending) \in Seq(Tables) /\ Elements(Pop(pending)) \subseteq Pending /\ Top(pending) \in Pending
            /\ Top(pending) \in Tables
        BY <1>1, <3>2, ElementsPop DEF TypeOK, Pending
      <4>2. pending' = Pop(pending) /\ refs' = [refs EXCEPT ![Root] = @ \cup {Top(pending)}] /\ host' = host
        BY <1>15, <3>2 DEF RunFinalizer, Hold
      <4> QED
        BY <1>1, <4>1, <4>2 DEF TypeOK, held, Pending
    <3> QED
      BY <3>1, <3>2
  <2>3. TypeOK'
    BY <1>1, <2>1, <2>2 DEF TypeOK
  <2>4. Edgewise' /\ FreshEmpty'
    BY <1>1, <2>1, <2>2 DEF Edgewise, FreshEmpty
  <2>5. RootsMarked' /\ FinalizedThreads' /\ threads' \subseteq live' /\ ListedLive' /\ KeptMarked'
    BY <1>1, <2>1 DEF RootsMarked, FinalizedThreads, ListedLive, KeptMarked
  <2> QED
    BY <1>2, <2>3, <2>4, <2>5
<1> QED
  BY <1>6, <1>7, <1>8, <1>9, <1>10, <1>11, <1>12, <1>13, <1>14, <1>15 DEF Collector

\* The initial heap is empty.
LEMMA InitHeap == Init => HeapInv /\ OwedListed /\ LuaInv
<1> SUFFICES ASSUME Init PROVE HeapInv /\ OwedListed /\ LuaInv
  OBVIOUS
<1> USE HeapAssumption DEF Obj, Values
<1>1. TypeOK
  BY DEF Init, TypeOK, Phases, MutatorPhases
<1>2. Elements(<< >>) = {}
  BY DEF Elements
<1>3. Edgewise /\ FreshEmpty /\ ListedLive /\ OwedListed
  BY <1>2 DEF Init, Edgewise, FreshEmpty, ListedLive, OwedListed, held, Pending
<1>4. RootsMarked /\ TrackedThreadsLive /\ FinalizedThreads /\ KeptMarked /\ LuaInv
  BY DEF Init, RootsMarked, TrackedThreadsLive, FinalizedThreads, KeptMarked, LuaInv,
         UpValueThreadsLive, DroppedIdle, FinalizedUpValues, MutatorPhases
<1> QED
  BY <1>1, <1>3, <1>4, StrongEdgewise DEF HeapInv

\* Every step keeps the heap in order.
LEMMA NextHeap == HeapInv /\ [Next]_vars => HeapInv'
<1> SUFFICES ASSUME HeapInv, [Next]_vars PROVE HeapInv'
  OBVIOUS
<1>1. CASE UNCHANGED vars
  <2>1. \A o : Edges(o)' = Edges(o)
    BY <1>1 DEF vars, heap, Edges, OpenOn, Vals
  <2>2. StrongLive'
    BY <1>1, <2>1 DEF HeapInv, StrongLive, IsClosed, held, Pending, vars, heap, gcState
  <2> QED
    BY <1>1, <2>2 DEF vars, heap, gcState, cycle, HeapInv, TypeOK, FreshEmpty, RootsMarked, held, Pending,
                      TrackedThreadsLive, FinalizedThreads, ListedLive, KeptMarked
<1> QED
  BY <1>1, ProgramHeap, CollectorHeap DEF Next

\* A table that is owed a finalizer stays in a list until it is queued.
LEMMA NextOwed == HeapInv /\ OwedListed /\ [Next]_vars => OwedListed'
<1> SUFFICES ASSUME HeapInv, OwedListed, [Next]_vars PROVE OwedListed'
  OBVIOUS
<1>1. TypeOK
  BY DEF HeapInv
<1>2. ASSUME UNCHANGED <<has_gc, finalizable, tracked, owed>> PROVE OwedListed'
  BY <1>2 DEF OwedListed
<1>3. CASE Program
  <2>1. ASSUME NEW o \in Tables, SetMetatable(o) PROVE OwedListed'
    <3>1. Elements(finalizable') = Elements(finalizable) \cup {o}
      BY <1>1, <2>1, ElementsAppend DEF TypeOK, SetMetatable
    <3> QED
      BY <2>1, <3>1 DEF OwedListed, SetMetatable, Mutator, cycle
  <2>2. ASSUME NEW o \in Tables, ClearMetatable(o) PROVE OwedListed'
    BY <2>2 DEF OwedListed, ClearMetatable, Mutator, cycle
  <2>3. ASSUME Mutator, UNCHANGED <<has_gc, finalizable, owed>> PROVE OwedListed'
    BY <1>2, <2>3 DEF Mutator, cycle
  <2> QED
    BY <1>3, <2>1, <2>2, <2>3
       DEF Program, NewTable, NewThread, FinishThread, StartThread, SetUpValue, OpenUpValue,
           SetField, Load, Drop, gcState
<1>4. CASE Collector
  <2>1. ASSUME PrepareThreadsDone PROVE OwedListed'
    <3>1. Elements(tracked) = {}
      BY <1>1, <2>1 DEF TypeOK, PrepareThreadsDone, Elements
    <3> QED
      BY <2>1, <3>1 DEF OwedListed, PrepareThreadsDone
  <2>2. ASSUME PrepareTable PROVE OwedListed'
    <3> DEFINE o == Head(tracked)
    <3>1. /\ o \in Tables /\ Elements(tracked) = {o} \cup Elements(tracked')
      BY <1>1, <2>2, ElementsTail DEF PrepareTable, TypeOK
    <3>2. Elements(Append(finalizable, o)) = Elements(finalizable) \cup {o}
      BY <1>1, <3>1, ElementsAppend DEF TypeOK
    <3>3. \/ finalizable' = Append(finalizable, o) /\ owed' = owed
          \/ finalizable' = finalizable /\ o \in has_gc /\ owed' = owed \ {o}
          \/ finalizable' = finalizable /\ o \notin has_gc /\ owed' = owed
      BY <2>2 DEF PrepareTable
    <3>4. has_gc' = has_gc
      BY <2>2 DEF PrepareTable
    <3> HIDE DEF o
    <3> QED
      BY <3>1, <3>2, <3>3, <3>4 DEF OwedListed
  <2> QED
    BY <1>2, <1>4, <2>1, <2>2
       DEF Collector, CollectDebt, GcCollect, EndMark, PrepareThread, PrepareDone, Finalize,
           Sweep, EndSweep, RunFinalizer, gcState
<1>5. CASE UNCHANGED vars
  BY <1>2, <1>5 DEF vars, gcState, cycle
<1> QED
  BY <1>3, <1>4, <1>5 DEF Next

\* As long as a stopped thread stays stopped, what finalize drops from its list
\* can never be pointed to by an open upvalue again.
LEMMA NextLua ==
  RestartDropped = FALSE /\ HeapInv /\ LuaInv /\ [Next]_vars => LuaInv'
<1> SUFFICES ASSUME RestartDropped = FALSE, HeapInv, LuaInv, [Next]_vars PROVE LuaInv'
  OBVIOUS
<1> USE HeapAssumption DEF Obj, Values, OpenOn
<1>1. TypeOK /\ held \subseteq live /\ FreshEmpty /\ marked \subseteq live /\ live \subseteq Obj
  BY DEF HeapInv, StrongLive, TypeOK
<1>2. UpValueThreadsLive /\ DroppedIdle /\ FinalizedUpValues
  BY DEF LuaInv
<1>3. ASSUME UNCHANGED <<live, active, threads>>, phase' # "Finalized",
             \A u \in UpVals : upval'[u].thread = upval[u].thread
      PROVE  LuaInv'
  BY <1>2, <1>3 DEF LuaInv, UpValueThreadsLive, DroppedIdle, FinalizedUpValues
<1>4. CASE Program
  <2>1. ASSUME Mutator PROVE phase' # "Finalized"
    BY <2>1 DEF Mutator, MutatorPhases, cycle
  <2>2. ASSUME NEW o \in Tables, NewTable(o) PROVE LuaInv'
    BY <1>1, <1>2, <2>1, <2>2 DEF NewTable, Allocate, LuaInv, UpValueThreadsLive, DroppedIdle, FinalizedUpValues, gcState
  <2>3. ASSUME NEW t \in Threads, NewThread(t) PROVE LuaInv'
    BY <1>1, <1>2, <2>1, <2>3 DEF NewThread, Allocate, LuaInv, UpValueThreadsLive, DroppedIdle, FinalizedUpValues, gcState
  <2>4. ASSUME NEW t \in Threads, FinishThread(t) PROVE LuaInv'
    BY <1>1, <1>2, <2>1, <2>4 DEF FinishThread, CloseAll, TypeOK, LuaInv, UpValueThreadsLive, DroppedIdle, FinalizedUpValues, gcState
  <2>5. ASSUME NEW u \in UpVals, NEW v \in (held \cap Values) \cup {Nil}, SetUpValue(u, v) PROVE LuaInv'
    <3>1. upval' = [upval EXCEPT ![u] = [@ EXCEPT !.val = v]]
      BY <2>5 DEF SetUpValue
    <3>2. \A w \in UpVals : upval'[w].thread = upval[w].thread
      BY <1>1, <3>1 DEF TypeOK
    <3> QED
      BY <1>3, <2>1, <2>5, <3>2 DEF SetUpValue, gcState
  <2>6. ASSUME NEW u \in UpVals, NEW v \in (held \cap Values) \cup {Nil}, NEW t \in Threads, OpenUpValue(t, u, v)
        PROVE  LuaInv'
    <3>1. \A w \in UpVals : upval'[w].thread = IF w = u THEN t ELSE upval[w].thread
      BY <1>1, <2>6 DEF OpenUpValue, TypeOK
    <3> QED
      BY <1>1, <1>2, <2>1, <2>6, <3>1
         DEF OpenUpValue, Allocate, LuaInv, UpValueThreadsLive, DroppedIdle, FinalizedUpValues, gcState
  <2>7. ASSUME Mutator, UNCHANGED <<live, upval, active, gcState>> PROVE LuaInv'
    BY <1>3, <2>1, <2>7 DEF gcState
  <2>8. ASSUME Mutator, UNCHANGED <<heap, threads>> PROVE LuaInv'
    BY <1>3, <2>1, <2>8 DEF heap
  <2>9. ASSUME NEW t \in Threads, StartThread(t) PROVE LuaInv'
    BY <1>1, <2>1, <2>9
       DEF StartThread, Mutator, gcState, OpenOn, LuaInv, UpValueThreadsLive, DroppedIdle, FinalizedUpValues,
           MutatorPhases
  <2> QED
    BY <1>4, <2>2, <2>3, <2>4, <2>5, <2>6, <2>7, <2>8, <2>9
       DEF Program, SetField, Load, Drop, SetMetatable, ClearMetatable
<1>5. CASE Collector
  <2>1. ASSUME Finalize PROVE LuaInv'
    <3> DEFINE dead == threads \ Closure(marked)
    <3>1. /\ live' = live /\ marked' = Closure(marked) /\ active' = active \ dead
          /\ threads' = threads \ dead /\ CloseAll(dead)
      BY <2>1 DEF Finalize
    <3>2. \A u \in UpVals : upval'[u].thread = IF upval[u].thread \in dead THEN Closed ELSE upval[u].thread
      BY <1>1, <3>1 DEF CloseAll, TypeOK
    <3>3. Closed \notin dead
      BY <1>1 DEF TypeOK
    <3>4. \A u \in live \cap UpVals : upval'[u].thread \in (live \cap Threads \cap threads') \cup {Closed}
      BY <1>1, <1>2, <3>1, <3>2 DEF UpValueThreadsLive, DroppedIdle, TypeOK
    <3>5. threads' \subseteq marked'
      BY <3>1
    <3>6. UpValueThreadsLive' /\ FinalizedUpValues'
      BY <3>1, <3>4, <3>5 DEF UpValueThreadsLive, FinalizedUpValues
    <3>7. DroppedIdle'
      BY <1>2, <3>1, <3>2, <3>3 DEF DroppedIdle
    <3> QED
      BY <3>6, <3>7 DEF LuaInv
  <2>2. ASSUME Sweep PROVE LuaInv'
    <3>1. marked \subseteq live' /\ live' \subseteq live
      BY <1>1, <2>2, ClosureFacts DEF Sweep, HeapInv, StrongLive
    <3>2. UNCHANGED <<upval, active, threads>> /\ phase = "Finalized" /\ phase' # "Finalized"
      BY <2>2 DEF Sweep, gcState
    <3> QED
      BY <1>2, <3>1, <3>2 DEF LuaInv, UpValueThreadsLive, DroppedIdle, FinalizedUpValues
  <2>3. ASSUME UNCHANGED <<live, upval, active, threads>>, phase' # "Finalized" PROVE LuaInv'
    BY <1>3, <2>3
  <2>4. ASSUME UNCHANGED <<heap, gcState>>, phase' # "Finalized" PROVE LuaInv'
    BY <2>3, <2>4 DEF heap, gcState
  <2>5. PrepareThreadsDone => UNCHANGED <<heap, threads>> /\ phase' # "Finalized"
    BY DEF PrepareThreadsDone
  <2>6. PrepareTable => UNCHANGED <<heap, threads>> /\ phase' # "Finalized"
    BY DEF PrepareTable
  <2>7. RunFinalizer => UNCHANGED <<live, upval, active, threads>> /\ phase' # "Finalized"
    BY DEF RunFinalizer, MutatorPhases
  <2>8. CollectDebt \/ GcCollect \/ PrepareDone \/ EndSweep \/ (\E t \in Threads : PrepareThread(t))
          => UNCHANGED <<heap, gcState>> /\ phase' # "Finalized"
    BY DEF CollectDebt, GcCollect, EndMark, PrepareDone, EndSweep, PrepareThread
  <2> QED
    BY <1>5, <2>1, <2>2, <2>3, <2>4, <2>5, <2>6, <2>7, <2>8 DEF Collector, heap
<1>6. CASE UNCHANGED vars
  BY <1>2, <1>6 DEF vars, heap, gcState, cycle, LuaInv, UpValueThreadsLive, DroppedIdle, FinalizedUpValues
<1> QED
  BY <1>4, <1>5, <1>6 DEF Next

\* What one step may do to a table that is owed a finalizer or queued for one.
Kept(o) ==
  \/ o \in owed' \cup Elements(pending')
  \/ o \notin has_gc'
  \/ host = "run_finalizers" /\ o = Top(pending) /\ o \in refs'[Root]

\* No step forgets a finalizer: only setmetatable, prepare and run_finalizers
\* change what is owed and what is queued.
LEMMA NextKept == TypeOK /\ [Next]_vars => \A o \in owed \cup Pending : Kept(o)
<1> SUFFICES ASSUME TypeOK, [Next]_vars, NEW o \in owed \cup Pending PROVE Kept(o)
  OBVIOUS
<1>1. ASSUME UNCHANGED <<pending, owed>> PROVE Kept(o)
  BY <1>1 DEF Kept, Pending
<1>2. CASE Program
  <2>1. ASSUME NEW p \in Tables, SetMetatable(p) PROVE Kept(o)
    BY <2>1 DEF SetMetatable, Kept, Pending
  <2>2. ASSUME NEW p \in Tables, ClearMetatable(p) PROVE Kept(o)
    BY <2>2 DEF ClearMetatable, Kept, Pending
  <2> QED
    BY <1>1, <1>2, <2>1, <2>2
       DEF Program, NewTable, NewThread, FinishThread, StartThread, SetUpValue, OpenUpValue,
           SetField, Load, Drop, gcState
<1>3. ASSUME PrepareTable PROVE Kept(o)
  <2>1. Head(tracked) \in Tables
    BY <1>3, ElementsTail DEF PrepareTable, TypeOK
  <2>2. Elements(Append(pending, Head(tracked))) = Pending \cup {Head(tracked)}
    BY <2>1, ElementsAppend DEF TypeOK, Pending
  <2>3. \/ UNCHANGED <<pending, owed>>
        \/ pending' = Append(pending, Head(tracked)) /\ owed' = owed \ {Head(tracked)}
    BY <1>3 DEF PrepareTable
  <2> QED
    BY <1>1, <2>2, <2>3 DEF Kept
<1>4. ASSUME RunFinalizer PROVE Kept(o)
  <2>1. CASE pending = << >>
    BY <1>1, <1>4, <2>1 DEF RunFinalizer
  <2>2. CASE pending # << >>
    <3>1. Pending = Elements(pending') \cup {Top(pending)}
      BY <1>4, <2>2, ElementsPop DEF RunFinalizer, TypeOK, Pending
    <3>2. Top(pending) \in refs'[Root] /\ owed' = owed /\ host = "run_finalizers"
      BY <1>4, <2>2 DEF RunFinalizer, Hold, TypeOK
    <3> QED
      BY <3>1, <3>2 DEF Kept
  <2> QED
    BY <2>1, <2>2
<1>5. CASE Collector
  BY <1>1, <1>3, <1>4, <1>5
     DEF Collector, CollectDebt, GcCollect, EndMark, PrepareThread, PrepareThreadsDone,
         PrepareDone, Finalize, Sweep, EndSweep, gcState
<1>6. CASE UNCHANGED vars
  BY <1>1, <1>6 DEF vars, gcState
<1> QED
  BY <1>2, <1>5, <1>6 DEF Next

\* The places of o in a stack are finitely many.
LEMMA CountType ==
  ASSUME NEW S, NEW s \in Seq(S), NEW o
  PROVE  IsFiniteSet({i \in DOMAIN s : s[i] = o}) /\ Count(o, s) \in Nat
<1>1. Len(s) \in Nat /\ DOMAIN s = 1..Len(s)
  OBVIOUS
<1>2. IsFiniteSet(1..Len(s))
  BY <1>1, FS_Interval
<1>3. {i \in DOMAIN s : s[i] = o} \in SUBSET (1..Len(s))
  BY <1>1
<1>4. IsFiniteSet({i \in DOMAIN s : s[i] = o})
  BY <1>2, <1>3, FS_Subset
<1> QED
  BY <1>4, FS_CardinalityType DEF Count

\* Nothing is in the empty list.
LEMMA CountEmpty ==
  ASSUME NEW o
  PROVE  Count(o, << >>) = 0
<1>1. {i \in DOMAIN << >> : << >>[i] = o} = {}
  OBVIOUS
<1> QED
  BY <1>1, FS_EmptySet DEF Count

\* Pushing an element gives it one place more, and no other.
LEMMA CountAppend ==
  ASSUME NEW S, NEW s \in Seq(S), NEW e \in S, NEW o
  PROVE  Count(o, Append(s, e)) = Count(o, s) + (IF e = o THEN 1 ELSE 0)
<1> DEFINE P == {i \in DOMAIN s : s[i] = o}
           t == Append(s, e)
           Q == {i \in DOMAIN t : t[i] = o}
<1>1. Len(s) \in Nat /\ DOMAIN s = 1..Len(s) /\ t \in Seq(S)
  BY PushElements
<1>2. /\ DOMAIN t = 1..(Len(s) + 1) /\ t[Len(s) + 1] = e
      /\ \A i \in 1..Len(s) : t[i] = s[i]
  BY <1>1, PushElements
<1>3. IsFiniteSet(P) /\ Cardinality(P) \in Nat
  BY CountType DEF Count
<1>4. Count(o, s) = Cardinality(P) /\ Count(o, t) = Cardinality(Q)
  BY DEF Count
<1>5. Len(s) + 1 \notin P /\ 1..(Len(s) + 1) = (1..Len(s)) \cup {Len(s) + 1} /\ Len(s) + 1 \notin 1..Len(s)
  BY <1>1
<1> HIDE DEF t
<1>6. CASE e = o
  <2>1. Q = P \cup {Len(s) + 1}
    BY <1>1, <1>2, <1>5, <1>6
  <2>2. Cardinality(P \cup {Len(s) + 1}) = Cardinality(P) + 1
    BY <1>3, <1>5, FS_AddElement
  <2> HIDE DEF P, Q
  <2> QED
    BY <1>4, <1>6, <2>1, <2>2 DEF t
<1>7. CASE e # o
  <2>1. Q = P
    BY <1>1, <1>2, <1>5, <1>7
  <2> HIDE DEF P, Q
  <2> QED
    BY <1>3, <1>4, <1>7, <2>1 DEF t
<1> QED
  BY <1>6, <1>7

\* Popping gives no element another place.
LEMMA CountPop ==
  ASSUME NEW S, NEW s \in Seq(S), s # << >>, NEW o
  PROVE  Count(o, Pop(s)) <= Count(o, s)
<1>1. Len(s) \in Nat /\ Len(s) > 0 /\ DOMAIN s = 1..Len(s)
  BY NonEmpty
<1>2. Pop(s) \in Seq(S) /\ DOMAIN Pop(s) = 1..(Len(s) - 1) /\ \A i \in 1..(Len(s) - 1) : Pop(s)[i] = s[i]
  BY PopElements
<1> DEFINE P == {i \in DOMAIN s : s[i] = o}
           Q == {i \in DOMAIN Pop(s) : Pop(s)[i] = o}
<1>3. Q \in SUBSET P
  BY <1>1, <1>2
<1>4. IsFiniteSet(P)
  BY CountType
<1>5. Count(o, s) = Cardinality(P) /\ Count(o, Pop(s)) = Cardinality(Q)
  BY DEF Count
<1> HIDE DEF P, Q
<1>6. Cardinality(Q) <= Cardinality(P)
  BY <1>3, <1>4, FS_Subset
<1> QED
  BY <1>5, <1>6

\* The first element of a list takes its place with it, and every other keeps its own.
LEMMA CountTail ==
  ASSUME NEW S, NEW s \in Seq(S), s # << >>, NEW o
  PROVE  Count(o, s) = Count(o, Tail(s)) + (IF Head(s) = o THEN 1 ELSE 0)
<1> DEFINE t == Tail(s)
           P == {i \in DOMAIN s : s[i] = o}
           Q == {i \in DOMAIN t : t[i] = o}
           f == [i \in Q |-> i + 1]
<1>1. Len(s) \in Nat /\ Len(s) > 0 /\ DOMAIN s = 1..Len(s)
  BY NonEmpty
<1>2. /\ t \in Seq(S) /\ DOMAIN t = 1..(Len(s) - 1) /\ Head(s) = s[1]
      /\ \A i \in 1..(Len(s) - 1) : t[i] = s[i + 1]
  BY <1>1
<1>3. IsFiniteSet(P) /\ IsFiniteSet(Q) /\ Cardinality(P) \in Nat /\ Cardinality(Q) \in Nat
  BY <1>2, CountType DEF Count
<1> HIDE DEF t
<1>4. f \in Bijection(Q, P \ {1})
  <2>1. f \in [Q -> P \ {1}]
    BY <1>1, <1>2
  <2>2. \A i, j \in Q : f[i] = f[j] => i = j
    BY <1>1, <1>2
  <2>3. ASSUME NEW j \in P \ {1} PROVE \E i \in Q : f[i] = j
    <3>1. j - 1 \in Q
      BY <1>1, <1>2
    <3> QED
      BY <1>1, <3>1
  <2> QED
    BY <2>1, <2>2, <2>3 DEF Bijection, Injection, Surjection, IsInjective
<1>5. Cardinality(P \ {1}) = Cardinality(Q)
  BY <1>3, <1>4, FS_Bijection DEF ExistsBijection
<1>6. Cardinality(P \ {1}) = IF 1 \in P THEN Cardinality(P) - 1 ELSE Cardinality(P)
  BY <1>3, FS_RemoveElement
<1>7. 1 \in P <=> Head(s) = o
  BY <1>1, <1>2
<1>8. Count(o, s) = Cardinality(P) /\ Count(o, t) = Cardinality(Q)
  BY DEF Count
<1> HIDE DEF P, Q
<1> QED
  BY <1>3, <1>5, <1>6, <1>7, <1>8 DEF t

\* What one step may do to the places of a table.
PlacesGrow(o) ==
  \/ Places(o)' <= Places(o)
  \/ /\ Places(o)' = Places(o) + 1
     /\ phase \in MutatorPhases /\ o \in held /\ UNCHANGED pending

\* Only setmetatable adds a place: a cycle moves each from one list to another.
LEMMA NextPlaces == TypeOK /\ [Next]_vars => \A o \in Tables : PlacesGrow(o)
<1> SUFFICES ASSUME TypeOK, [Next]_vars, NEW o \in Tables PROVE PlacesGrow(o)
  OBVIOUS
<1>1. /\ finalizable \in Seq(Tables) /\ tracked \in Seq(Tables) /\ pending \in Seq(Tables)
      /\ Count(o, finalizable) \in Nat /\ Count(o, tracked) \in Nat /\ Count(o, pending) \in Nat
  BY CountType DEF TypeOK
<1>2. ASSUME UNCHANGED <<finalizable, tracked, pending>> PROVE PlacesGrow(o)
  <2>1. Places(o)' = Places(o)
    BY <1>2 DEF Places
  <2> QED
    BY <1>1, <2>1 DEF PlacesGrow, Places
<1>3. CASE Program
  <2>1. ASSUME NEW p \in Tables, SetMetatable(p) PROVE PlacesGrow(o)
    <3>1. /\ finalizable' = Append(finalizable, p) /\ UNCHANGED <<tracked, pending>>
          /\ phase \in MutatorPhases /\ p \in held
      BY <2>1 DEF SetMetatable, Mutator, cycle
    <3>2. Count(o, finalizable') = Count(o, finalizable) + (IF p = o THEN 1 ELSE 0)
      BY <1>1, <3>1, CountAppend
    <3> QED
      BY <1>1, <3>1, <3>2 DEF PlacesGrow, Places
  <2> QED
    BY <1>2, <1>3, <2>1
       DEF Program, NewTable, NewThread, FinishThread, StartThread, SetUpValue, OpenUpValue,
           SetField, Load, Drop, ClearMetatable, Mutator, gcState, cycle
<1>4. ASSUME PrepareThreadsDone PROVE PlacesGrow(o)
  <2>1. tracked' = finalizable /\ finalizable' = << >> /\ UNCHANGED pending /\ tracked = << >>
    BY <1>4 DEF PrepareThreadsDone, TypeOK
  <2> QED
    BY <1>1, <2>1, CountEmpty DEF PlacesGrow, Places
<1>5. ASSUME PrepareTable PROVE PlacesGrow(o)
  <2> DEFINE p == Head(tracked)
  <2>1. /\ tracked # << >> /\ tracked' = Tail(tracked)
        /\ \/ finalizable' = Append(finalizable, p) /\ UNCHANGED pending
           \/ pending' = Append(pending, p) /\ UNCHANGED finalizable
           \/ UNCHANGED <<finalizable, pending>>
    BY <1>5 DEF PrepareTable
  <2>2. p \in Tables /\ Tail(tracked) \in Seq(Tables)
    BY <1>1, <2>1, ElementsTail
  <2>3. /\ Count(o, tracked) = Count(o, tracked') + (IF p = o THEN 1 ELSE 0)
        /\ Count(o, tracked') \in Nat
    BY <1>1, <2>1, <2>2, CountTail, CountType
  <2>4. /\ Count(o, Append(finalizable, p)) = Count(o, finalizable) + (IF p = o THEN 1 ELSE 0)
        /\ Count(o, Append(pending, p)) = Count(o, pending) + (IF p = o THEN 1 ELSE 0)
    BY <1>1, <2>2, CountAppend
  <2> DEFINE one == IF p = o THEN 1 ELSE 0
  <2>5. \/ Count(o, finalizable') = Count(o, finalizable) + one /\ Count(o, pending') = Count(o, pending)
        \/ Count(o, finalizable') = Count(o, finalizable) /\ Count(o, pending') = Count(o, pending) + one
        \/ Count(o, finalizable') = Count(o, finalizable) /\ Count(o, pending') = Count(o, pending)
    BY <2>1, <2>4
  <2>6. Count(o, tracked) = Count(o, tracked') + one /\ one \in {0, 1}
    BY <2>3
  <2> HIDE DEF p, one
  <2>7. Places(o)' <= Places(o)
    BY <1>1, <2>3, <2>5, <2>6 DEF Places
  <2> QED
    BY <2>7 DEF PlacesGrow
<1>6. ASSUME RunFinalizer PROVE PlacesGrow(o)
  <2>1. CASE pending = << >>
    BY <1>2, <1>6, <2>1 DEF RunFinalizer
  <2>2. CASE pending # << >>
    <3>1. pending' = Pop(pending) /\ UNCHANGED <<finalizable, tracked>>
      BY <1>6, <2>2 DEF RunFinalizer
    <3>2. Count(o, pending') <= Count(o, pending) /\ Count(o, pending') \in Nat
      BY <1>1, <2>2, <3>1, CountPop, CountType, PopElements
    <3> QED
      BY <1>1, <3>1, <3>2 DEF PlacesGrow, Places
  <2> QED
    BY <2>1, <2>2
<1>7. CASE Collector
  BY <1>2, <1>4, <1>5, <1>6, <1>7
     DEF Collector, CollectDebt, GcCollect, EndMark, PrepareThread, PrepareDone, Finalize, Sweep,
         EndSweep, gcState
<1>8. CASE UNCHANGED vars
  BY <1>2, <1>8 DEF vars, gcState, cycle
<1> QED
  BY <1>3, <1>7, <1>8 DEF Next

\* The heap as the code's types have it: in particular what is marked is live,
\* and the lists of a collection are empty outside the phase that walks them.
THEOREM HeapTyped == Spec => []TypeOK
<1>1. HeapInv => TypeOK
  BY DEF HeapInv
<1> QED
  BY <1>1, InitHeap, NextHeap, PTL DEF Spec

\* Lua::enter, setmetatable, prepare and gc_collect: whatever the program does and
\* however many cycles go by, a finalizer that is owed or queued is not lost, and
\* none is called more often than its table was registered, though the table may
\* be listed several times, die and be brought back.
THEOREM FinalizersDelivered == Spec => FinalizersKept
<1>1. TypeOK /\ [Next]_vars => NoneLost
  BY NextKept DEF NoneLost, Kept
<1>2. TypeOK /\ [Next]_vars => NoneRepeated
  BY NextPlaces DEF NoneRepeated, PlacesGrow
<1>3. TypeOK /\ [Next]_vars => [NoneLost /\ NoneRepeated]_vars
  BY <1>1, <1>2
<1> QED
  BY <1>3, HeapTyped, PTL DEF Spec, FinalizersKept

\* Finalizers::prepare and finalize: a registered thread is always there to be
\* upgraded, even when the host starts stopped threads again.
THEOREM ThreadsNotMissed == Spec => []TrackedThreadsLive
<1>1. HeapInv => TrackedThreadsLive
  BY DEF HeapInv
<1> QED
  BY <1>1, InitHeap, NextHeap, PTL DEF Spec

\* Finalizers::prepare: no table is freed while a finalizer is owed to it.
THEOREM FinalizersNotMissed == Spec => []OwedNotFreed
<1>1. HeapInv /\ OwedListed => OwedNotFreed
  BY DEF HeapInv, OwedListed, ListedLive, OwedNotFreed
<1> QED
  BY <1>1, InitHeap, NextHeap, NextOwed, PTL DEF Spec

\* OpenUpValue::get and set: with stopped threads left stopped, the thread of an
\* open upvalue is there, and so is everything the program can get at.
THEOREM UpValuesKept == RestartDropped = FALSE /\ Spec => [](UpValueThreadsLive /\ ReachableLive)
<1>1. HeapInv /\ LuaInv => UpValueThreadsLive /\ ReachableLive
  <2> SUFFICES ASSUME HeapInv, LuaInv PROVE UpValueThreadsLive /\ ReachableLive
    OBVIOUS
  <2>1. TypeOK /\ StrongLive /\ Edgewise /\ UpValueThreadsLive
    BY StrongEdgewise DEF HeapInv, LuaInv
  <2>2. ASSUME NEW o \in live, NEW v \in Visible(o) PROVE v \in live
    <3>1. CASE v \in Edges(o)
      BY <2>1, <2>2, <3>1 DEF StrongLive, IsClosed
    <3>2. CASE o \in UpVals /\ v \in Vals({o})
      BY <2>1, <2>2, <3>2 DEF Vals, Edgewise, UpValueThreadsLive
    <3> QED
      BY <2>2, <3>1, <3>2 DEF Visible
  <2> QED
    BY <2>1, <2>2 DEF ReachableLive, StrongLive
<1>2. SUFFICES ASSUME RestartDropped = FALSE PROVE Spec => [](UpValueThreadsLive /\ ReachableLive)
  OBVIOUS
<1>3. HeapInv /\ LuaInv /\ [Next]_vars => HeapInv' /\ LuaInv'
  BY <1>2, NextHeap, NextLua
<1> QED
  BY <1>1, <1>3, InitHeap, PTL DEF Spec

\* Load, OpenUpValue::get: with stopped threads left stopped, nothing that the
\* program can still get at has been freed, the slots of collected coroutines
\* included.
THEOREM NothingDangles == RestartDropped = FALSE /\ Spec => []ReachableLive
<1> SUFFICES ASSUME RestartDropped = FALSE PROVE Spec => []ReachableLive
  OBVIOUS
<1>1. Spec => [](UpValueThreadsLive /\ ReachableLive)
  BY UpValuesKept
<1> QED
  BY <1>1, PTL
=============================================================================
