----------------------------- MODULE Finalizers -----------------------------
(***************************************************************************)
(* Finalization of coroutines and of tables with __gc (finalizers.rs), the *)
(* collection cycles that drive it (Lua::enter and Lua::gc_collect in      *)
(* lua.rs) and the Lua program that changes the heap between them.         *)
(*                                                                         *)
(* A Table stands for any object that holds others strongly, closures      *)
(* included; Root for the registry, the globals and what running code      *)
(* holds.  A thread holds its open upvalues and their stack slots; an open *)
(* upvalue points back at its thread weakly.  `marked` is what gc-arena    *)
(* has found reachable or was told to resurrect.  Objects are never reused *)
(* once freed.                                                             *)
(***************************************************************************)
EXTENDS Stacks, FiniteSets

CONSTANTS
  Threads, UpVals, Tables,
  Root, Nil, Closed,
  RestartDropped,     \* whether the host starts threads that finalize has dropped
  MaxTracked          \* bound: registered tables

Obj == Threads \cup UpVals \cup Tables
Values == Threads \cup Tables \cup {Nil}

ASSUME HeapAssumption ==
  /\ Threads \cap UpVals = {} /\ Threads \cap Tables = {} /\ UpVals \cap Tables = {}
  /\ Root \notin Obj /\ Nil \notin Obj /\ Closed \notin Obj
  /\ RestartDropped \in BOOLEAN
  /\ MaxTracked \in Nat

VARIABLES
  fresh, live,          \* objects not allocated yet, and not freed yet
  refs,                 \* what Root and each table holds
  upval,                \* UpValueState: the thread of an open one, and its value
  active,               \* threads with frames
  has_gc,               \* tables whose metatable has a callable __gc
  threads, finalizable, pending,      \* FinalizersState
  phase, marked, todo, tracked,       \* the collection under way
  host,                 \* who drives it: "enter", "gc_collect" or "run_finalizers"
  owed                  \* tables registered since their finalizer was last queued

heap == <<fresh, live, refs, upval, active>>
gcState == <<has_gc, threads, finalizable, pending, owed>>
cycle == <<phase, marked, todo, tracked, host>>
vars == <<heap, gcState, cycle>>

held == refs[Root]
OpenOn(t) == {u \in UpVals : upval[u].thread = t}
Vals(U) == {upval[u].val : u \in U} \ {Nil}
Elements(s) == {s[i] : i \in 1..Len(s)}
Pending == Elements(pending)

\* What an object keeps alive.
Edges(o) ==
  IF o \in Tables THEN refs[o]
  ELSE IF o \in Threads THEN OpenOn(o) \cup Vals(OpenOn(o))
  ELSE IF upval[o].thread = Closed THEN Vals({o}) ELSE {}

\* The live objects that marking reaches from S.
IsClosed(M) == \A o \in M : Edges(o) \subseteq M
Closure(S) == {o \in live : \A M \in SUBSET live : S \subseteq M /\ IsClosed(M) => o \in M}

MutatorPhases == {"Mutating", "Sweeping"}
Phases == MutatorPhases \cup {"PrepThreads", "PrepTables", "Finalizing", "Finalized"}

Init ==
  /\ fresh = Obj /\ live = {}
  /\ refs = [o \in Tables \cup {Root} |-> {}]
  /\ upval = [u \in UpVals |-> [thread |-> Closed, val |-> Nil]]
  /\ active = {} /\ has_gc = {} /\ threads = {}
  /\ finalizable = << >> /\ pending = << >>
  /\ phase = "Mutating" /\ marked = {} /\ todo = {} /\ tracked = << >>
  /\ host = "enter"
  /\ owed = {}

-----------------------------------------------------------------------------
(* The program: it acts on what it holds, between collections. *)

Mutator == phase \in MutatorPhases /\ UNCHANGED cycle

Allocate(o) ==
  /\ o \in fresh
  /\ fresh' = fresh \ {o} /\ live' = live \cup {o}

Hold(o) == refs' = [refs EXCEPT ![Root] = @ \cup {o}]

NewTable(o) ==
  /\ Mutator /\ Allocate(o) /\ Hold(o)
  /\ UNCHANGED <<upval, active, gcState>>

\* Thread::new registers the thread.
NewThread(t) ==
  /\ Mutator /\ Allocate(t) /\ Hold(t)
  /\ active' = active \cup {t}
  /\ threads' = threads \cup {t}
  /\ UNCHANGED <<upval, has_gc, finalizable, pending, owed>>

\* A frame of t creates a closure over one of its variables.
OpenUpValue(t, u, v) ==
  /\ Mutator /\ Allocate(u) /\ Hold(u)
  /\ t \in held \cap active
  /\ upval' = [upval EXCEPT ![u] = [thread |-> t, val |-> v]]
  /\ UNCHANGED <<active, gcState>>

\* OpenUpValue::get and set panic if the thread is gone.
Accessible(u) == upval[u].thread \in live \cup {Closed}

SetUpValue(u, v) ==
  /\ Mutator /\ u \in held /\ Accessible(u)
  /\ upval' = [upval EXCEPT ![u].val = v]
  /\ UNCHANGED <<fresh, live, refs, active, gcState>>

SetField(o, v) ==
  /\ Mutator /\ o \in held
  /\ refs' = [refs EXCEPT ![o] = {v}]
  /\ UNCHANGED <<fresh, live, upval, active, gcState>>

\* Read a field or an upvalue, open or not, or take what a coroutine yields.
Load(o, v) ==
  /\ Mutator /\ o \in held
  /\ v \in Edges(o) \/ (o \in UpVals /\ Accessible(o) /\ v \in Vals({o}))
  /\ Hold(v)
  /\ UNCHANGED <<fresh, live, upval, active, gcState>>

Drop(o) ==
  /\ Mutator /\ o \in held
  /\ refs' = [refs EXCEPT ![Root] = @ \ {o}]
  /\ UNCHANGED <<fresh, live, upval, active, gcState>>

CloseAll(T) ==
  upval' = [u \in UpVals |->
             IF upval[u].thread \in T THEN [upval[u] EXCEPT !.thread = Closed] ELSE upval[u]]

\* A thread returns, fails or is reset: all its upvalues are closed.
FinishThread(t) ==
  /\ Mutator /\ t \in held \cap active
  /\ CloseAll({t})
  /\ active' = active \ {t}
  /\ UNCHANGED <<fresh, live, refs, gcState>>

\* Thread::start of a stopped thread, which Lua has no function for.  It does not
\* register the thread again.
StartThread(t) ==
  /\ Mutator /\ t \in held \ active
  /\ RestartDropped \/ t \in threads
  /\ active' = active \cup {t}
  /\ UNCHANGED <<fresh, live, refs, upval, gcState>>

\* Mutant: the table is not registered.
SetMetatableUntracked(o) ==
  /\ Mutator /\ o \in held
  /\ has_gc' = has_gc \cup {o} /\ owed' = owed \cup {o}
  /\ UNCHANGED <<heap, threads, pending, finalizable>>

\* setmetatable with a metatable that has __gc, and with another or none.
SetMetatable(o) ==
  /\ Mutator /\ o \in held
  /\ Len(finalizable) < MaxTracked
  /\ has_gc' = has_gc \cup {o} /\ owed' = owed \cup {o}
  /\ finalizable' = Append(finalizable, o)
  /\ UNCHANGED <<heap, threads, pending>>

ClearMetatable(o) ==
  /\ Mutator /\ o \in held \cap has_gc
  /\ has_gc' = has_gc \ {o} /\ owed' = owed \ {o}
  /\ UNCHANGED <<heap, threads, pending, finalizable>>

Program ==
  \/ \E o \in Tables : NewTable(o) \/ SetMetatable(o) \/ ClearMetatable(o)
  \/ \E t \in Threads : NewThread(t) \/ FinishThread(t) \/ StartThread(t)
  \/ \E u \in UpVals, v \in (held \cap Values) \cup {Nil} :
       SetUpValue(u, v) \/ \E t \in Threads : OpenUpValue(t, u, v)
  \/ \E o \in Tables, v \in held : SetField(o, v)
  \/ \E o, v \in Obj : Load(o, v)
  \/ \E o \in Obj : Drop(o)

-----------------------------------------------------------------------------
(* A collection cycle. *)

\* Marking has ended.  Objects that were reachable when the incremental marking
\* met them stay marked, whatever the program dropped since.
EndMark(floating, h) ==
  /\ phase = "Mutating"
  /\ marked' = Closure(held \cup Pending \cup floating)
  /\ phase' = "PrepThreads" /\ todo' = threads /\ host' = h
  /\ UNCHANGED <<heap, gcState, tracked>>

\* Enough allocation debt in Lua::enter, or Lua::gc_collect between two enters.
CollectDebt == \E floating \in SUBSET live : EndMark(floating, host)
GcCollect ==
  /\ host = "enter"
  /\ \/ \E floating \in SUBSET live : EndMark(floating, "gc_collect")
     \/ /\ phase = "Sweeping" /\ phase' = "Mutating" /\ host' = "run_finalizers"
        /\ UNCHANGED <<heap, gcState, marked, todo, tracked>>

\* Finalizers::prepare, first part: a live upvalue of a dead thread keeps the
\* value in its slot.
PrepareThread(t) ==
  /\ phase = "PrepThreads" /\ t \in todo
  /\ todo' = todo \ {t}
  /\ marked' = IF t \in marked THEN marked ELSE marked \cup Vals(OpenOn(t) \cap marked)
  /\ UNCHANGED <<heap, gcState, phase, tracked, host>>

\* Mutant: what an earlier cycle queued is taken with the list.
PrepareThreadsDoneTakesAll ==
  /\ phase = "PrepThreads" /\ todo = {}
  /\ phase' = "PrepTables"
  /\ tracked' = finalizable /\ finalizable' = << >> /\ pending' = << >>
  /\ UNCHANGED <<heap, has_gc, threads, owed, marked, todo, host>>

PrepareThreadsDone ==
  /\ phase = "PrepThreads" /\ todo = {}
  /\ phase' = "PrepTables"
  /\ tracked' = finalizable /\ finalizable' = << >>
  /\ UNCHANGED <<heap, has_gc, threads, pending, owed, marked, todo, host>>

\* Mutant: a table stays in the list when its finalizer is queued.
PrepareTableKeeps ==
  /\ phase = "PrepTables" /\ tracked # << >>
  /\ LET o == Head(tracked) IN
       /\ finalizable' = Append(finalizable, o)
       /\ marked' = marked \cup {o}
       /\ IF o \in has_gc \ marked THEN pending' = Append(pending, o) /\ owed' = owed \ {o}
                                  ELSE UNCHANGED <<pending, owed>>
  /\ tracked' = Tail(tracked)
  /\ UNCHANGED <<heap, has_gc, threads, phase, todo, host>>

\* Second part: a dead table leaves the list, resurrected, and its finalizer is
\* queued if it still has one.
PrepareTable ==
  /\ phase = "PrepTables" /\ tracked # << >>
  /\ LET o == Head(tracked) IN
       IF o \in marked
       THEN /\ finalizable' = Append(finalizable, o)
            /\ UNCHANGED <<marked, pending, owed>>
       ELSE /\ marked' = marked \cup {o}
            /\ IF o \in has_gc THEN pending' = Append(pending, o) /\ owed' = owed \ {o}
                               ELSE UNCHANGED <<pending, owed>>
            /\ UNCHANGED finalizable
  /\ tracked' = Tail(tracked)
  /\ UNCHANGED <<heap, has_gc, threads, phase, todo, host>>

\* Mutant: the scan stops at the first table that is still alive.
PrepareDoneEarly ==
  /\ phase = "PrepTables" /\ (tracked # << >> => Head(tracked) \in marked)
  /\ phase' = "Finalizing"
  /\ UNCHANGED <<heap, gcState, marked, todo, tracked, host>>

PrepareDone ==
  /\ phase = "PrepTables" /\ tracked = << >>
  /\ phase' = "Finalizing"
  /\ UNCHANGED <<heap, gcState, marked, todo, tracked, host>>

\* Mutants: a dead thread is dropped without a reset; or is reset and kept.
FinalizeForgets ==
  /\ phase = "Finalizing"
  /\ marked' = Closure(marked) /\ threads' = threads \cap Closure(marked)
  /\ phase' = "Finalized"
  /\ UNCHANGED <<fresh, live, refs, upval, active, has_gc, finalizable, pending, owed, todo, tracked, host>>
FinalizeKeeps ==
  /\ phase = "Finalizing"
  /\ marked' = Closure(marked)
  /\ CloseAll(threads \ Closure(marked)) /\ active' = active \cap (Closure(marked) \cup (Threads \ threads))
  /\ phase' = "Finalized"
  /\ UNCHANGED <<fresh, live, refs, gcState, todo, tracked, host>>

\* mark_all, then Finalizers::finalize resets every tracked thread that is dead.
Finalize ==
  /\ phase = "Finalizing"
  /\ LET found == Closure(marked)  dead == threads \ found IN
       /\ marked' = found
       /\ CloseAll(dead)
       /\ active' = active \ dead
       /\ threads' = threads \ dead
  /\ phase' = "Finalized"
  /\ UNCHANGED <<fresh, live, refs, has_gc, finalizable, pending, owed, todo, tracked, host>>

\* Mutant: no marking after the upvalues were closed.
SweepUnmarked ==
  /\ phase = "Finalized"
  /\ live' = marked /\ marked' = {}
  /\ phase' = IF host = "gc_collect" THEN "Mutating" ELSE "Sweeping"
  /\ host' = IF host = "gc_collect" THEN "run_finalizers" ELSE host
  /\ UNCHANGED <<fresh, refs, upval, active, gcState, todo, tracked>>

\* mark_all once more, for what closing upvalues made reachable, then sweep.
\* Nothing can be reached through a weak pointer from here on, so all that is
\* not marked is freed at once.
Sweep ==
  /\ phase = "Finalized"
  /\ live' = Closure(marked) /\ marked' = {}
  /\ phase' = IF host = "gc_collect" THEN "Mutating" ELSE "Sweeping"
  /\ host' = IF host = "gc_collect" THEN "run_finalizers" ELSE host
  /\ UNCHANGED <<fresh, refs, upval, active, gcState, todo, tracked>>

EndSweep ==
  /\ phase = "Sweeping"
  /\ phase' = "Mutating"
  /\ UNCHANGED <<heap, gcState, marked, todo, tracked, host>>

\* Lua::run_finalizers: the next finalizer is called with its object.
RunFinalizer ==
  /\ host = "run_finalizers" /\ phase \in MutatorPhases
  /\ IF pending = << >>
     THEN host' = "enter" /\ UNCHANGED <<refs, pending>>
     ELSE pending' = Pop(pending) /\ Hold(Top(pending)) /\ UNCHANGED host
  /\ UNCHANGED <<fresh, live, upval, active, has_gc, threads, finalizable, owed,
                 phase, marked, todo, tracked>>

Collector ==
  \/ CollectDebt \/ GcCollect \/ PrepareThreadsDone \/ PrepareTable \/ PrepareDone
  \/ Finalize \/ Sweep \/ EndSweep \/ RunFinalizer
  \/ \E t \in Threads : PrepareThread(t)

Next == Program \/ Collector

Spec == Init /\ [][Next]_vars

-----------------------------------------------------------------------------
(* What is checked and proved. *)

TypeOK ==
  /\ fresh \subseteq Obj /\ live \subseteq Obj \ fresh
  /\ refs \in [Tables \cup {Root} -> SUBSET Obj]
  /\ upval \in [UpVals -> [thread : Threads \cup {Closed}, val : Values]]
  /\ active \subseteq Threads /\ has_gc \subseteq Tables
  /\ threads \subseteq Threads
  /\ finalizable \in Seq(Tables) /\ pending \in Seq(Tables)
  /\ phase \in Phases
  /\ marked \subseteq live
  /\ todo \subseteq threads /\ (phase # "PrepThreads" => todo = {})
  /\ tracked \in Seq(Tables) /\ (phase # "PrepTables" => tracked = << >>)
  /\ host \in {"enter", "gc_collect", "run_finalizers"}
  /\ owed \subseteq Tables

\* OpenUpValue::get and set, "thread not finalized: upvalues not closed": the
\* thread of an upvalue that is still open has not been freed.
UpValueThreadsLive == \A u \in live \cap UpVals : upval[u].thread \in live \cup {Closed}

\* Finalizers, "thread finalization was missed": a registered thread is never
\* freed before finalize has dropped it from the list.
TrackedThreadsLive == threads \subseteq live

\* Everything the program can get at is there: what it holds, what that holds,
\* and what an upvalue shows it, even when the only owner of the slot was a
\* coroutine that is being collected.
Visible(o) == Edges(o) \cup (IF o \in UpVals THEN Vals({o}) ELSE {})
ReachableLive == held \cup Pending \subseteq live /\ \A o \in live : Visible(o) \subseteq live

\* A table that setmetatable registered is not freed before its finalizer has
\* been queued, unless it lost its metatable.
OwedNotFreed == owed \subseteq live

\* Lua::enter queues finalizers and only gc_collect runs them.  However many
\* cycles pass in between, a table that is owed a finalizer stays owed or queued
\* until the finalizer is called with it, or until it loses its metatable.
NoneLost ==
  \A o \in owed \cup Pending :
    \/ o \in owed' \cup Elements(pending')
    \/ o \notin has_gc'
    \/ host = "run_finalizers" /\ o = Top(pending) /\ o \in refs'[Root]

\* How many times a table is registered, looked at or queued.
Count(o, s) == Cardinality({i \in DOMAIN s : s[i] = o})
Places(o) == Count(o, finalizable) + Count(o, tracked) + Count(o, pending)

\* prepare takes the list and puts back what is alive, while it resurrects and
\* queues what is dead, the same table perhaps several times in the list: no step
\* of a cycle gives a table a place more, only setmetatable does, and one.
NoneRepeated ==
  \A o \in Tables :
    \/ Places(o)' <= Places(o)
    \/ /\ Places(o)' = Places(o) + 1
       /\ phase \in MutatorPhases /\ o \in held /\ UNCHANGED pending

\* Through any number of cycles, no finalizer is lost, and none is called more
\* often than its table was registered.
FinalizersKept == [][NoneLost /\ NoneRepeated]_vars

-----------------------------------------------------------------------------
(* The inductive invariant. *)

\* gc-arena's promise, however the program behaves.
StrongLive == held \cup Pending \subseteq live /\ IsClosed(live)

\* During a collection nothing that the program holds is dead.
RootsMarked == phase \notin MutatorPhases => held \cup Pending \subseteq marked

\* After finalize, a thread that is still registered or that an upvalue still
\* points to is not dead.
FinalizedThreads == phase = "Finalized" => threads \subseteq marked
FinalizedUpValues ==
  phase = "Finalized" => \A u \in live \cap UpVals : upval[u].thread \in marked \cup {Closed}

\* A thread that finalize dropped has been reset, and stays so in Lua.
DroppedIdle ==
  \A t \in live \cap Threads : t \in active \/ OpenOn(t) # {} => t \in threads

\* A listed table is live, and marked once it has been put back in the list; a
\* table that is owed a finalizer has one and is listed.
ListedLive == Elements(finalizable) \cup Elements(tracked) \subseteq live
KeptMarked ==
  phase \in {"PrepTables", "Finalizing", "Finalized"} => Elements(finalizable) \subseteq marked
OwedListed == owed \subseteq has_gc \cap (Elements(finalizable) \cup Elements(tracked))

\* An object that was not allocated yet holds nothing and is held by nothing.
FreshEmpty ==
  /\ \A o \in fresh \cap Tables : refs[o] = {}
  /\ \A u \in UpVals : upval[u].thread \notin fresh

HeapInv ==
  /\ TypeOK /\ FreshEmpty /\ StrongLive /\ RootsMarked
  /\ TrackedThreadsLive /\ FinalizedThreads /\ ListedLive /\ KeptMarked
LuaInv == UpValueThreadsLive /\ DroppedIdle /\ FinalizedUpValues

-----------------------------------------------------------------------------
(* What comments in finalizers.rs say and the code does not do. *)

\* All the program could get at from S, through open upvalues too.
Reaches(S) ==
  {o \in live : \A M \in SUBSET live : S \subseteq M /\ (\A p \in M : Visible(p) \subseteq M) => o \in M}

\* register_table: "whether a finalizer actually runs is decided at collection
\* time based on whether the table is unreachable".
OnlyUnreachableFinalized ==
  [][Len(pending') > Len(pending) => Top(pending') \notin Reaches(held)]_vars

\* prepare: "Dead objects are dropped from tracking so they are never finalized
\* twice": a finalizer is queued once per registration of its table.
NeverFinalizedTwice ==
  [][Len(pending') > Len(pending) => Top(pending') \in owed]_vars
=============================================================================
