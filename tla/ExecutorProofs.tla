--------------------------- MODULE ExecutorProofs ---------------------------
(***************************************************************************)
(* Executor::step keeps every thread's frames in order, implements the     *)
(* coroutine protocol of module Coroutines, and so never reports           *)
(* BadThreadMode under documented use: for any number of threads, any fuel *)
(* and any answers of callbacks, sequences and Lua code.                   *)
(***************************************************************************)
EXTENDS Executor, StackLemmas

(***************************************************************************)
(* What the operations of Thread do to a well-formed stack of frames.      *)
(***************************************************************************)
WellFormed(fs) == fs \in Seq(Frame) /\ FrameDiscipline(fs)

\* Frames that can be returned to, or unwound through, from the top.
Returnable(fs) ==
  /\ fs \in Seq(Frame)
  /\ \A i \in 1..Len(fs) : fs[i] = F("Sequence") \/ fs[i] = LuaCalling

\* Frames one may push on frames that can be returned to.
Pushable == {F("Lua"), F("Callback"), F("Sequence"), SequencePending, F("Yielded"), F("Error")}

\* The frames the operators build have their kind and flag.
LEMMA FrameTypes ==
  /\ \A k \in FrameKinds : F(k) \in Frame /\ F(k).kind = k /\ F(k).flag = FALSE
  /\ LuaCalling \in Frame /\ LuaCalling.kind = "Lua" /\ LuaCalling.flag = TRUE
  /\ SequencePending \in Frame /\ SequencePending.kind = "Sequence" /\ SequencePending.flag = TRUE
  BY DEF Frame, F, LuaCalling, SequencePending, FrameKinds

\* The empty thread.
LEMMA EmptyFrames == WellFormed(<< >>) /\ Returnable(<< >>) /\ AbsMode(<< >>) = "Stopped"
  BY DEF WellFormed, FrameDiscipline, LowerFramesReturnable, TopFrameProper, Returnable,
         AbsMode, Mode

\* A coroutine that was created and not yet run.
LEMMA StartWellFormed ==
  /\ WellFormed(StartedSuspended(<< >>)) /\ AbsMode(StartedSuspended(<< >>)) = "Suspended"
<1> DEFINE g == << F("Start") >>
<1>1. F("Start") \in Frame /\ F("Start").kind = "Start"
  BY FrameTypes DEF FrameKinds
<1>2. StartedSuspended(<< >>) = g
  BY <1>1 DEF StartedSuspended
<1>3. g \in Seq(Frame) /\ Len(g) = 1 /\ Top(g) = F("Start") /\ g # << >>
  BY <1>1 DEF Top
<1> HIDE DEF g
<1>4. WellFormed(g)
  BY <1>1, <1>3 DEF WellFormed, FrameDiscipline, LowerFramesReturnable, TopFrameProper,
                    FrameKinds
<1>5. Mode(g) = "Suspended"
  BY <1>1, <1>3 DEF Mode
<1> QED
  BY <1>2, <1>4, <1>5 DEF AbsMode

\* Nothing but a frame that can be returned to is below the top, unless the top
\* is an error or a result.
LEMMA PoppedReturnable ==
  ASSUME NEW fs, WellFormed(fs), fs # << >>, Top(fs).kind \notin {"Error", "Result"}
  PROVE  Returnable(Pop(fs))
<1>1. Pop(fs) \in Seq(Frame) /\ Len(Pop(fs)) = Len(fs) - 1
      /\ \A i \in 1..(Len(fs) - 1) : Pop(fs)[i] = fs[i]
  BY PopElements DEF WellFormed
<1> QED
  BY <1>1 DEF WellFormed, FrameDiscipline, LowerFramesReturnable, Returnable

\* Pushing a sequence or a calling Lua frame keeps frames returnable.
LEMMA KeptReturnable ==
  ASSUME NEW fs, Returnable(fs), NEW f \in {F("Sequence"), LuaCalling}
  PROVE  Returnable(Append(fs, f)) /\ Append(fs, f) # << >>
<1>1. f \in Frame
  BY FrameTypes DEF FrameKinds
<1> QED
  BY <1>1, PushElements DEF Returnable

\* Pushing a frame makes a well-formed thread with the mode of that frame.
LEMMA PushedWellFormed ==
  ASSUME NEW fs, Returnable(fs), NEW f \in Pushable
  PROVE  /\ WellFormed(Append(fs, f))
         /\ AbsMode(Append(fs, f)) =
              CASE f.kind = "Yielded" -> "Suspended"
                [] f.kind = "Error" /\ fs = << >> -> "Returned"
                [] OTHER -> "Normal"
<1> DEFINE g == Append(fs, f)
<1>1. /\ f \in Frame
      /\ f.kind \in {"Lua", "Callback", "Sequence", "Yielded", "Error"}
      /\ f \in {F(k) : k \in FrameKinds \ {"Panic"}} \cup {SequencePending}
  BY FrameTypes DEF Pushable, FrameKinds
<1>2. /\ g \in Seq(Frame) /\ g # << >> /\ Len(g) = Len(fs) + 1 /\ Top(g) = f
      /\ \A i \in 1..Len(fs) : g[i] = fs[i]
      /\ Len(fs) \in Nat
      /\ fs = << >> <=> Len(fs) = 0
  BY <1>1, PushElements DEF Returnable
<1> HIDE DEF g
<1>3. LowerFramesReturnable(g)
  BY <1>2 DEF LowerFramesReturnable, Returnable
<1>4. TopFrameProper(g)
  BY <1>1, <1>2 DEF TopFrameProper
<1>5. CASE f.kind = "Error"
  BY <1>2, <1>3, <1>4, <1>5 DEF WellFormed, FrameDiscipline, AbsMode, Mode, g
<1>6. CASE f.kind # "Error"
  BY <1>1, <1>2, <1>3, <1>4, <1>6 DEF WellFormed, FrameDiscipline, AbsMode, Mode, g
<1> QED
  BY <1>5, <1>6

\* A thread with frames left may wait for another.
LEMMA WaitWellFormed ==
  ASSUME NEW fs, Returnable(fs), fs # << >>
  PROVE  /\ WellFormed(Append(fs, F("WaitThread")))
         /\ AbsMode(Append(fs, F("WaitThread"))) = "Waiting"
<1> DEFINE g == Append(fs, F("WaitThread"))
<1>1. F("WaitThread") \in Frame /\ F("WaitThread").kind = "WaitThread"
  BY FrameTypes DEF FrameKinds
<1>2. /\ g \in Seq(Frame) /\ g # << >> /\ Len(g) = Len(fs) + 1 /\ Top(g) = F("WaitThread")
      /\ \A i \in 1..Len(fs) : g[i] = fs[i]
      /\ Len(fs) \in Nat /\ Len(fs) > 0
  BY <1>1, PushElements, NonEmpty DEF Returnable
<1> HIDE DEF g
<1>3. LowerFramesReturnable(g)
  BY <1>2 DEF LowerFramesReturnable, Returnable
<1>4. TopFrameProper(g)
  BY <1>1, <1>2 DEF TopFrameProper, FrameKinds
<1> QED
  BY <1>1, <1>2, <1>3, <1>4 DEF WellFormed, FrameDiscipline, AbsMode, Mode, g

\* Returning publishes results on an empty thread and continues it otherwise;
\* it never panics on frames that can be returned to.
LEMMA ReturnedWellFormed ==
  ASSUME NEW fs, Returnable(fs)
  PROVE  /\ WellFormed(ReturnTo(fs))
         /\ AbsMode(ReturnTo(fs)) = IF fs = << >> THEN "Returned" ELSE "Normal"
<1>1. CASE fs = << >>
  <2>1. F("Result") \in Frame /\ F("Result").kind = "Result"
    BY FrameTypes DEF FrameKinds
  <2> DEFINE g == << F("Result") >>
  <2>2. g \in Seq(Frame) /\ Len(g) = 1 /\ Top(g) = F("Result") /\ g # << >>
    BY <2>1 DEF Top
  <2>3. ReturnTo(fs) = g
    BY <1>1 DEF ReturnTo
  <2> HIDE DEF g
  <2>4. WellFormed(g)
    BY <2>1, <2>2 DEF WellFormed, FrameDiscipline, LowerFramesReturnable, TopFrameProper,
                      FrameKinds
  <2>5. Mode(g) = "Result"
    BY <2>1, <2>2 DEF Mode
  <2>6. AbsMode(g) = "Returned"
    BY <2>2, <2>5 DEF AbsMode
  <2> QED
    BY <1>1, <2>3, <2>4, <2>6
<1>2. CASE fs # << >>
  <2>1. /\ Top(fs) = F("Sequence") \/ Top(fs) = LuaCalling
        /\ fs \in Seq(Frame) /\ Len(fs) \in Nat /\ Len(fs) > 0
        /\ Pop(fs) \in Seq(Frame) /\ Len(Pop(fs)) = Len(fs) - 1
        /\ \A i \in 1..(Len(fs) - 1) : Pop(fs)[i] = fs[i]
    BY <1>2, NonEmpty, PopElements DEF Returnable, Top
  <2>2. Returnable(Pop(fs))
    BY <2>1 DEF Returnable
  <2>3. CASE Top(fs) = LuaCalling
    <3>1. ReturnTo(fs) = Append(Pop(fs), F("Lua"))
      BY <1>2, <2>3, FrameTypes DEF ReturnTo
    <3>2. F("Lua") \in Pushable /\ F("Lua").kind = "Lua"
      BY FrameTypes DEF Pushable, FrameKinds
    <3> QED
      BY <1>2, <2>2, <3>1, <3>2, PushedWellFormed
  <2>4. CASE Top(fs) = F("Sequence")
    <3>1. Top(fs).kind = "Sequence"
      BY <2>4, FrameTypes DEF FrameKinds
    <3>2. ReturnTo(fs) = fs
      BY <1>2, <3>1 DEF ReturnTo
    <3>3. WellFormed(fs)
      BY <2>1, <2>4, <3>1 DEF WellFormed, FrameDiscipline, LowerFramesReturnable,
                        TopFrameProper, Returnable, FrameKinds
    <3>4. Mode(fs) = "Normal"
      BY <1>2, <3>1 DEF Mode
    <3> QED
      BY <1>2, <3>2, <3>3, <3>4 DEF AbsMode
  <2> QED
    BY <2>1, <2>3, <2>4
<1> QED
  BY <1>1, <1>2

\* A yield leaves results over a Yielded frame.
LEMMA YieldedWellFormed ==
  ASSUME NEW fs, Returnable(fs)
  PROVE  LET g == Append(Append(fs, F("Yielded")), F("Result")) IN
         WellFormed(g) /\ AbsMode(g) = "Yielded"
<1> DEFINE y == Append(fs, F("Yielded"))
           g == Append(y, F("Result"))
<1>1. /\ F("Yielded") \in Frame /\ F("Result") \in Frame /\ F("Result").kind = "Result"
  BY FrameTypes DEF FrameKinds
<1>2. /\ y \in Seq(Frame) /\ Len(y) = Len(fs) + 1 /\ Len(fs) \in Nat
      /\ \A i \in 1..Len(fs) : y[i] = fs[i]
      /\ y[Len(fs) + 1] = F("Yielded")
  BY <1>1, PushElements DEF Returnable
<1> HIDE DEF y
<1>3. /\ g \in Seq(Frame) /\ Len(g) = Len(y) + 1 /\ g # << >> /\ Top(g) = F("Result")
      /\ \A i \in 1..Len(y) : g[i] = y[i]
  BY <1>1, <1>2, PushElements
<1> HIDE DEF g
<1>4. LowerFramesReturnable(g)
  BY <1>1, <1>2, <1>3 DEF LowerFramesReturnable, Returnable
<1>5. TopFrameProper(g)
  BY <1>1, <1>2, <1>3 DEF TopFrameProper, FrameKinds
<1>6. AbsMode(g) = "Yielded"
  BY <1>1, <1>2, <1>3 DEF AbsMode, Mode
<1> QED
  BY <1>3, <1>4, <1>5, <1>6 DEF WellFormed, FrameDiscipline, g, y

\* The mode of a thread is decided by its top frame.
LEMMA ModeByTop ==
  ASSUME NEW fs, WellFormed(fs), fs # << >>
  PROVE  /\ Top(fs) \in Frame /\ Top(fs).kind \in FrameKinds \ {"Panic"}
         /\ Mode(fs) = "Suspended" <=> Top(fs).kind \in {"Start", "Yielded"}
         /\ Mode(fs) = "Waiting" <=> Top(fs).kind = "WaitThread"
         /\ Mode(fs) = "Result" <=>
           Top(fs).kind = "Result" \/ (Top(fs).kind = "Error" /\ Len(fs) = 1)
         /\ Mode(fs) = "Normal" <=>
           Top(fs).kind \in {"Lua", "Callback", "Sequence"} \/ (Top(fs).kind = "Error" /\ Len(fs) # 1)
         /\ Mode(fs) \in ThreadModes \ {"Panic", "Stopped"}
<1>1. Top(fs) \in Frame /\ Top(fs).kind \in FrameKinds \ {"Panic"}
  <2>1. Top(fs) \in {F(k) : k \in FrameKinds \ {"Panic"}} \cup {SequencePending}
    BY DEF WellFormed, FrameDiscipline, TopFrameProper
  <2>2. CASE Top(fs) = SequencePending
    BY <2>2, FrameTypes DEF FrameKinds
  <2>3. ASSUME NEW k \in FrameKinds \ {"Panic"}, Top(fs) = F(k)
        PROVE Top(fs) \in Frame /\ Top(fs).kind \in FrameKinds \ {"Panic"}
    BY <2>3, FrameTypes
  <2> QED
    BY <2>1, <2>2, <2>3
<1>2. /\ Mode(fs) = "Suspended" <=> Top(fs).kind \in {"Start", "Yielded"}
      /\ Mode(fs) = "Waiting" <=> Top(fs).kind = "WaitThread"
  BY <1>1 DEF Mode, FrameKinds
<1>3. /\ Mode(fs) = "Result" <=>
           Top(fs).kind = "Result" \/ (Top(fs).kind = "Error" /\ Len(fs) = 1)
      /\ Mode(fs) = "Normal" <=>
           Top(fs).kind \in {"Lua", "Callback", "Sequence"} \/ (Top(fs).kind = "Error" /\ Len(fs) # 1)
  BY <1>1 DEF Mode, FrameKinds
<1>4. Mode(fs) \in ThreadModes \ {"Panic", "Stopped"}
  BY <1>1 DEF Mode, FrameKinds, ThreadModes
<1> QED
  BY <1>1, <1>2, <1>3, <1>4

\* Taking results leaves a thread suspended if it had yielded, else stopped.
LEMMA TakenWellFormed ==
  ASSUME NEW fs, WellFormed(fs), Mode(fs) = "Result"
  PROVE  /\ WellFormed(ResultTaken(fs))
         /\ AbsMode(ResultTaken(fs)) = IF AbsMode(fs) = "Yielded" THEN "Suspended" ELSE "Stopped"
         /\ AbsMode(fs) \in {"Yielded", "Returned"}
         /\ Top(fs).kind \in {"Result", "Error"}
         /\ fs # << >>
<1>0. fs # << >>
  BY DEF Mode
<1>1. /\ fs \in Seq(Frame) /\ Len(fs) \in Nat /\ Len(fs) > 0
      /\ Pop(fs) \in Seq(Frame) /\ Len(Pop(fs)) = Len(fs) - 1
      /\ \A i \in 1..(Len(fs) - 1) : Pop(fs)[i] = fs[i]
      /\ Len(fs) > 1 <=> Pop(fs) # << >>
  BY <1>0, NonEmpty, PopElements DEF WellFormed
<1>2. Top(fs).kind = "Result" \/ (Top(fs).kind = "Error" /\ Len(fs) = 1)
  BY <1>0, ModeByTop
<1>3. ResultTaken(fs) = Pop(fs)
  BY <1>1, <1>2 DEF ResultTaken
<1>4. CASE Len(fs) = 1
  <2>1. Pop(fs) = << >> /\ AbsMode(fs) = "Returned"
    BY <1>1, <1>4 DEF AbsMode
  <2> QED
    BY <1>0, <1>2, <1>3, <2>1, EmptyFrames
<1>5. CASE Len(fs) > 1
  <2>1. Top(fs).kind = "Result" /\ fs[Len(fs) - 1] = F("Yielded") /\ AbsMode(fs) = "Yielded"
    BY <1>0, <1>1, <1>2, <1>5 DEF WellFormed, FrameDiscipline, TopFrameProper, AbsMode
  <2>2. /\ Top(Pop(fs)) = F("Yielded") /\ F("Yielded").kind = "Yielded"
        /\ F("Yielded") # F("Sequence") /\ F("Yielded") # LuaCalling /\ F("Lua") # F("Yielded")
    BY <1>1, <1>5, <2>1, FrameTypes DEF Top, FrameKinds
  <2>3. LowerFramesReturnable(Pop(fs))
    BY <1>1, <1>5, <2>1 DEF WellFormed, FrameDiscipline, LowerFramesReturnable
  <2>4. TopFrameProper(Pop(fs))
    BY <2>2 DEF TopFrameProper, FrameKinds
  <2>5. WellFormed(Pop(fs))
    BY <1>1, <2>3, <2>4 DEF WellFormed, FrameDiscipline
  <2>6. Mode(Pop(fs)) = "Suspended"
    BY <1>1, <1>5, <2>2 DEF Mode
  <2> QED
    BY <1>0, <1>3, <2>1, <2>5, <2>6 DEF AbsMode
<1> QED
  BY <1>1, <1>4, <1>5

\* Resuming a suspended thread continues it, or completes it at once if it had
\* yielded with no frame left.
LEMMA ResumedWellFormed ==
  ASSUME NEW fs, WellFormed(fs), Mode(fs) = "Suspended", NEW fn \in FunctionKinds
  PROVE  /\ WellFormed(Resumed(fs, fn))
         /\ AbsMode(Resumed(fs, fn)) \in {"Normal", "Returned"}
<1>0. fs # << >>
  BY DEF Mode
<1>1. Top(fs).kind \in {"Start", "Yielded"}
  BY <1>0, ModeByTop
<1>2. Returnable(Pop(fs))
  BY <1>0, <1>1, PoppedReturnable
<1>3. CASE Top(fs).kind = "Start"
  <2>1. Resumed(fs, fn) = Append(Pop(fs), F(fn))
    BY <1>0, <1>3 DEF Resumed, PushCall, WellFormed, FrameDiscipline, TopFrameProper
  <2>2. F(fn) \in Pushable /\ F(fn).kind \in {"Lua", "Callback"}
    BY FrameTypes DEF FunctionKinds, Pushable, FrameKinds
  <2> QED
    BY <1>2, <2>1, <2>2, PushedWellFormed
<1>4. CASE Top(fs).kind = "Yielded"
  BY <1>2, <1>4, ReturnedWellFormed DEF Resumed
<1> QED
  BY <1>1, <1>3, <1>4

\* Thread::resume_err puts an error over the frames that had yielded, or over
\* none.
LEMMA ResumedErrWellFormed ==
  ASSUME NEW fs, WellFormed(fs), Mode(fs) = "Suspended"
  PROVE  /\ WellFormed(ResumedErr(fs))
         /\ AbsMode(ResumedErr(fs)) \in {"Normal", "Returned"}
<1>0. fs # << >>
  BY DEF Mode
<1>1. Top(fs).kind \in {"Start", "Yielded"}
  BY <1>0, ModeByTop
<1>2. Returnable(Pop(fs))
  BY <1>0, <1>1, PoppedReturnable
<1>3. F("Error") \in Pushable /\ F("Error").kind = "Error"
  BY FrameTypes DEF Pushable, FrameKinds
<1> QED
  BY <1>2, <1>3, PushedWellFormed DEF ResumedErr

\* Unwinding meets a Lua frame or a sequence with no error pending yet.
LEMMA UnwoundWellFormed ==
  ASSUME NEW fs, WellFormed(fs), Mode(fs) = "Normal", Top(fs).kind = "Error"
  PROVE  /\ WellFormed(Unwound(fs))
         /\ AbsMode(Unwound(fs)) \in {"Normal", "Returned"}
<1>0. fs # << >>
  BY DEF Mode
<1>a. fs \in Seq(Frame) /\ Len(fs) \in Nat /\ Len(fs) > 0 /\ Len(fs) # 1
  BY <1>0, NonEmpty, ModeByTop DEF WellFormed
<1>1. /\ fs \in Seq(Frame) /\ Len(fs) \in Nat /\ Len(fs) > 1
      /\ Pop(fs) \in Seq(Frame) /\ Len(Pop(fs)) = Len(fs) - 1 /\ Pop(fs) # << >>
      /\ \A i \in 1..(Len(fs) - 1) : Pop(fs)[i] = fs[i]
  <2>0. \A n \in Nat : n > 0 /\ n # 1 => n > 1
    OBVIOUS
  <2>1. Len(fs) > 1
    BY <1>a, <2>0, Zenon
  <2>2. /\ Pop(fs) \in Seq(Frame) /\ Len(Pop(fs)) = Len(fs) - 1
        /\ \A i \in 1..(Len(fs) - 1) : Pop(fs)[i] = fs[i]
        /\ Len(fs) > 1 <=> Pop(fs) # << >>
    BY <1>0, <1>a, PopElements, Zenon
  <2> QED
    BY <1>a, <2>1, <2>2
<1> DEFINE p == Pop(fs)  rest == Pop(p)
<1> HIDE DEF p
<1>2. /\ rest \in Seq(Frame) /\ Len(rest) = Len(fs) - 2
      /\ \A i \in 1..(Len(fs) - 2) : rest[i] = fs[i]
      /\ Top(p) = fs[Len(fs) - 1]
  <2>1. p \in Seq(Frame) /\ p # << >> /\ Len(p) = Len(fs) - 1
        /\ \A i \in 1..(Len(fs) - 1) : p[i] = fs[i]
    BY <1>1 DEF p
  <2>2. rest \in Seq(Frame) /\ Len(rest) = Len(p) - 1
        /\ \A i \in 1..(Len(p) - 1) : rest[i] = p[i]
    BY <2>1, PopElements
  <2>3. Top(p) = fs[Len(fs) - 1]
    <3>1. Len(fs) - 1 \in 1..(Len(fs) - 1)
      BY <1>1
    <3> QED
      BY <2>1, <3>1 DEF Top
  <2>4. Len(rest) = Len(fs) - 2
    BY <1>1, <2>1, <2>2
  <2>5. \A i \in 1..(Len(fs) - 2) : rest[i] = fs[i]
    <3> HIDE DEF rest
    <3> TAKE i \in 1..(Len(fs) - 2)
    <3>1. i \in 1..(Len(p) - 1) /\ i \in 1..(Len(fs) - 1)
      BY <1>1, <2>1
    <3> QED
      BY <2>1, <2>2, <3>1
  <2> QED
    BY <2>2, <2>3, <2>4, <2>5
<1>3. Returnable(rest)
  BY <1>1, <1>2 DEF Returnable, WellFormed, FrameDiscipline, LowerFramesReturnable
<1>4. Top(p) \in {F("Sequence"), LuaCalling, F("Lua")}
  BY <1>1, <1>2 DEF WellFormed, FrameDiscipline, LowerFramesReturnable
<1>5. /\ F("Error") \in Pushable /\ F("Error").kind = "Error"
      /\ SequencePending \in Pushable /\ SequencePending.kind = "Sequence"
  BY FrameTypes DEF Pushable, FrameKinds
<1>6. CASE Top(p) = F("Sequence")
  <2>1. Top(p).kind = "Sequence" /\ ~Top(p).flag
    BY <1>6, FrameTypes DEF FrameKinds
  <2>2. Unwound(fs) = Append(rest, SequencePending)
    BY <2>1 DEF Unwound, p
  <2> QED
    BY <1>3, <1>5, <2>2, PushedWellFormed
<1>7. CASE Top(p) # F("Sequence")
  <2>1. Top(p).kind = "Lua"
    BY <1>4, <1>7, FrameTypes DEF FrameKinds
  <2>2. Unwound(fs) = Append(rest, F("Error"))
    BY <2>1 DEF Unwound, p
  <2> QED
    BY <1>3, <1>5, <2>2, PushedWellFormed
<1> QED
  BY <1>6, <1>7

\* A VM error is raised above the Lua frame that was running.
LEMMA LuaErrorWellFormed ==
  ASSUME NEW fs, WellFormed(fs), fs # << >>, Top(fs).kind = "Lua"
  PROVE  /\ WellFormed(Append(fs, F("Error")))
         /\ AbsMode(Append(fs, F("Error"))) = "Normal"
<1> DEFINE g == Append(fs, F("Error"))
<1>1. F("Error") \in Frame /\ F("Error").kind = "Error" /\ F("Error").flag = FALSE
  BY FrameTypes DEF FrameKinds
<1>2. /\ g \in Seq(Frame) /\ g # << >> /\ Len(g) = Len(fs) + 1 /\ Top(g) = F("Error")
      /\ \A i \in 1..Len(fs) : g[i] = fs[i]
      /\ Len(fs) \in Nat /\ Len(fs) > 0
  BY <1>1, PushElements, NonEmpty DEF WellFormed
<1>3. Top(fs) = F("Lua") /\ fs[Len(fs)] = F("Lua")
  <2>1. Top(fs) \in {F(k) : k \in FrameKinds \ {"Panic"}} \cup {SequencePending}
    BY DEF WellFormed, FrameDiscipline, TopFrameProper
  <2>2. Top(fs) = F("Lua")
    BY <2>1, FrameTypes
  <2> QED
    BY <2>2 DEF Top
<1>4. \A i \in 1..(Len(fs) - 1) : fs[i] = F("Sequence") \/ fs[i] = LuaCalling
  BY <1>3 DEF WellFormed, FrameDiscipline, LowerFramesReturnable
<1> HIDE DEF g
<1>5. LowerFramesReturnable(g)
  BY <1>1, <1>2, <1>3, <1>4 DEF LowerFramesReturnable
<1>6. TopFrameProper(g)
  BY <1>1, <1>2 DEF TopFrameProper, FrameKinds
<1>7. Mode(g) = "Normal"
  BY <1>1, <1>2 DEF Mode
<1> QED
  BY <1>2, <1>5, <1>6, <1>7 DEF WellFormed, FrameDiscipline, AbsMode, g

(***************************************************************************)
(* The executor.                                                           *)
(***************************************************************************)

CP == INSTANCE CoroutinesProofs WITH mode <- [t \in Threads |-> AbsMode(frames[t])],
                                     chain <- thread_stack

\* The inductive invariant of any use, misuse included.
Inv == TypeOK /\ FramesWellFormed

\* The coroutine modes, and a step or a stutter of the protocol.
amode == [t \in Threads |-> AbsMode(frames[t])]
ProtocolStep == C!Next \/ UNCHANGED <<amode, thread_stack>>

\* thread_stack is never empty, so the top and the main thread are threads.
LEMMA TopThread ==
  ASSUME TypeOK
  PROVE  /\ top_thread \in Threads /\ main_thread \in Threads
         /\ top_state \in Seq(Frame)
         /\ Len(thread_stack) \in Nat /\ Len(thread_stack) > 0
         /\ \A i \in 1..Len(thread_stack) : thread_stack[i] \in Threads
         /\ top_thread = thread_stack[Len(thread_stack)]
<1>1. /\ top_thread \in Threads
      /\ Len(thread_stack) \in Nat /\ Len(thread_stack) > 0
      /\ \A i \in 1..Len(thread_stack) : thread_stack[i] \in Threads
  BY NonEmpty DEF TypeOK, top_thread
<1>2. main_thread \in Threads
  BY <1>1 DEF main_thread
<1>3. top_state \in Seq(Frame)
  BY <1>1 DEF top_state, TypeOK
<1> QED
  BY <1>1, <1>2, <1>3 DEF top_thread, Top

\* Every thread has well-formed frames, and the invariant says no more of them.
LEMMA InvFrames ==
  ASSUME TypeOK
  PROVE  FramesWellFormed <=> \A t \in Threads : WellFormed(frames[t])
  BY DEF TypeOK, FramesWellFormed, WellFormed

\* Changing the frames of one thread.
LEMMA OneThreadChanges ==
  ASSUME Inv, NEW t \in Threads, NEW fs, WellFormed(fs),
         frames' = [frames EXCEPT ![t] = fs]
  PROVE  /\ frames' \in [Threads -> Seq(Frame)]
         /\ FramesWellFormed'
         /\ amode' = [amode EXCEPT ![t] = AbsMode(fs)]
  BY DEF Inv, TypeOK, FramesWellFormed, WellFormed, amode

\* The running thread changes its own frames: the protocol sees it complete, or
\* nothing.
LEMMA SetTopStep ==
  ASSUME Inv, Mode(top_state) = "Normal", NEW fs, WellFormed(fs),
         AbsMode(fs) \in {"Normal", "Returned", "Yielded"}, SetTop(fs)
  PROVE  /\ frames' \in [Threads -> Seq(Frame)] /\ FramesWellFormed'
         /\ thread_stack' = thread_stack
         /\ ProtocolStep
<1>1. /\ frames' \in [Threads -> Seq(Frame)] /\ FramesWellFormed'
      /\ amode' = [amode EXCEPT ![top_thread] = AbsMode(fs)]
  BY OneThreadChanges, TopThread DEF SetTop, Inv
<1>2. amode[top_thread] = "Normal" /\ top_thread \in Threads
  BY TopThread DEF amode, AbsMode, top_state, Inv
<1>3. CASE AbsMode(fs) = "Normal"
  <2>1. amode' = amode
    BY <1>1, <1>2, <1>3 DEF amode
  <2> QED
    BY <1>1, <2>1 DEF ProtocolStep, SetTop
<1>4. CASE AbsMode(fs) \in {"Returned", "Yielded"}
  <2>1. C!Complete(AbsMode(fs))
    BY <1>1, <1>2 DEF C!Complete, C!top, C!Top, amode, SetTop, top_thread, Top
  <2> QED
    BY <1>1, <1>4, <2>1 DEF ProtocolStep, C!Next, SetTop
<1> QED
  BY <1>3, <1>4

\* The running thread gives way to a suspended one, which it resumes: it waits
\* on the stack, or leaves it.
LEMMA ResumeStep ==
  ASSUME Inv, Mode(top_state) = "Normal", NEW t \in Threads, NEW fn \in FunctionKinds,
         CanResume(t), NEW fs, WellFormed(fs),
         frames' = [frames EXCEPT ![top_thread] = fs, ![t] = Resumed(frames[t], fn)],
         \/ AbsMode(fs) = "Waiting" /\ thread_stack' = Append(thread_stack, t)
         \/ /\ AbsMode(fs) \in {"Stopped", "Suspended"}
            /\ thread_stack' = Append(Pop(thread_stack), t)
  PROVE  /\ frames' \in [Threads -> Seq(Frame)] /\ FramesWellFormed'
         /\ thread_stack' \in Seq(Threads) /\ thread_stack' # << >>
         /\ ProtocolStep
<1>0. /\ top_thread \in Threads /\ t # top_thread
      /\ thread_stack \in Seq(Threads) /\ thread_stack # << >>
      /\ Mode(frames[t]) = "Suspended"
  BY TopThread DEF CanResume, Inv, TypeOK
<1>1. WellFormed(frames[t])
  BY InvFrames DEF Inv
<1>2. /\ WellFormed(Resumed(frames[t], fn))
      /\ AbsMode(Resumed(frames[t], fn)) \in {"Normal", "Returned"}
  BY <1>0, <1>1, ResumedWellFormed
<1>3. /\ frames' \in [Threads -> Seq(Frame)] /\ FramesWellFormed'
      /\ amode' = [amode EXCEPT ![top_thread] = AbsMode(fs),
                                ![t] = AbsMode(Resumed(frames[t], fn))]
  <2> DEFINE gs == Resumed(frames[t], fn)
  <2>1. WellFormed(gs) /\ frames' = [frames EXCEPT ![top_thread] = fs, ![t] = gs]
    BY <1>2
  <2> HIDE DEF gs
  <2>2. /\ frames' \in [Threads -> Seq(Frame)] /\ FramesWellFormed'
        /\ amode' = [amode EXCEPT ![top_thread] = AbsMode(fs), ![t] = AbsMode(gs)]
    BY <1>0, <2>1 DEF Inv, TypeOK, FramesWellFormed, WellFormed, amode
  <2> QED
    BY <2>2 DEF gs
<1>4. amode[top_thread] = "Normal" /\ amode[t] = "Suspended"
  BY <1>0 DEF amode, AbsMode, top_state
<1>5. /\ Pop(thread_stack) \in Seq(Threads)
      /\ thread_stack' \in Seq(Threads) /\ thread_stack' # << >>
  <2>1. Pop(thread_stack) \in Seq(Threads)
    BY <1>0, PopElements
  <2>2. \A s \in Seq(Threads) : Append(s, t) \in Seq(Threads) /\ Append(s, t) # << >>
    BY PushElements
  <2> QED
    BY <1>0, <2>1, <2>2
<1>6. CASE AbsMode(fs) = "Waiting"
  <2>1. thread_stack' = Append(thread_stack, t)
    BY <1>6
  <2>2. C!Resume(t, AbsMode(Resumed(frames[t], fn)))
    BY <1>3, <1>4, <1>6, <2>1 DEF C!Resume, C!top, C!Top, amode, top_thread, Top
  <2> QED
    BY <1>2, <1>3, <1>5, <2>2 DEF ProtocolStep, C!Next
<1>7. CASE AbsMode(fs) # "Waiting"
  <2>1. AbsMode(fs) \in {"Stopped", "Suspended"} /\ thread_stack' = Append(Pop(thread_stack), t)
    BY <1>7
  <2>2. C!HandOver(t, AbsMode(fs), AbsMode(Resumed(frames[t], fn)))
    BY <1>3, <1>4, <2>1
       DEF C!HandOver, C!top, C!Top, C!Pop, amode, top_thread, Top, Pop
  <2> QED
    BY <1>2, <1>3, <1>5, <2>1, <2>2 DEF ProtocolStep, C!Next
<1> QED
  BY <1>6, <1>7

\* Every answer of a callback or a sequence.
LEMMA AnswerStep ==
  ASSUME Inv, Mode(top_state) = "Normal", NEW rest, Returnable(rest), Answer(rest)
  PROVE  /\ frames' \in [Threads -> Seq(Frame)] /\ FramesWellFormed'
         /\ thread_stack' \in Seq(Threads) /\ thread_stack' # << >>
         /\ ProtocolStep
<1> DEFINE Goal == /\ frames' \in [Threads -> Seq(Frame)] /\ FramesWellFormed'
                   /\ thread_stack' \in Seq(Threads) /\ thread_stack' # << >>
                   /\ ProtocolStep
<1>0. thread_stack \in Seq(Threads) /\ thread_stack # << >>
  BY DEF Inv, TypeOK
<1>1. ASSUME NEW fs, WellFormed(fs), AbsMode(fs) \in {"Normal", "Returned", "Yielded"}, SetTop(fs)
      PROVE Goal
  BY <1>0, <1>1, SetTopStep
<1>2. /\ \A k \in {"Lua", "Callback", "Sequence", "Error", "Yielded"} :
           F(k) \in Pushable /\ F(k).kind = k
      /\ F("Sequence") \in {F("Sequence"), LuaCalling}
  BY FrameTypes DEF Pushable, FrameKinds
<1>3. ASSUME NEW kept, Returnable(kept), NEW k \in {"Lua", "Callback", "Sequence", "Error"}
      PROVE  /\ WellFormed(Append(kept, F(k)))
             /\ AbsMode(Append(kept, F(k))) \in {"Normal", "Returned", "Yielded"}
  BY <1>2, <1>3, PushedWellFormed
<1> HIDE DEF Goal
<1>4. ASSUME SetTop(ReturnTo(rest)) PROVE Goal
  <2>1. WellFormed(ReturnTo(rest)) /\ AbsMode(ReturnTo(rest)) \in {"Normal", "Returned", "Yielded"}
    BY ReturnedWellFormed
  <2> QED
    BY <1>1, <1>4, <2>1
<1>5. ASSUME SetTop(Append(rest, F("Sequence"))) \/ SetTop(Append(rest, F("Error")))
      PROVE Goal
  <2>1. ASSUME NEW k \in {"Sequence", "Error"}, SetTop(Append(rest, F(k))) PROVE Goal
    <3>1. /\ WellFormed(Append(rest, F(k)))
          /\ AbsMode(Append(rest, F(k))) \in {"Normal", "Returned", "Yielded"}
      BY <1>3
    <3> QED
      BY <1>1, <2>1, <3>1
  <2> QED
    BY <1>5, <2>1
<1>6. ASSUME NEW kept, Returnable(kept)
      PROVE  /\ \A fn \in FunctionKinds : SetTop(PushCall(kept, fn)) => Goal
             /\ Yield(kept) => Goal
             /\ \A t \in Threads, fn \in FunctionKinds : YieldTo(kept, t, fn) => Goal
             /\ \A t \in Threads, fn \in FunctionKinds : Resume(kept, t, fn) => Goal
  <2>1. ASSUME NEW fn \in FunctionKinds, SetTop(PushCall(kept, fn)) PROVE Goal
    BY <1>1, <1>3, <1>6, <2>1 DEF PushCall, FunctionKinds
  <2>2. ASSUME Yield(kept) PROVE Goal
    BY <1>1, <1>6, <2>2, YieldedWellFormed DEF Yield
  <2>3. ASSUME NEW t \in Threads, ~CanResume(t), SetTop(Append(kept, F("Error"))) PROVE Goal
    BY <1>1, <1>3, <1>6, <2>3
  <2>4. ASSUME NEW t \in Threads, NEW fn \in FunctionKinds, YieldTo(kept, t, fn) PROVE Goal
    <3>1. CASE CanResume(t)
      <4>1. /\ WellFormed(Append(kept, F("Yielded")))
            /\ AbsMode(Append(kept, F("Yielded"))) = "Suspended"
        BY <1>2, <1>6, PushedWellFormed
      <4> QED
        BY <2>4, <3>1, <4>1, ResumeStep DEF YieldTo, Goal
    <3> QED
      BY <2>3, <2>4, <3>1 DEF YieldTo
  <2>5. ASSUME NEW t \in Threads, NEW fn \in FunctionKinds, Resume(kept, t, fn) PROVE Goal
    <3>1. CASE CanResume(t) /\ kept = << >>
      <4>1. WellFormed(<< >>) /\ AbsMode(<< >>) = "Stopped"
        BY EmptyFrames
      <4> QED
        BY <2>5, <3>1, <4>1, ResumeStep DEF Resume, Goal
    <3>2. CASE CanResume(t) /\ kept # << >>
      <4>1. /\ WellFormed(Append(kept, F("WaitThread")))
            /\ AbsMode(Append(kept, F("WaitThread"))) = "Waiting"
        BY <1>6, <3>2, WaitWellFormed
      <4> QED
        BY <2>5, <3>2, <4>1, ResumeStep DEF Resume, Goal
    <3> QED
      BY <2>3, <2>5, <3>1, <3>2 DEF Resume
  <2> QED
    BY <2>1, <2>2, <2>4, <2>5
<1>7. /\ Returnable(rest)
      /\ Returnable(Append(rest, F("Sequence")))
  BY <1>2, KeptReturnable
<1> QED
  BY <1>4, <1>5, <1>6, <1>7 DEF Answer, Goal

\* The end of an iteration, or of the call, changes neither frames nor threads.
LEMMA EndsTyped ==
  ASSUME TypeOK
  PROVE  /\ \A cost \in Nat, b \in BOOLEAN :
              EndIteration(cost, b) =>
                /\ stepping' \in BOOLEAN /\ fuel' \in Int /\ ret' \in Returns
                /\ ret' \in {ret, "false"}
         /\ \A r \in Returns :
              Return(r) => stepping' \in BOOLEAN /\ fuel' \in Int /\ ret' = r
<1>1. ASSUME NEW cost \in Nat, NEW b \in BOOLEAN, EndIteration(cost, b)
      PROVE  /\ stepping' \in BOOLEAN /\ fuel' \in Int /\ ret' \in Returns
             /\ ret' \in {ret, "false"}
  <2>1. fuel - cost - FUEL_PER_STEP \in Int /\ 0 \in Int
    BY FuelAssumption DEF TypeOK
  <2>2. \/ fuel' = fuel - cost - FUEL_PER_STEP /\ stepping' = stepping /\ ret' = ret
        \/ stepping' = FALSE /\ fuel' = 0 /\ ret' = "false"
    BY <1>1, Zenon DEF EndIteration, Return
  <2>3. "false" \in Returns /\ stepping \in BOOLEAN /\ ret \in Returns
    BY DEF TypeOK, Returns
  <2> QED
    BY <2>1, <2>2, <2>3, Zenon
<1>2. ASSUME NEW r \in Returns, Return(r)
      PROVE  stepping' \in BOOLEAN /\ fuel' \in Int /\ ret' = r
  <2>1. 0 \in Int
    OBVIOUS
  <2> QED
    BY <1>2, <2>1, Zenon DEF Return
<1> QED
  BY <1>1, <1>2, Zenon

\* Results are handed to the thread that waits below.
LEMMA DeliverStep ==
  ASSUME Inv, Deliver
  PROVE  /\ frames' \in [Threads -> Seq(Frame)] /\ FramesWellFormed'
         /\ thread_stack' \in Seq(Threads) /\ thread_stack' # << >>
         /\ ProtocolStep
<1> DEFINE n == Len(thread_stack)
           below == thread_stack[n - 1]
           woken == Pop(frames[below])
           bs == IF Top(top_state).kind = "Result" THEN ReturnTo(woken)
                 ELSE Append(woken, F("Error"))
<1>0. /\ n \in Nat /\ n > 1
      /\ below \in Threads /\ top_thread \in Threads
      /\ thread_stack \in Seq(Threads) /\ thread_stack # << >>
      /\ Mode(top_state) = "Result" /\ Mode(frames[below]) = "Waiting"
      /\ below # top_thread
  BY TopThread DEF Deliver, Inv, TypeOK, top_state
<1>1. WellFormed(top_state) /\ WellFormed(frames[below])
  BY <1>0, InvFrames DEF Inv, top_state
<1>2. /\ WellFormed(ResultTaken(top_state))
      /\ AbsMode(ResultTaken(top_state)) =
           IF AbsMode(top_state) = "Yielded" THEN "Suspended" ELSE "Stopped"
      /\ AbsMode(top_state) \in {"Yielded", "Returned"}
  BY <1>0, <1>1, TakenWellFormed
<1>3. Returnable(woken) /\ woken # << >>
  <2>1. frames[below] # << >>
    BY <1>0 DEF Mode
  <2>2. Top(frames[below]).kind = "WaitThread"
    BY <1>0, <1>1, <2>1, ModeByTop
  <2>3. Len(frames[below]) > 1
    BY <1>1, <2>1, <2>2 DEF WellFormed, FrameDiscipline, TopFrameProper
  <2>4. Returnable(woken)
    BY <1>1, <2>1, <2>2, PoppedReturnable
  <2>5. woken # << >>
    BY <1>1, <2>1, <2>3, PopElements DEF WellFormed
  <2> QED
    BY <2>4, <2>5
<1>4. WellFormed(bs) /\ AbsMode(bs) = "Normal"
  <2>1. F("Error") \in Pushable /\ F("Error").kind = "Error"
    BY FrameTypes DEF Pushable, FrameKinds
  <2>2. WellFormed(Append(woken, F("Error"))) /\ AbsMode(Append(woken, F("Error"))) = "Normal"
    BY <1>3, <2>1, PushedWellFormed
  <2>3. WellFormed(ReturnTo(woken)) /\ AbsMode(ReturnTo(woken)) = "Normal"
    BY <1>3, ReturnedWellFormed
  <2> QED
    BY <2>2, <2>3
<1>5. frames' = [frames EXCEPT ![top_thread] = ResultTaken(top_state), ![below] = bs]
  BY DEF Deliver
<1> HIDE DEF bs, below, n
<1>6. /\ frames' \in [Threads -> Seq(Frame)] /\ FramesWellFormed'
      /\ amode' = [amode EXCEPT ![top_thread] = AbsMode(ResultTaken(top_state)),
                                ![below] = "Normal"]
  BY <1>0, <1>2, <1>4, <1>5 DEF Inv, TypeOK, FramesWellFormed, WellFormed, amode
<1>7. amode[top_thread] = AbsMode(top_state) /\ amode[below] = "Waiting"
  BY <1>0 DEF amode, AbsMode, top_state
<1>8. thread_stack' = Pop(thread_stack)
  BY DEF Deliver
<1>9. thread_stack' \in Seq(Threads) /\ thread_stack' # << >>
  BY <1>0, <1>8, PopElements DEF n
<1>10. AbsMode(ResultTaken(top_state)) = C!Taken(amode[top_thread])
  BY <1>2, <1>7 DEF C!Taken
<1>11. C!Deliver
  BY <1>0, <1>2, <1>6, <1>7, <1>8, <1>10
     DEF C!Deliver, C!top, C!Top, C!Pop, Pop, amode, top_thread, Top, below, n
<1> QED
  BY <1>6, <1>9, <1>11 DEF ProtocolStep, C!Next

\* Every iteration of the step loop.
LEMMA LoopStep ==
  ASSUME Inv, StepLoop
  PROVE  Inv' /\ (ProtocolStep \/ StepBadThreadMode)
<1>0. /\ top_thread \in Threads /\ WellFormed(top_state)
      /\ thread_stack \in Seq(Threads) /\ thread_stack # << >>
      /\ frames \in [Threads -> Seq(Frame)]
      /\ TypeOK /\ FramesWellFormed
  BY TopThread, InvFrames DEF Inv, TypeOK, top_state
<1>r. "true" \in Returns /\ "BadThreadMode" \in Returns
  BY DEF Returns
<1>u. ASSUME frames' = frames PROVE FramesWellFormed' /\ amode' = amode
  BY <1>0, <1>u DEF FramesWellFormed, amode
<1>1. CASE StepDone
  <2>1. stepping' \in BOOLEAN /\ fuel' \in Int /\ ret' \in Returns
    BY <1>0, <1>1, <1>r, EndsTyped DEF StepDone
  <2> QED
    BY <1>0, <1>1, <1>u, <2>1 DEF StepDone, Inv, TypeOK, ProtocolStep
<1>2. CASE Deliver
  <2>1. stepping' \in BOOLEAN /\ fuel' \in Int /\ ret' \in Returns
    BY <1>0, <1>2 DEF Deliver, TypeOK
  <2> QED
    BY <1>2, <2>1, DeliverStep DEF Inv, TypeOK
<1>3. CASE StepBadThreadMode
  <2>1. stepping' \in BOOLEAN /\ fuel' \in Int /\ ret' \in Returns
    BY <1>0, <1>3, <1>r, EndsTyped DEF StepBadThreadMode
  <2>2. thread_stack' \in Seq(Threads) /\ thread_stack' # << >>
    BY <1>0, <1>3, PopElements DEF StepBadThreadMode
  <2> QED
    BY <1>0, <1>3, <1>u, <2>1, <2>2 DEF StepBadThreadMode, Inv, TypeOK
<1>n. ASSUME Running("Callback") \/ Running("Sequence") \/ Running("Lua") \/ Running("Error")
      PROVE  Mode(top_state) = "Normal" /\ top_state # << >>
  BY <1>n DEF Running, Mode
<1>4. ASSUME NEW k \in {"Callback", "Sequence"}, Running(k), Answer(Pop(top_state)),
             NEW cost \in Nat, NEW b \in BOOLEAN, EndIteration(cost, b)
      PROVE  Inv' /\ ProtocolStep
  <2>1. Mode(top_state) = "Normal" /\ top_state # << >> /\ Top(top_state).kind = k
    BY <1>4, <1>n DEF Running
  <2>2. Returnable(Pop(top_state))
    BY <1>0, <2>1, PoppedReturnable
  <2>3. stepping' \in BOOLEAN /\ fuel' \in Int /\ ret' \in Returns
    BY <1>0, <1>4, EndsTyped
  <2> QED
    BY <1>4, <2>1, <2>2, <2>3, AnswerStep DEF Inv, TypeOK
<1>5. CASE RunCallback
  BY <1>4, <1>5, FuelAssumption DEF RunCallback
<1>6. CASE RunSequence
  BY <1>4, <1>6, FuelAssumption DEF RunSequence
<1>7. ASSUME NEW fs, WellFormed(fs), AbsMode(fs) \in {"Normal", "Returned", "Yielded"},
             Mode(top_state) = "Normal", SetTop(fs),
             NEW cost \in Nat, NEW b \in BOOLEAN, EndIteration(cost, b)
      PROVE  Inv' /\ ProtocolStep
  <2>1. stepping' \in BOOLEAN /\ fuel' \in Int /\ ret' \in Returns
    BY <1>0, <1>7, EndsTyped
  <2> QED
    BY <1>0, <1>7, <2>1, SetTopStep DEF Inv, TypeOK
<1>8. CASE RunLua
  <2>1. /\ Mode(top_state) = "Normal" /\ top_state # << >> /\ Top(top_state).kind = "Lua"
        /\ AbsMode(top_state) = "Normal"
    BY <1>8, <1>n DEF RunLua, Running, AbsMode
  <2>2. Returnable(Pop(top_state))
    BY <1>0, <2>1, PoppedReturnable
  <2>3. \A k \in FunctionKinds : F(k) \in Pushable /\ F(k).kind \in {"Lua", "Callback"}
    BY FrameTypes DEF Pushable, FrameKinds, FunctionKinds
  <2>4. \A fs : Returnable(fs) => \A fn \in FunctionKinds :
          WellFormed(PushCall(fs, fn)) /\ AbsMode(PushCall(fs, fn)) = "Normal"
    BY <2>3, PushedWellFormed DEF PushCall
  <2>5. Returnable(Append(Pop(top_state), LuaCalling))
    BY <2>2, KeptReturnable
  <2>6. ASSUME NEW cost \in VmCosts, EndIteration(cost, FALSE),
               \/ LuaContinue
               \/ \E fn \in FunctionKinds : LuaCall(fn)
               \/ \E fn \in FunctionKinds : LuaTailCall(fn)
               \/ LuaReturn
        PROVE  Inv' /\ ProtocolStep
    <3>0. cost \in Nat /\ FALSE \in BOOLEAN
      BY FuelAssumption
    <3>1. ASSUME LuaContinue PROVE Inv' /\ ProtocolStep
      BY <1>0, <1>7, <2>1, <2>6, <3>0, <3>1 DEF LuaContinue
    <3>2. ASSUME NEW fn \in FunctionKinds, LuaCall(fn) PROVE Inv' /\ ProtocolStep
      BY <1>7, <2>1, <2>4, <2>5, <2>6, <3>0, <3>2 DEF LuaCall
    <3>3. ASSUME NEW fn \in FunctionKinds, LuaTailCall(fn) PROVE Inv' /\ ProtocolStep
      BY <1>7, <2>1, <2>2, <2>4, <2>6, <3>0, <3>3 DEF LuaTailCall
    <3>4. ASSUME LuaReturn PROVE Inv' /\ ProtocolStep
      <4>1. /\ WellFormed(ReturnTo(Pop(top_state)))
            /\ AbsMode(ReturnTo(Pop(top_state))) \in {"Normal", "Returned", "Yielded"}
        BY <2>2, ReturnedWellFormed
      <4> QED
        BY <1>7, <2>1, <2>6, <3>0, <3>4, <4>1 DEF LuaReturn
    <3> QED
      BY <2>6, <3>1, <3>2, <3>3, <3>4
  <2>7. ASSUME LuaError, EndIteration(0, FALSE) PROVE Inv' /\ ProtocolStep
    <3>1. /\ WellFormed(Append(top_state, F("Error")))
          /\ AbsMode(Append(top_state, F("Error"))) = "Normal"
      BY <1>0, <2>1, LuaErrorWellFormed
    <3> QED
      BY <1>7, <2>1, <2>7, <3>1 DEF LuaError
  <2> QED
    BY <1>8, <2>6, <2>7 DEF RunLua
<1>9. CASE UnwindError
  <2>1. Mode(top_state) = "Normal" /\ Top(top_state).kind = "Error"
    BY <1>9 DEF UnwindError, Running
  <2>2. WellFormed(Unwound(top_state)) /\ AbsMode(Unwound(top_state)) \in {"Normal", "Returned"}
    BY <1>0, <2>1, UnwoundWellFormed
  <2> QED
    BY <1>7, <1>9, <2>1, <2>2 DEF UnwindError
<1>10. ASSUME NEW t \in Threads, CreateCoroutine(t) PROVE Inv' /\ ProtocolStep
  <2>1. WellFormed(StartedSuspended(<< >>)) /\ AbsMode(StartedSuspended(<< >>)) = "Suspended"
    BY StartWellFormed
  <2>2. /\ frames' \in [Threads -> Seq(Frame)] /\ FramesWellFormed'
        /\ amode' = [amode EXCEPT ![t] = "Suspended"]
    BY <1>10, <2>1, OneThreadChanges DEF CreateCoroutine
  <2>3. C!Outside(t, "Suspended")
    BY <1>10, <2>2 DEF CreateCoroutine, InStack, C!Outside, amode
  <2>4. stepping' \in BOOLEAN /\ fuel' \in Int /\ ret' \in Returns /\ thread_stack' = thread_stack
    BY <1>0, <1>10 DEF CreateCoroutine, TypeOK
  <2>5. ProtocolStep
    BY <2>3 DEF ProtocolStep, C!Next, C!Modes
  <2> QED
    BY <1>0, <2>2, <2>4, <2>5 DEF Inv, TypeOK
<1> QED
  BY <1>1, <1>2, <1>3, <1>5, <1>6, <1>8, <1>9, <1>10 DEF StepLoop

-----------------------------------------------------------------------------
(* Calls of the host. *)

\* Thread::start of an empty thread leaves it well formed and running.
LEMMA StartedWellFormed ==
  ASSUME NEW fn \in FunctionKinds
  PROVE  WellFormed(Started(<< >>, fn)) /\ AbsMode(Started(<< >>, fn)) = "Normal"
<1>1. F(fn) \in Pushable /\ F(fn).kind \in {"Lua", "Callback"}
  BY FrameTypes DEF FunctionKinds, Pushable, FrameKinds
<1> QED
  BY <1>1, EmptyFrames, PushedWellFormed DEF Started, PushCall

\* A call of the host that leaves well-formed frames keeps the invariant.
LEMMA HostSetsStep ==
  ASSUME Inv, NEW t \in Threads, NEW fs, WellFormed(fs), HostSets(t, fs),
         thread_stack' \in Seq(Threads), thread_stack' # << >>
  PROVE  Inv' /\ amode' = [amode EXCEPT ![t] = AbsMode(fs)]
<1>1. /\ frames' \in [Threads -> Seq(Frame)] /\ FramesWellFormed'
      /\ amode' = [amode EXCEPT ![t] = AbsMode(fs)]
  BY OneThreadChanges DEF HostSets
<1>2. stepping' \in BOOLEAN /\ fuel' \in Int /\ ret' \in Returns
  BY DEF HostSets, Inv, TypeOK, Returns
<1> QED
  BY <1>1, <1>2 DEF Inv, TypeOK

\* Thread's own methods, on any thread.
LEMMA ThreadCallStep ==
  ASSUME Inv, NEW t \in Threads, ThreadCall(t)
  PROVE  /\ Inv'
         /\ \E m \in C!Modes : amode' = [amode EXCEPT ![t] = m]
         /\ thread_stack' = thread_stack
<1> DEFINE fs == frames[t]
<1>0. /\ WellFormed(fs) /\ thread_stack' = thread_stack
      /\ thread_stack' \in Seq(Threads) /\ thread_stack' # << >>
  BY InvFrames DEF Inv, TypeOK, ThreadCall
<1>1. ASSUME NEW gs, WellFormed(gs), AbsMode(gs) \in C!Modes, HostSets(t, gs)
      PROVE  Inv' /\ \E m \in C!Modes : amode' = [amode EXCEPT ![t] = m]
  BY <1>0, <1>1, HostSetsStep
<1>2. CASE Mode(fs) = "Stopped" /\ \E fn \in FunctionKinds : HostSets(t, Started(fs, fn))
  <2>1. fs = << >>
    BY <1>0, <1>2, ModeByTop
  <2>2. PICK fn \in FunctionKinds : HostSets(t, Started(<< >>, fn))
    BY <1>2, <2>1
  <2>3. WellFormed(Started(<< >>, fn)) /\ AbsMode(Started(<< >>, fn)) \in C!Modes
    BY StartedWellFormed DEF C!Modes
  <2> QED
    BY <1>0, <1>1, <2>2, <2>3
<1>3. CASE Mode(fs) = "Stopped" /\ HostSets(t, StartedSuspended(fs))
  <2>1. fs = << >>
    BY <1>0, <1>3, ModeByTop
  <2>2. WellFormed(StartedSuspended(fs)) /\ AbsMode(StartedSuspended(fs)) \in C!Modes
    BY <2>1, StartWellFormed DEF C!Modes
  <2> QED
    BY <1>0, <1>1, <1>3, <2>2
<1>4. CASE Mode(fs) = "Result" /\ HostSets(t, ResultTaken(fs))
  <2>1. WellFormed(ResultTaken(fs)) /\ AbsMode(ResultTaken(fs)) \in C!Modes
    BY <1>0, <1>4, TakenWellFormed DEF C!Modes
  <2> QED
    BY <1>0, <1>1, <1>4, <2>1
<1>5. CASE Mode(fs) = "Suspended" /\ \E fn \in FunctionKinds : HostSets(t, Resumed(fs, fn))
  <2>1. PICK fn \in FunctionKinds : HostSets(t, Resumed(fs, fn))
    BY <1>5
  <2>2. WellFormed(Resumed(fs, fn)) /\ AbsMode(Resumed(fs, fn)) \in C!Modes
    BY <1>0, <1>5, ResumedWellFormed DEF C!Modes
  <2> QED
    BY <1>0, <1>1, <2>1, <2>2
<1>6. CASE Mode(fs) = "Suspended" /\ HostSets(t, ResumedErr(fs))
  <2>1. WellFormed(ResumedErr(fs)) /\ AbsMode(ResumedErr(fs)) \in C!Modes
    BY <1>0, <1>6, ResumedErrWellFormed DEF C!Modes
  <2> QED
    BY <1>0, <1>1, <1>6, <2>1
<1>7. CASE HostSets(t, ResetFrames)
  <2>1. WellFormed(ResetFrames) /\ AbsMode(ResetFrames) \in C!Modes
    BY EmptyFrames DEF ResetFrames, C!Modes
  <2> QED
    BY <1>0, <1>1, <1>7, <2>1
<1> QED
  BY <1>2, <1>3, <1>4, <1>5, <1>6, <1>7 DEF ThreadCall

\* Executor's methods other than step.
LEMMA ExecutorCallStep ==
  ASSUME Inv, ExecutorCall
  PROVE  Inv' /\ ProtocolStep
<1>0. /\ main_thread \in Threads /\ WellFormed(frames[main_thread])
      /\ Len(thread_stack) \in Nat /\ Len(thread_stack) > 0
      /\ thread_stack \in Seq(Threads) /\ thread_stack # << >>
      /\ \A t \in Threads : <<t>> \in Seq(Threads) /\ <<t>> # << >>
  BY TopThread, InvFrames DEF Inv, TypeOK
<1>1. ASSUME ExecutorMode \in {"Result", "Suspended"}
      PROVE  /\ Len(thread_stack) = 1 /\ ExecutorMode = Mode(frames[main_thread])
             /\ C!top = main_thread
  <2>1. ~(Len(thread_stack) > 1)
    BY <1>1 DEF ExecutorMode
  <2>2. \A n \in Nat : n > 0 /\ ~(n > 1) => n = 1
    OBVIOUS
  <2>3. Len(thread_stack) = 1
    BY <1>0, <2>1, <2>2, Zenon
  <2>4. C!top = main_thread
    BY <2>3 DEF C!top, C!Top, main_thread
  <2> QED
    BY <1>1, <2>1, <2>3, <2>4 DEF ExecutorMode
<1>2. CASE ExecTakeResult
  <2>1. /\ Mode(frames[main_thread]) = "Result" /\ Len(thread_stack) = 1
        /\ C!top = main_thread
    BY <1>1, <1>2 DEF ExecTakeResult
  <2>2. /\ WellFormed(ResultTaken(frames[main_thread]))
        /\ AbsMode(frames[main_thread]) \in {"Yielded", "Returned"}
        /\ AbsMode(ResultTaken(frames[main_thread])) =
             IF AbsMode(frames[main_thread]) = "Yielded" THEN "Suspended" ELSE "Stopped"
    BY <1>0, <2>1, TakenWellFormed
  <2>3. AbsMode(ResultTaken(frames[main_thread])) = C!Taken(AbsMode(frames[main_thread]))
    BY <2>2 DEF C!Taken
  <2>4. /\ Inv'
        /\ amode' = [amode EXCEPT ![main_thread] = AbsMode(ResultTaken(frames[main_thread]))]
    BY <1>0, <1>2, <2>2, HostSetsStep DEF ExecTakeResult
  <2>5. C!TakeResult
    BY <1>0, <1>2, <2>1, <2>2, <2>3, <2>4 DEF C!TakeResult, amode, ExecTakeResult
  <2> QED
    BY <2>4, <2>5 DEF ProtocolStep, C!Next
<1>3. ASSUME ExecutorMode = "Suspended", NEW fs, WellFormed(fs),
             AbsMode(fs) \in {"Normal", "Returned"},
             HostSets(main_thread, fs), UNCHANGED thread_stack
      PROVE  Inv' /\ ProtocolStep
  <2>1. /\ Mode(frames[main_thread]) = "Suspended" /\ Len(thread_stack) = 1
        /\ C!top = main_thread
    BY <1>1, <1>3
  <2>2. Inv' /\ amode' = [amode EXCEPT ![main_thread] = AbsMode(fs)]
    BY <1>0, <1>3, HostSetsStep
  <2>3. C!HostResume(AbsMode(fs))
    BY <1>0, <1>3, <2>1, <2>2 DEF C!HostResume, amode, AbsMode
  <2> QED
    BY <1>3, <2>2, <2>3 DEF ProtocolStep, C!Next
<1>4. CASE ExecResume
  <2>1. Mode(frames[main_thread]) = "Suspended"
    BY <1>1, <1>4 DEF ExecResume
  <2>2. \A fn \in FunctionKinds :
           /\ WellFormed(Resumed(frames[main_thread], fn))
           /\ AbsMode(Resumed(frames[main_thread], fn)) \in {"Normal", "Returned"}
    BY <1>0, <2>1, ResumedWellFormed
  <2> QED
    BY <1>3, <1>4, <2>2 DEF ExecResume
<1>5. CASE ExecResumeErr
  <2>1. Mode(frames[main_thread]) = "Suspended"
    BY <1>1, <1>5 DEF ExecResumeErr
  <2>2. /\ WellFormed(ResumedErr(frames[main_thread]))
        /\ AbsMode(ResumedErr(frames[main_thread])) \in {"Normal", "Returned"}
    BY <1>0, <2>1, ResumedErrWellFormed
  <2> QED
    BY <1>3, <1>5, <2>2 DEF ExecResumeErr
<1>6. CASE ExecStop
  <2>1. WellFormed(ResetFrames) /\ AbsMode(ResetFrames) = "Stopped"
    BY EmptyFrames DEF ResetFrames
  <2>2. Inv' /\ amode' = [amode EXCEPT ![main_thread] = "Stopped"]
    BY <1>0, <1>6, <2>1, HostSetsStep DEF ExecStop
  <2>3. C!Restart("Stopped")
    BY <1>6, <2>2 DEF C!Restart, amode, ExecStop, main_thread
  <2> QED
    BY <2>2, <2>3 DEF ProtocolStep, C!Next
<1>7. CASE ExecRestart
  <2>1. PICK fn \in FunctionKinds : HostSets(main_thread, Started(<< >>, fn))
    BY <1>7 DEF ExecRestart, ResetFrames
  <2>2. WellFormed(Started(<< >>, fn)) /\ AbsMode(Started(<< >>, fn)) = "Normal"
    BY StartedWellFormed
  <2>3. Inv' /\ amode' = [amode EXCEPT ![main_thread] = "Normal"]
    BY <1>0, <1>7, <2>1, <2>2, HostSetsStep DEF ExecRestart
  <2>4. C!Restart("Normal")
    BY <1>7, <2>3 DEF C!Restart, amode, ExecRestart, main_thread
  <2> QED
    BY <2>3, <2>4 DEF ProtocolStep, C!Next
<1>8. ASSUME NEW t \in Threads, ExecReset(t) PROVE Inv' /\ ProtocolStep
  <2>1. WellFormed(frames[t])
    BY InvFrames DEF Inv
  <2>2. Inv' /\ amode' = [amode EXCEPT ![t] = AbsMode(frames[t])]
    BY <1>0, <1>8, <2>1, HostSetsStep DEF ExecReset
  <2>3. amode' = amode
    BY <2>2 DEF amode
  <2>4. C!Switch(t)
    BY <1>8, <2>3 DEF C!Switch, amode, ExecReset, AbsMode
  <2> QED
    BY <2>2, <2>4 DEF ProtocolStep, C!Next
<1> QED
  BY <1>2, <1>4, <1>5, <1>6, <1>7, <1>8 DEF ExecutorCall

\* Entering Executor::step changes no thread.
LEMMA HostStepStep == ASSUME Inv, HostStep PROVE Inv' /\ ProtocolStep
<1>1. PICK f \in FuelGiven : fuel' = f
  BY DEF HostStep
<1>2. fuel' \in Int /\ stepping' \in BOOLEAN /\ ret' \in Returns
  BY <1>1, FuelAssumption DEF HostStep, Returns
<1> QED
  BY <1>2 DEF HostStep, Inv, TypeOK, FramesWellFormed, ProtocolStep, amode

-----------------------------------------------------------------------------
(* The theorems. *)

\* Executor::new over empty threads.
LEMMA InitInv == Init => Inv
<1> SUFFICES ASSUME Init PROVE Inv
  OBVIOUS
<1>1. PICK t \in Threads : thread_stack = <<t>>
  BY DEF Init
<1>2. thread_stack \in Seq(Threads) /\ thread_stack # << >>
  BY <1>1
<1>3. << >> \in Seq(Frame) /\ FrameDiscipline(<< >>)
  BY EmptyFrames DEF WellFormed
<1>4. fuel \in Int /\ ret \in Returns
  BY DEF Init, Returns
<1>5. stepping \in BOOLEAN
  BY Zenon DEF Init
<1> QED
  BY <1>2, <1>3, <1>4, <1>5 DEF Init, Inv, TypeOK, FramesWellFormed

\* A stuttering step keeps the invariant.
LEMMA UnchangedInv == ASSUME Inv, UNCHANGED vars PROVE Inv' /\ ProtocolStep
  BY DEF vars, Inv, TypeOK, FramesWellFormed, ProtocolStep, amode

\* However a host uses Thread and Executor, within the documented rule or not,
\* every thread's frames stay in order: none of the panics on frames that
\* Thread and Executor::step contain can be reached.
THEOREM MisuseKeepsFrames == MisuseSpec => [](TypeOK /\ FramesWellFormed)
<1>1. Inv /\ [MisuseNext]_vars => Inv'
  BY LoopStep, HostStepStep, ExecutorCallStep, ThreadCallStep, UnchangedInv DEF MisuseNext
<1> QED
  BY <1>1, InitInv, PTL DEF MisuseSpec, Inv

\* The protocol's definitions mean the same through either instance.
LEMMA SameProtocol ==
  /\ C!Init <=> CP!Init
  /\ C!Next <=> CP!Next
  /\ C!vars = CP!vars
<1>1. C!vars = CP!vars
  BY DEF C!vars, CP!vars
<1>2. C!Init <=> CP!Init
  BY DEF C!Init, CP!Init
<1>3. C!Next <=> CP!Next
  BY DEF C!Next, CP!Next, C!Complete, CP!Complete, C!Resume, CP!Resume, C!HandOver,
     CP!HandOver, C!Deliver, CP!Deliver, C!TakeResult, CP!TakeResult, C!HostResume,
     CP!HostResume, C!Restart, CP!Restart, C!Switch, CP!Switch, C!Outside, CP!Outside,
     C!top, CP!top, C!Top, CP!Top, C!Pop, CP!Pop, C!Taken, CP!Taken, C!Modes, CP!Modes
<1> QED
  BY <1>1, <1>2, <1>3

\* What the chain invariant says of the threads' own modes.
LEMMA ChainModes ==
  ASSUME Inv, CP!ChainInv
  PROVE  WaitChain
<1> DEFINE n == Len(thread_stack)
<1>0. /\ n \in Nat /\ n > 0 /\ top_thread = thread_stack[n] /\ top_thread \in Threads
      /\ \A i \in 1..n : thread_stack[i] \in Threads
      /\ CP!top = top_thread
  BY TopThread DEF Inv, CP!top, CP!Top, top_thread, Top
<1>1. \A t \in Threads : amode[t] = AbsMode(frames[t])
  BY DEF amode
<1>2. \A fs : /\ AbsMode(fs) = "Waiting" <=> Mode(fs) = "Waiting"
              /\ AbsMode(fs) \in {"Normal", "Returned", "Yielded"} =>
                   Mode(fs) \in {"Normal", "Result"}
  <2>1. \A fs : Mode(fs) \in ThreadModes
    BY DEF Mode, ThreadModes
  <2> QED
    BY <2>1 DEF AbsMode, ThreadModes
<1>3. \A i, j \in 1..n : thread_stack[i] = thread_stack[j] => i = j
  BY DEF CP!ChainInv, CP!ChainInjective
<1>4. \A i \in 1..(n - 1) : Mode(frames[thread_stack[i]]) = "Waiting"
  <2> SUFFICES ASSUME NEW i \in 1..(n - 1) PROVE Mode(frames[thread_stack[i]]) = "Waiting"
    OBVIOUS
  <2>1. thread_stack[i] \in Threads
    BY <1>0
  <2>2. [t \in Threads |-> AbsMode(frames[t])][thread_stack[i]] = "Waiting"
    BY DEF CP!ChainInv, CP!BelowWait
  <2> QED
    BY <1>2, <2>1, <2>2
<1>5. /\ Mode(top_state) # "Waiting"
      /\ n > 1 => Mode(top_state) \in {"Normal", "Result"}
  BY <1>0, <1>1, <1>2 DEF CP!ChainInv, CP!LastActive, top_state
<1> QED
  BY <1>3, <1>4, <1>5 DEF WaitChain

\* With the chain in order the error channel of step is closed.
LEMMA NotBad == ASSUME Inv, WaitChain PROVE ~StepBadThreadMode
<1>1. Len(thread_stack) \in Nat
  BY TopThread DEF Inv
<1> QED
  BY <1>1 DEF WaitChain, StepBadThreadMode

\* Every step within the documented use keeps both invariants and is a step of
\* the coroutine protocol.
LEMMA NextStep ==
  ASSUME Inv, CP!ChainInv, [Next]_vars
  PROVE  Inv' /\ ProtocolStep /\ CP!ChainInv'
<1>1. ~StepBadThreadMode
  BY ChainModes, NotBad
<1>3. ASSUME NEW t \in Threads, ~InStack(t), ThreadCall(t) PROVE Inv' /\ ProtocolStep
  <2>1. PICK m \in C!Modes : amode' = [amode EXCEPT ![t] = m]
    BY <1>3, ThreadCallStep
  <2>2. C!Outside(t, m)
    BY <1>3, <2>1, ThreadCallStep DEF C!Outside, InStack, amode
  <2> QED
    BY <1>3, <2>2, ThreadCallStep DEF ProtocolStep, C!Next
<1>4. Inv' /\ ProtocolStep
  <2>1. CASE HostStep
    BY <2>1, HostStepStep
  <2>2. CASE ExecutorCall
    BY <2>2, ExecutorCallStep
  <2>3. CASE UNCHANGED vars
    BY <2>3, UnchangedInv
  <2>4. CASE StepLoop
    BY <1>1, <2>4, LoopStep
  <2> QED
    BY <1>3, <2>1, <2>2, <2>3, <2>4 DEF Next
<1>5. [CP!Next]_(CP!vars)
  BY <1>4, SameProtocol DEF ProtocolStep, amode, CP!vars
<1>6. CP!ChainInv'
  BY <1>5, CP!NextChain, SameProtocol
<1> QED
  BY <1>4, <1>6

\* The chain of threads is in order from the start.
LEMMA InitChain == Init => C!Init /\ CP!ChainInv
<1> SUFFICES ASSUME Init PROVE C!Init
  BY CP!InitChain, SameProtocol
<1>1. [t \in Threads |-> AbsMode(frames[t])] = [t \in Threads |-> "Stopped"]
  BY EmptyFrames DEF Init
<1> QED
  BY <1>1 DEF Init, C!Init

\* Everything the proofs below rest on.
LEMMA SpecInv == Spec => [](Inv /\ CP!ChainInv)
<1>1. Inv /\ CP!ChainInv /\ [Next]_vars => Inv' /\ CP!ChainInv'
  BY NextStep
<1> QED
  BY <1>1, InitInv, InitChain, PTL DEF Spec

\* Under documented use every thread below the top waits for the one above it,
\* which runs or has results for it.
THEOREM ChainWaits == Spec => []WaitChain
  BY SpecInv, ChainModes, PTL

\* Type correctness and the order of frames, under documented use.
THEOREM FramesStayWellFormed == Spec => [](TypeOK /\ FramesWellFormed)
  BY SpecInv, PTL DEF Inv

\* The types alone: in particular the executor's stack is never empty, which
\* step, mode and main_thread rely on when they index it.
THEOREM ExecutorTyped == Spec => []TypeOK
  BY FramesStayWellFormed, PTL

\* Executor::step never returns BadThreadMode under documented use: the thread
\* it finds on top, or below a finished one, is always in a mode it expects.
THEOREM ErrorChannelSilent == Spec => []NoBadThreadMode
<1>1. Init => NoBadThreadMode
  BY DEF Init, NoBadThreadMode
<1>2. Inv /\ CP!ChainInv /\ NoBadThreadMode /\ [Next]_vars => NoBadThreadMode'
  <2> SUFFICES ASSUME Inv, CP!ChainInv, NoBadThreadMode, [Next]_vars PROVE NoBadThreadMode'
    OBVIOUS
  <2>0. ~StepBadThreadMode /\ TypeOK
    BY ChainModes, NotBad DEF Inv
  <2>1. ASSUME NEW cost \in Nat, NEW b \in BOOLEAN, EndIteration(cost, b)
        PROVE  ret' \in {ret, "false"}
    BY <2>0, <2>1, EndsTyped
  <2>2. CASE StepDone
    BY <2>2 DEF StepDone, Return, NoBadThreadMode
  <2>3. CASE Deliver \/ \E t \in Threads : CreateCoroutine(t)
    BY <2>3 DEF Deliver, CreateCoroutine, NoBadThreadMode
  <2>4. CASE RunCallback \/ RunSequence \/ RunLua \/ UnwindError
    <3>1. \E cost \in Nat, b \in BOOLEAN : EndIteration(cost, b)
      BY <2>4, FuelAssumption DEF RunCallback, RunSequence, RunLua, UnwindError
    <3> QED
      BY <2>1, <3>1 DEF NoBadThreadMode
  <2>5. CASE HostStep
    BY <2>5 DEF HostStep, NoBadThreadMode
  <2>6. ASSUME NEW t, NEW fs, HostSets(t, fs) PROVE NoBadThreadMode'
    BY <2>6 DEF HostSets, NoBadThreadMode
  <2>7. CASE ExecutorCall
    BY <2>6, <2>7 DEF ExecutorCall, ExecTakeResult, ExecResume, ExecResumeErr, ExecStop,
                      ExecRestart, ExecReset
  <2>8. CASE \E t \in Threads : ~InStack(t) /\ ThreadCall(t)
    BY <2>6, <2>8 DEF ThreadCall
  <2>9. CASE UNCHANGED vars
    BY <2>9 DEF vars, NoBadThreadMode
  <2> QED
    BY <2>0, <2>2, <2>3, <2>4, <2>5, <2>7, <2>8, <2>9 DEF Next, StepLoop
<1> QED
  BY <1>1, <1>2, SpecInv, PTL DEF Spec

\* The frame machine implements the coroutine protocol: every iteration of step
\* and every call of the host is a move of the protocol or invisible to it.
THEOREM Refinement == Spec => ImplementsCoroutines
<1>1. Init => C!Init
  BY InitChain
<1>2. Inv /\ CP!ChainInv /\ [Next]_vars => [C!Next]_(C!vars)
  BY NextStep DEF ProtocolStep, amode, C!vars
<1> QED
  BY <1>1, <1>2, SpecInv, PTL DEF Spec, C!Spec, ImplementsCoroutines

-----------------------------------------------------------------------------
(* What a step may do to frames below the top and to abandoned threads. *)

\* No Sequence frame below the top of fs is missing from gs.
KeepsSequences(fs, gs) ==
  \A i \in 1..(Len(fs) - 1) :
    fs[i].kind = "Sequence" => i <= Len(gs) /\ gs[i].kind = "Sequence"

\* gs has the frames of fs, perhaps with other flags, and maybe more above.
Above(fs, gs) ==
  /\ gs \in Seq(Frame) /\ Len(fs) <= Len(gs)
  /\ \A i \in 1..Len(fs) : gs[i].kind = fs[i].kind

\* Frames that are kept and pushed on stay; so do those that return_to wakes.
LEMMA AbovePush ==
  ASSUME NEW fs \in Seq(Frame)
  PROVE  /\ Above(fs, fs)
         /\ \A gs, e : Above(fs, gs) /\ e \in Frame => Above(fs, Append(gs, e))
<1>1. ASSUME NEW gs, NEW e \in Frame, Above(fs, gs) PROVE Above(fs, Append(gs, e))
  <2>1. /\ gs \in Seq(Frame) /\ Len(fs) \in Nat /\ Len(gs) \in Nat /\ Len(fs) <= Len(gs)
        /\ \A i \in 1..Len(fs) : gs[i].kind = fs[i].kind
    BY <1>1 DEF Above
  <2>2. /\ Append(gs, e) \in Seq(Frame) /\ Len(Append(gs, e)) = Len(gs) + 1
        /\ \A i \in 1..Len(gs) : Append(gs, e)[i] = gs[i]
    BY <2>1, PushElements
  <2>3. \A i \in 1..Len(fs) : i \in 1..Len(gs)
    BY <2>1
  <2>4. \A i \in 1..Len(fs) : Append(gs, e)[i].kind = fs[i].kind
    BY <2>1, <2>2, <2>3
  <2>5. Len(fs) <= Len(Append(gs, e))
    BY <2>1, <2>2
  <2> QED
    BY <2>2, <2>4, <2>5 DEF Above
<1>2. Above(fs, fs)
  BY DEF Above
<1> QED
  BY <1>1, <1>2

\* return_to takes the flag of a Lua frame and nothing else.
LEMMA AboveReturn ==
  ASSUME NEW fs \in Seq(Frame)
  PROVE  Above(fs, ReturnTo(fs))
<1>0. F("Result") \in Frame /\ F("Lua") \in Frame /\ F("Panic") \in Frame /\ F("Lua").kind = "Lua"
  BY DEF F, Frame, FrameKinds
<1>1. CASE fs = << >>
  <2>1. ReturnTo(fs) = <<F("Result")>>
    BY <1>1 DEF ReturnTo
  <2>2. <<F("Result")>> \in Seq(Frame) /\ Len(<<F("Result")>>) = 1 /\ Len(fs) = 0
    BY <1>0, <1>1
  <2>3. \A i \in 1..Len(fs) : FALSE
    BY <2>2
  <2>4. Len(fs) <= Len(<<F("Result")>>)
    BY <2>2
  <2> QED
    BY <2>1, <2>2, <2>3, <2>4, Zenon DEF Above
<1>2. CASE fs # << >> /\ Top(fs).kind # "Sequence" /\ Top(fs).kind = "Lua" /\ Top(fs).flag
  <2> DEFINE gs == Append(Pop(fs), F("Lua"))
  <2>1. ReturnTo(fs) = gs
    BY <1>2 DEF ReturnTo
  <2>2. /\ Pop(fs) \in Seq(Frame) /\ Len(Pop(fs)) = Len(fs) - 1
        /\ \A i \in 1..(Len(fs) - 1) : Pop(fs)[i] = fs[i]
    BY <1>2, PopElements
  <2>3. /\ gs \in Seq(Frame) /\ Len(gs) = Len(fs) - 1 + 1
        /\ \A i \in 1..(Len(fs) - 1) : gs[i] = fs[i]
        /\ gs[Len(fs) - 1 + 1] = F("Lua")
    BY <1>0, <2>2, PushElements
  <2>4. Len(fs) \in Nat /\ Len(fs) > 0 /\ fs[Len(fs)].kind = "Lua"
    BY <1>2, NonEmpty DEF Top
  <2> HIDE DEF gs
  <2>5. Len(gs) = Len(fs) /\ gs[Len(fs)].kind = "Lua"
    BY <1>0, <2>3, <2>4
  <2>6. \A i \in 1..Len(fs) : i \in 1..(Len(fs) - 1) \/ i = Len(fs)
    BY <2>4
  <2>7. \A i \in 1..Len(fs) : gs[i].kind = fs[i].kind
    BY <2>3, <2>4, <2>5, <2>6
  <2> QED
    BY <2>1, <2>3, <2>4, <2>5, <2>7 DEF Above
<1>3. CASE fs # << >> /\ Top(fs).kind = "Sequence"
  <2>1. ReturnTo(fs) = fs
    BY <1>3 DEF ReturnTo
  <2> QED
    BY <2>1, AbovePush
<1>4. CASE fs # << >> /\ Top(fs).kind # "Sequence" /\ ~(Top(fs).kind = "Lua" /\ Top(fs).flag)
  <2>1. ReturnTo(fs) = Append(fs, F("Panic"))
    BY <1>4 DEF ReturnTo
  <2> QED
    BY <1>0, <2>1, AbovePush
<1> QED
  BY <1>1, <1>2, <1>3, <1>4

\* A thread that only changes its top frame and what is above keeps its
\* sequences.
LEMMA AboveKeeps ==
  ASSUME NEW fs \in Seq(Frame), fs # << >>, NEW gs, Above(Pop(fs), gs)
  PROVE  KeepsSequences(fs, gs)
<1>1. /\ Len(Pop(fs)) = Len(fs) - 1 /\ Len(fs) \in Nat
      /\ \A i \in 1..(Len(fs) - 1) : Pop(fs)[i] = fs[i]
  BY PopElements, NonEmpty
<1>2. Len(fs) - 1 <= Len(gs) /\ Len(gs) \in Nat /\ \A i \in 1..(Len(fs) - 1) : gs[i].kind = fs[i].kind
  BY <1>1 DEF Above
<1> QED
  BY <1>1, <1>2 DEF KeepsSequences

\* Unwinding pops a Lua frame, never a sequence.
LEMMA UnwoundKeeps ==
  ASSUME NEW fs, WellFormed(fs), Mode(fs) = "Normal", Top(fs).kind = "Error"
  PROVE  KeepsSequences(fs, Unwound(fs))
<1> DEFINE above == Top(Pop(fs))
           rest == Pop(Pop(fs))
<1>0. /\ fs \in Seq(Frame) /\ fs # << >> /\ Len(fs) \in Nat /\ Len(fs) > 1
      /\ Pop(fs) \in Seq(Frame) /\ Pop(fs) # << >> /\ Len(Pop(fs)) = Len(fs) - 1
      /\ \A i \in 1..(Len(fs) - 1) : Pop(fs)[i] = fs[i]
  <2>1. fs \in Seq(Frame) /\ fs # << >>
    BY DEF WellFormed, Mode
  <2>2. Len(fs) # 1
    BY <2>1 DEF Mode
  <2>3. Len(fs) \in Nat /\ Len(fs) > 0
    BY <2>1, NonEmpty
  <2>4. \A n \in Nat : n > 0 /\ n # 1 => n > 1
    OBVIOUS
  <2>5. Len(fs) > 1
    BY <2>2, <2>3, <2>4, Zenon
  <2> QED
    BY <2>1, <2>3, <2>5, PopElements
<1>1. /\ rest \in Seq(Frame) /\ Len(rest) = Len(fs) - 1 - 1
      /\ \A i \in 1..(Len(fs) - 1 - 1) : rest[i] = Pop(fs)[i]
  BY <1>0, PopElements
<1>2. above = fs[Len(fs) - 1]
  BY <1>0 DEF Top
<1>3. F("Error") \in Frame /\ SequencePending \in Frame /\ F("Panic") \in Frame
  BY DEF F, SequencePending, Frame, FrameKinds
<1> HIDE DEF rest, above
<1>4. ASSUME NEW e \in Frame, above.kind = "Sequence" => e.kind = "Sequence"
      PROVE  KeepsSequences(fs, Append(rest, e))
  <2>1. /\ Len(Append(rest, e)) = Len(fs) - 1 - 1 + 1
        /\ \A i \in 1..(Len(fs) - 1 - 1) : Append(rest, e)[i] = rest[i]
        /\ Append(rest, e)[Len(fs) - 1 - 1 + 1] = e
    BY <1>1, <1>4, PushElements
  <2>2. Len(Append(rest, e)) = Len(fs) - 1 /\ Append(rest, e)[Len(fs) - 1] = e
    BY <1>0, <2>1
  <2>3. \A i \in 1..(Len(fs) - 1) : i \in 1..(Len(fs) - 1 - 1) \/ i = Len(fs) - 1
    BY <1>0
  <2> QED
    BY <1>0, <1>1, <1>2, <1>4, <2>1, <2>2, <2>3 DEF KeepsSequences
<1>5. CASE above.kind = "Lua"
  <2>1. Unwound(fs) = Append(rest, F("Error"))
    BY <1>5 DEF Unwound, rest, above
  <2> QED
    BY <1>3, <1>4, <1>5, <2>1
<1>6. CASE above.kind = "Sequence" /\ ~above.flag
  <2>1. Unwound(fs) = Append(rest, SequencePending)
    BY <1>6 DEF Unwound, rest, above
  <2>2. SequencePending.kind = "Sequence"
    BY DEF SequencePending
  <2> QED
    BY <1>3, <1>4, <2>1, <2>2
<1>7. CASE above.kind # "Lua" /\ ~(above.kind = "Sequence" /\ ~above.flag)
  <2>1. Unwound(fs) = Append(fs, F("Panic"))
    BY <1>7 DEF Unwound, rest, above
  <2>2. Above(fs, Append(fs, F("Panic")))
    BY <1>0, <1>3, AbovePush
  <2> QED
    BY <1>0, <2>1, <2>2 DEF Above, KeepsSequences
<1> QED
  BY <1>5, <1>6, <1>7
\* A step that sets the frames of the running thread to something that keeps its
\* sequences.
LEMMA SetTopKeeps ==
  ASSUME TypeOK, NEW gs, KeepsSequences(top_state, gs), SetTop(gs)
  PROVE  \A t \in Threads : KeepsSequences(frames[t], frames'[t])
<1>1. \A t \in Threads : KeepsSequences(frames[t], frames[t])
  <2>1. \A t \in Threads : frames[t] \in Seq(Frame) /\ Len(frames[t]) \in Nat
    BY DEF TypeOK
  <2> QED
    BY <2>1 DEF KeepsSequences
<1>2. \A t \in Threads : frames'[t] = IF t = top_thread THEN gs ELSE frames[t]
  BY DEF SetTop, TypeOK
<1> QED
  BY <1>1, <1>2 DEF top_state

\* The running thread gives way to a suspended one.
LEMMA ResumeKeeps ==
  ASSUME Inv, NEW gs, KeepsSequences(top_state, gs),
         NEW u \in Threads, NEW fn \in FunctionKinds, CanResume(u),
         frames' = [frames EXCEPT ![top_thread] = gs, ![u] = Resumed(frames[u], fn)]
  PROVE  \A t \in Threads : KeepsSequences(frames[t], frames'[t])
<1>1. \A t \in Threads : frames[t] \in Seq(Frame) /\ KeepsSequences(frames[t], frames[t])
  <2>1. \A t \in Threads : frames[t] \in Seq(Frame) /\ Len(frames[t]) \in Nat
    BY DEF Inv, TypeOK
  <2> QED
    BY <2>1 DEF KeepsSequences
<1>2. WellFormed(frames[u]) /\ frames[u] # << >> /\ u # top_thread
  BY InvFrames DEF Inv, CanResume, Mode
<1>3. KeepsSequences(frames[u], Resumed(frames[u], fn))
  <2>0. Top(frames[u]).kind \in {"Start", "Yielded"} /\ Pop(frames[u]) \in Seq(Frame)
    BY <1>1, <1>2, ModeByTop, PopElements DEF CanResume
  <2>1. Top(frames[u]).kind = "Start" => Len(frames[u]) = 1
    BY <1>2 DEF WellFormed, FrameDiscipline, TopFrameProper
  <2>2. CASE Top(frames[u]).kind = "Start"
    <3>1. Resumed(frames[u], fn) = Append(Pop(frames[u]), F(fn))
      BY <2>1, <2>2 DEF Resumed, PushCall
    <3>2. F(fn) \in Frame
      BY FrameTypes DEF FrameKinds, FunctionKinds
    <3> QED
      BY <1>1, <1>2, <2>0, <3>1, <3>2, AbovePush, AboveKeeps
  <2>3. CASE Top(frames[u]).kind = "Yielded"
    <3>1. Resumed(frames[u], fn) = ReturnTo(Pop(frames[u]))
      BY <2>3 DEF Resumed
    <3> QED
      BY <1>1, <1>2, <2>0, <3>1, AboveReturn, AboveKeeps
  <2> QED
    BY <2>0, <2>2, <2>3
<1>4. \A t \in Threads : frames'[t] = IF t = u THEN Resumed(frames[u], fn)
                                      ELSE IF t = top_thread THEN gs ELSE frames[t]
  BY DEF Inv, TypeOK
<1> QED
  BY <1>1, <1>3, <1>4 DEF top_state

\* Whatever a callback or a sequence answers, the frames below it stay.
LEMMA AnswerKeeps ==
  ASSUME Inv, top_state # << >>, Answer(Pop(top_state))
  PROVE  \A t \in Threads : KeepsSequences(frames[t], frames'[t])
<1> DEFINE rest == Pop(top_state)
           Goal == \A t \in Threads : KeepsSequences(frames[t], frames'[t])
<1>0. TypeOK /\ top_state \in Seq(Frame) /\ rest \in Seq(Frame)
  BY TopThread, PopElements DEF Inv
<1>1. \A k \in FrameKinds : F(k) \in Frame
  BY FrameTypes
<1>2. /\ FunctionKinds \subseteq FrameKinds
      /\ {"Sequence", "Error", "Yielded", "Result", "WaitThread"} \subseteq FrameKinds
  BY DEF FunctionKinds, FrameKinds
<1>3. ASSUME NEW gs, Above(rest, gs) PROVE KeepsSequences(top_state, gs)
  BY <1>0, <1>3, AboveKeeps
<1>4. ASSUME NEW gs, Above(rest, gs), NEW k \in FrameKinds PROVE Above(rest, Append(gs, F(k)))
  BY <1>0, <1>1, <1>4, AbovePush
<1>5. ASSUME NEW gs, Above(rest, gs), SetTop(gs) PROVE Goal
  BY <1>0, <1>3, <1>5, SetTopKeeps
<1>6. ASSUME NEW gs, Above(rest, gs), NEW u \in Threads, NEW fn \in FunctionKinds, CanResume(u),
             frames' = [frames EXCEPT ![top_thread] = gs, ![u] = Resumed(frames[u], fn)]
      PROVE  Goal
  BY <1>3, <1>6, ResumeKeeps
<1>7. Above(rest, rest) /\ Above(rest, ReturnTo(rest))
  BY <1>0, AbovePush, AboveReturn
<1> HIDE DEF rest, Goal
<1>8. ASSUME SetTop(ReturnTo(rest)) \/ SetTop(Append(rest, F("Sequence"))) \/ SetTop(Append(rest, F("Error")))
      PROVE  Goal
  BY <1>2, <1>4, <1>5, <1>7, <1>8
<1>9. ASSUME NEW kept \in {rest, Append(rest, F("Sequence"))},
             \/ \E fn \in FunctionKinds : SetTop(PushCall(kept, fn))
             \/ Yield(kept)
             \/ \E t \in Threads, fn \in FunctionKinds : YieldTo(kept, t, fn)
             \/ \E t \in Threads, fn \in FunctionKinds : Resume(kept, t, fn)
      PROVE  Goal
  <2>1. Above(rest, kept)
    BY <1>2, <1>4, <1>7
  <2>2. \A k \in FrameKinds : Above(rest, Append(kept, F(k)))
    BY <1>4, <2>1
  <2>3. ASSUME NEW fn \in FunctionKinds, SetTop(PushCall(kept, fn)) PROVE Goal
    BY <1>2, <1>5, <2>2, <2>3 DEF PushCall
  <2>4. ASSUME Yield(kept) PROVE Goal
    <3>1. Above(rest, Append(Append(kept, F("Yielded")), F("Result")))
      BY <1>2, <1>4, <2>2
    <3> QED
      BY <1>5, <2>4, <3>1 DEF Yield
  <2>5. ASSUME NEW t \in Threads, NEW fn \in FunctionKinds, YieldTo(kept, t, fn) PROVE Goal
    <3>1. CASE CanResume(t)
      BY <1>2, <1>6, <2>2, <2>5, <3>1 DEF YieldTo
    <3>2. CASE ~CanResume(t)
      BY <1>2, <1>5, <2>2, <2>5, <3>2 DEF YieldTo
    <3> QED
      BY <3>1, <3>2
  <2>6. ASSUME NEW t \in Threads, NEW fn \in FunctionKinds, Resume(kept, t, fn) PROVE Goal
    <3>1. CASE CanResume(t)
      <4>1. Above(rest, IF kept = << >> THEN kept ELSE Append(kept, F("WaitThread")))
        BY <1>2, <2>1, <2>2
      <4> QED
        BY <1>6, <2>6, <3>1, <4>1 DEF Resume
    <3>2. CASE ~CanResume(t)
      BY <1>2, <1>5, <2>2, <2>6, <3>2 DEF Resume
    <3> QED
      BY <3>1, <3>2
  <2> QED
    BY <1>9, <2>3, <2>4, <2>5, <2>6
<1> QED
  BY <1>8, <1>9 DEF Answer, rest, Goal

\* Results are handed down: the one thread loses its results, the other its
\* WaitThread frame.
LEMMA DeliverKeeps ==
  ASSUME Inv, Deliver
  PROVE  \A t \in Threads : KeepsSequences(frames[t], frames'[t])
<1> DEFINE below == thread_stack[Len(thread_stack) - 1]
           woken == Pop(frames[below])
           bs == IF Top(top_state).kind = "Result" THEN ReturnTo(woken)
                 ELSE Append(woken, F("Error"))
<1>0. /\ below \in Threads /\ top_thread \in Threads
      /\ Mode(top_state) = "Result" /\ Mode(frames[below]) = "Waiting"
      /\ \A t \in Threads : frames[t] \in Seq(Frame) /\ Len(frames[t]) \in Nat
  BY TopThread DEF Deliver, Inv, TypeOK
<1>1. \A t \in Threads : KeepsSequences(frames[t], frames[t])
  BY <1>0 DEF KeepsSequences
<1>2. frames' = [frames EXCEPT ![top_thread] = ResultTaken(top_state), ![below] = bs]
  BY DEF Deliver
<1>3. KeepsSequences(frames[below], bs)
  <2>1. frames[below] # << >> /\ woken \in Seq(Frame)
    BY <1>0, PopElements DEF Mode
  <2>2. Above(woken, ReturnTo(woken)) /\ Above(woken, Append(woken, F("Error")))
    BY <2>1, AbovePush, AboveReturn, FrameTypes DEF FrameKinds
  <2>3. Above(woken, bs)
    BY <2>2
  <2> HIDE DEF bs
  <2> QED
    BY <1>0, <2>1, <2>3, AboveKeeps
<1>4. KeepsSequences(top_state, ResultTaken(top_state))
  <2>1. top_state # << >> /\ top_state \in Seq(Frame) /\ F("Panic") \in Frame
    BY <1>0, FrameTypes DEF Mode, top_state, FrameKinds
  <2>2. CASE Top(top_state).kind = "Error" /\ Len(top_state) > 1
    <3>1. WellFormed(top_state)
      BY <1>0, InvFrames DEF Inv, top_state
    <3>2. Len(top_state) # 1
      <4>1. ~(1 > 1)
        OBVIOUS
      <4> QED
        BY <2>2, <4>1, Zenon
    <3> QED
      BY <1>0, <2>1, <2>2, <3>1, <3>2, ModeByTop
  <2>3. CASE ~(Top(top_state).kind = "Error" /\ Len(top_state) > 1)
    <3>1. ResultTaken(top_state) = Pop(top_state) /\ Pop(top_state) \in Seq(Frame)
      BY <2>1, <2>3, PopElements DEF ResultTaken
    <3> QED
      BY <2>1, <3>1, AbovePush, AboveKeeps
  <2> QED
    BY <2>2, <2>3
<1> HIDE DEF below, bs
<1>5. \A t \in Threads : frames'[t] = IF t = below THEN bs
                                      ELSE IF t = top_thread THEN ResultTaken(top_state) ELSE frames[t]
  BY <1>2 DEF Inv, TypeOK
<1> QED
  BY <1>1, <1>3, <1>4, <1>5 DEF top_state

\* Every iteration of the step loop.
LEMMA LoopKeeps ==
  ASSUME Inv, StepLoop
  PROVE  \A t \in Threads : KeepsSequences(frames[t], frames'[t])
<1> DEFINE Goal == \A t \in Threads : KeepsSequences(frames[t], frames'[t])
<1>0. /\ TypeOK /\ top_thread \in Threads /\ WellFormed(top_state) /\ top_state \in Seq(Frame)
      /\ \A t \in Threads : frames[t] \in Seq(Frame) /\ Len(frames[t]) \in Nat
  BY TopThread, InvFrames DEF Inv, TypeOK, top_state
<1>1. \A t \in Threads : KeepsSequences(frames[t], frames[t])
  BY <1>0 DEF KeepsSequences
<1>2. CASE StepDone \/ StepBadThreadMode
  BY <1>1, <1>2 DEF StepDone, StepBadThreadMode
<1>3. CASE Deliver
  BY <1>3, DeliverKeeps
<1>n. ASSUME Running("Callback") \/ Running("Sequence") \/ Running("Lua") \/ Running("Error")
      PROVE  Mode(top_state) = "Normal" /\ top_state # << >>
  BY <1>n DEF Running, Mode
<1>4. CASE RunCallback \/ RunSequence
  BY <1>4, <1>n, AnswerKeeps DEF RunCallback, RunSequence
<1>5. CASE RunLua
  <2>0. top_state # << >> /\ Pop(top_state) \in Seq(Frame)
    BY <1>0, <1>5, <1>n, PopElements DEF RunLua
  <2>1. ASSUME NEW gs, Above(Pop(top_state), gs), SetTop(gs) PROVE Goal
    BY <1>0, <2>0, <2>1, AboveKeeps, SetTopKeeps
  <2>2. ASSUME LuaContinue PROVE Goal
    <3>1. KeepsSequences(top_state, top_state)
      BY <1>0, <1>1 DEF top_state
    <3> QED
      BY <1>0, <2>2, <3>1, SetTopKeeps DEF LuaContinue
  <2>3. /\ LuaCalling \in Frame /\ F("Error") \in Frame
        /\ \A fn \in FunctionKinds : F(fn) \in Frame
    BY FrameTypes DEF FrameKinds, FunctionKinds
  <2>4. ASSUME NEW fn \in FunctionKinds, LuaCall(fn) \/ LuaTailCall(fn) PROVE Goal
    <3>1. /\ Above(Pop(top_state), Append(Pop(top_state), F(fn)))
          /\ Above(Pop(top_state), Append(Append(Pop(top_state), LuaCalling), F(fn)))
      BY <2>0, <2>3, AbovePush
    <3> QED
      BY <2>1, <2>4, <3>1 DEF LuaCall, LuaTailCall, PushCall
  <2>5. ASSUME LuaReturn PROVE Goal
    BY <2>0, <2>1, <2>5, AboveReturn DEF LuaReturn
  <2>6. ASSUME LuaError PROVE Goal
    <3>1. KeepsSequences(top_state, Append(top_state, F("Error")))
      <4>1. Above(top_state, Append(top_state, F("Error")))
        BY <1>0, <2>3, AbovePush
      <4>2. Len(top_state) \in Nat
        BY <1>0 DEF top_state
      <4> QED
        BY <4>1, <4>2 DEF Above, KeepsSequences
    <3> QED
      BY <1>0, <2>6, <3>1, SetTopKeeps DEF LuaError
  <2> QED
    BY <1>5, <2>2, <2>4, <2>5, <2>6 DEF RunLua
<1>6. CASE UnwindError
  <2>1. Mode(top_state) = "Normal" /\ Top(top_state).kind = "Error" /\ SetTop(Unwound(top_state))
    BY <1>6 DEF UnwindError, Running
  <2>2. KeepsSequences(top_state, Unwound(top_state))
    BY <1>0, <2>1, UnwoundKeeps
  <2> QED
    BY <1>0, <2>1, <2>2, SetTopKeeps
<1>7. ASSUME NEW u \in Threads, CreateCoroutine(u) PROVE Goal
  <2>1. \A t \in Threads : t # u => frames'[t] = frames[t]
    BY <1>0, <1>7 DEF CreateCoroutine, TypeOK
  <2>2. Len(frames[u]) = 0
    BY <1>7 DEF CreateCoroutine
  <2> QED
    BY <1>1, <2>1, <2>2 DEF KeepsSequences
<1> QED
  BY <1>2, <1>3, <1>4, <1>5, <1>6, <1>7 DEF StepLoop

\* Frames pushed by pcall, by metamethods and by async callbacks are left only
\* from the top, however a thread that is stepped errs, returns or yields: no
\* continuation is skipped, under documented use.
THEOREM ContinuationsRun == Spec => SequencesNotSkipped
<1>1. Inv /\ [Next]_vars =>
      [stepping =>
         \A t \in Threads : \A i \in 1..(Len(frames[t]) - 1) :
           frames[t][i].kind = "Sequence" =>
             i <= Len(frames'[t]) /\ frames'[t][i].kind = "Sequence"]_vars
  <2> SUFFICES ASSUME Inv, Next, stepping
               PROVE  \A t \in Threads : KeepsSequences(frames[t], frames'[t])
    BY DEF KeepsSequences
  <2>1. StepLoop
    BY DEF Next, HostStep, ExecutorCall, ExecTakeResult, ExecResume, ExecResumeErr, ExecStop,
           ExecRestart, ExecReset, ThreadCall, HostSets
  <2> QED
    BY <2>1, LoopKeeps
<1> QED
  BY <1>1, SpecInv, PTL DEF Spec, SequencesNotSkipped
\* What one step may do to a thread that waits outside of the stack.
Untouched(t) ==
  Mode(frames[t]) = "Waiting" /\ ~InStack(t) /\ frames'[t] # frames[t] =>
    ~stepping /\ frames'[t] = << >>

\* Every step, within the documented use or not.
LEMMA NextUntouched ==
  ASSUME TypeOK, [MisuseNext]_vars, NEW t \in Threads
  PROVE  Untouched(t)
<1> SUFFICES ASSUME Mode(frames[t]) = "Waiting", ~InStack(t), frames'[t] # frames[t]
             PROVE  ~stepping /\ frames'[t] = << >>
  BY DEF Untouched
<1>0. /\ top_thread \in Threads /\ main_thread \in Threads
      /\ Len(thread_stack) \in Nat /\ Len(thread_stack) > 0
      /\ top_thread = thread_stack[Len(thread_stack)] /\ main_thread = thread_stack[1]
  BY TopThread DEF main_thread
<1>1. t # top_thread /\ t # main_thread
  BY <1>0 DEF InStack
<1>2. frames[t] # << >>
  BY DEF Mode
<1>3. ASSUME NEW fs, frames' = [frames EXCEPT ![top_thread] = fs] PROVE FALSE
  BY <1>0, <1>1, <1>3 DEF TypeOK
<1>4. ASSUME NEW fs, NEW gs, NEW u \in Threads, CanResume(u),
             frames' = [frames EXCEPT ![top_thread] = fs, ![u] = gs]
      PROVE  FALSE
  <2>1. t # u
    BY <1>4 DEF CanResume
  <2> QED
    BY <1>0, <1>1, <1>4, <2>1 DEF TypeOK
<1>5. ASSUME NEW rest, Answer(rest) PROVE FALSE
  <2>1. ASSUME NEW kept, NEW u \in Threads, NEW fn, YieldTo(kept, u, fn) PROVE FALSE
    BY <1>3, <1>4, <2>1 DEF YieldTo, SetTop
  <2>2. ASSUME NEW kept, NEW u \in Threads, NEW fn, Resume(kept, u, fn) PROVE FALSE
    BY <1>3, <1>4, <2>2 DEF Resume, SetTop
  <2>3. ASSUME NEW fs, SetTop(fs) PROVE FALSE
    BY <1>3, <2>3 DEF SetTop
  <2> QED
    BY <1>5, <2>1, <2>2, <2>3 DEF Answer, Yield
<1>6. CASE StepLoop
  <2>1. CASE Deliver
    <3> DEFINE below == thread_stack[Len(thread_stack) - 1]
    <3>1. Len(thread_stack) > 1
      BY <2>1 DEF Deliver
    <3>2. Len(thread_stack) - 1 \in 1..Len(thread_stack)
      BY <1>0, <3>1
    <3>3. t # below
      BY <3>2 DEF InStack
    <3>4. \E fs, gs : frames' = [frames EXCEPT ![top_thread] = fs, ![below] = gs]
      BY <2>1 DEF Deliver
    <3> HIDE DEF below
    <3> QED
      BY <1>1, <3>3, <3>4 DEF TypeOK
  <2>2. CASE \E u \in Threads : CreateCoroutine(u)
    BY <1>2, <2>2 DEF CreateCoroutine, TypeOK
  <2> QED
    BY <1>3, <1>5, <1>6, <2>1, <2>2
       DEF StepLoop, StepDone, StepBadThreadMode, RunCallback, RunSequence, RunLua, UnwindError,
           SetTop, LuaContinue, LuaCall, LuaTailCall, LuaReturn, LuaError
<1>7. CASE ExecutorCall
  BY <1>0, <1>1, <1>7
     DEF ExecutorCall, ExecTakeResult, ExecResume, ExecResumeErr, ExecStop, ExecRestart, ExecReset,
         HostSets, TypeOK
<1>8. ASSUME NEW u \in Threads, ThreadCall(u) PROVE ~stepping /\ frames'[t] = << >>
  <2>1. ASSUME NEW fs, HostSets(u, fs) PROVE ~stepping /\ u = t /\ frames'[t] = fs
    BY <2>1 DEF HostSets, TypeOK
  <2> QED
    BY <1>8, <2>1 DEF ThreadCall, ResetFrames
<1>9. CASE HostStep \/ UNCHANGED vars
  BY <1>9 DEF HostStep, vars
<1> QED
  BY <1>6, <1>7, <1>8, <1>9 DEF MisuseNext

\* Executor::stop and reset, against any use of Thread and Executor from Rust: a
\* thread left waiting outside of the stack is never run, resumed or given
\* results; the host can only reset it.
THEOREM MisuseLeavesAbandoned == MisuseSpec => AbandonedUntouched
<1>1. TypeOK /\ [MisuseNext]_vars =>
      [\A t \in Threads :
         Mode(frames[t]) = "Waiting" /\ ~InStack(t) /\ frames'[t] # frames[t] =>
           ~stepping /\ frames'[t] = << >>]_vars
  BY NextUntouched DEF Untouched
<1> QED
  BY <1>1, MisuseKeepsFrames, PTL DEF MisuseSpec, AbandonedUntouched

\* The same under documented use.
THEOREM AbandonedStay == Spec => AbandonedUntouched
<1>1. TypeOK /\ [Next]_vars =>
      [\A t \in Threads :
         Mode(frames[t]) = "Waiting" /\ ~InStack(t) /\ frames'[t] # frames[t] =>
           ~stepping /\ frames'[t] = << >>]_vars
  <2>1. Next => MisuseNext
    BY DEF Next, MisuseNext
  <2> QED
    BY <2>1, NextUntouched DEF Untouched
<1> QED
  BY <1>1, FramesStayWellFormed, PTL DEF Spec, AbandonedUntouched
=============================================================================
