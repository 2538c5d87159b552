------------------------------- MODULE Thread -------------------------------
(***************************************************************************)
(* The call frames of one Thread (thread/thread.rs), as operators on the   *)
(* sequence ThreadState::frames, top frame last.  A frame keeps its kind   *)
(* and the one flag that control flow depends on:                          *)
(*   "Lua"       expected_return.is_some(): the frame has called another   *)
(*   "Sequence"  pending_error.is_some(): `error`, not `poll`, is next     *)
(* Stack contents, program counters and registers are data and left out.   *)
(* Where the code panics the model pushes a "Panic" frame.                 *)
(***************************************************************************)
EXTENDS Stacks

FrameKinds == {"Lua", "Callback", "Sequence", "Start", "Yielded", "WaitThread",
               "Result", "Error", "Panic"}

Frame == [kind : FrameKinds, flag : BOOLEAN]

F(k) == [kind |-> k, flag |-> FALSE]
LuaCalling == [kind |-> "Lua", flag |-> TRUE]
SequencePending == [kind |-> "Sequence", flag |-> TRUE]

\* Function::Closure or Function::Callback: the frame push_call pushes.
FunctionKinds == {"Lua", "Callback"}

ThreadModes == {"Stopped", "Result", "Normal", "Suspended", "Waiting", "Panic"}

\* ThreadState::mode.  "Running" is a borrow flag: see Executor.
Mode(fs) ==
  IF fs = << >> THEN "Stopped"
  ELSE CASE Top(fs).kind \in {"Lua", "Callback", "Sequence"} -> "Normal"
         [] Top(fs).kind \in {"Start", "Yielded"}            -> "Suspended"
         [] Top(fs).kind = "WaitThread"                      -> "Waiting"
         [] Top(fs).kind = "Result"                          -> "Result"
         [] Top(fs).kind = "Error" -> IF Len(fs) = 1 THEN "Result" ELSE "Normal"
         [] OTHER                                            -> "Panic"

\* The mode with Result split by what is below the results: values over a
\* Yielded frame were yielded, alone they were returned.
AbsMode(fs) ==
  IF Mode(fs) # "Result" THEN Mode(fs)
  ELSE IF Len(fs) > 1 THEN "Yielded" ELSE "Returned"

PushCall(fs, fn) == Append(fs, F(fn))

\* Mutant: expected_return is read, not taken.
ReturnToKeepsFlag(fs) ==
  IF fs = << >> THEN << F("Result") >>
  ELSE IF Top(fs).kind \in {"Sequence", "Lua"} THEN fs ELSE Append(fs, F("Panic"))

\* Return values to the frame that is now on top, or publish them.
ReturnTo(fs) ==
  IF fs = << >> THEN << F("Result") >>
  ELSE CASE Top(fs).kind = "Sequence" -> fs
         [] Top(fs).kind = "Lua" /\ Top(fs).flag -> Append(Pop(fs), F("Lua"))
         [] OTHER -> Append(fs, F("Panic"))

\* Thread::start and Thread::start_suspended, of a Stopped thread.
Started(fs, fn) == PushCall(fs, fn)
StartedSuspended(fs) == Append(fs, F("Start"))

\* Thread::take_result, of a thread in Result mode.  An error is only ever
\* taken from an otherwise empty thread.
ResultTaken(fs) ==
  IF Top(fs).kind = "Error" /\ Len(fs) > 1 THEN Append(fs, F("Panic")) ELSE Pop(fs)

\* Thread::resume and Thread::resume_err, of a Suspended thread.
Resumed(fs, fn) ==
  CASE Top(fs).kind = "Start" /\ Len(fs) = 1 -> PushCall(Pop(fs), fn)
    [] Top(fs).kind = "Yielded" -> ReturnTo(Pop(fs))
    [] OTHER -> Append(fs, F("Panic"))

ResumedErr(fs) == Append(Pop(fs), F("Error"))

\* Mutants: a Lua frame takes its caller with it; a sequence is given the error
\* and the Error frame is put back as well.
UnwoundPopsCaller(fs) ==
  LET above == Top(Pop(fs))  rest == Pop(Pop(fs)) IN
  IF above.kind = "Lua" THEN Append(Pop(rest), F("Error")) ELSE Append(rest, SequencePending)
UnwoundKeepsError(fs) ==
  LET above == Top(Pop(fs))  rest == Pop(Pop(fs)) IN
  IF above.kind = "Lua" THEN Append(rest, F("Error")) ELSE fs

\* One iteration of unwinding: an Error frame meets the frame above it.
Unwound(fs) ==
  LET above == Top(Pop(fs))  rest == Pop(Pop(fs)) IN
  CASE above.kind = "Lua" -> Append(rest, F("Error"))
    [] above.kind = "Sequence" /\ ~above.flag -> Append(rest, SequencePending)
    [] OTHER -> Append(fs, F("Panic"))

\* ThreadState::reset.
ResetFrames == << >>

-----------------------------------------------------------------------------
(* The comments on enum Frame, as one invariant of a frame sequence. *)

\* Only frames that can be returned to lie below the top, each in the state
\* return_to expects; a Yielded frame may lie below the results it published.
LowerFramesReturnable(fs) ==
  \A i \in 1..(Len(fs) - 1) :
    \/ fs[i] = F("Sequence")
    \/ fs[i] = LuaCalling
    \/ fs[i] = F("Lua") /\ i = Len(fs) - 1 /\ Top(fs).kind = "Error"
    \/ fs[i] = F("Yielded") /\ i = Len(fs) - 1 /\ Top(fs).kind = "Result"

\* The top frame itself: Start is alone, a waiting thread has someone to return
\* to, results are published over an empty thread or a yield, and a Lua frame
\* about to run awaits no return.
TopFrameProper(fs) ==
  fs # << >> =>
    /\ Top(fs) \in {F(k) : k \in FrameKinds \ {"Panic"}} \cup {SequencePending}
    /\ Top(fs).kind = "Start" => Len(fs) = 1
    /\ Top(fs).kind = "WaitThread" => Len(fs) > 1
    /\ Top(fs).kind = "Result" => Len(fs) = 1 \/ fs[Len(fs) - 1] = F("Yielded")

FrameDiscipline(fs) == LowerFramesReturnable(fs) /\ TopFrameProper(fs)
=============================================================================
