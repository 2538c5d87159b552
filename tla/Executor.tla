------------------------------ MODULE Executor ------------------------------
(***************************************************************************)
(* Executor::step and the host's calls around it (thread/executor.rs).     *)
(*                                                                         *)
(* `frames` holds every Thread's call frames, `thread_stack` the threads   *)
(* that resumed one another, `stepping` whether the host is inside         *)
(* Executor::step.  One action is one iteration of the step loop: it runs  *)
(* the top frame of the top thread and pays for it in fuel.  What a        *)
(* callback, a sequence or a slice of Lua code decides to do is a          *)
(* nondeterministic choice over everything the interfaces let it answer.   *)
(***************************************************************************)
EXTENDS Thread

CONSTANTS
  Threads,
  FuelGiven,          \* fuel a host may call Executor::step with
  VmCosts,            \* fuel one run of run_vm may consume
  MaxFrames,          \* bound: frames that calls may stack up in a thread
  FUEL_PER_CALLBACK, FUEL_PER_SEQ_STEP, FUEL_PER_STEP

ASSUME FuelAssumption ==
  /\ FuelGiven \subseteq Int
  /\ VmCosts \subseteq Nat
  /\ FUEL_PER_CALLBACK \in Nat /\ FUEL_PER_SEQ_STEP \in Nat
  /\ FUEL_PER_STEP \in Nat \ {0}

ASSUME BoundAssumption == MaxFrames \in Nat \ {0}

VARIABLES frames, thread_stack, stepping, fuel, ret

vars == <<frames, thread_stack, stepping, fuel, ret>>

\* What the last call of step returned, "none" once the host moved on.
Returns == {"none", "true", "false", "BadThreadMode"}

top_thread == Top(thread_stack)
top_state == frames[top_thread]
main_thread == thread_stack[1]

InStack(t) == \E i \in 1..Len(thread_stack) : thread_stack[i] = t

\* Executor::mode, for a caller outside of step.
ExecutorMode ==
  IF Len(thread_stack) > 1 THEN "Normal"
  ELSE IF Mode(frames[main_thread]) = "Waiting" THEN "Normal"
  ELSE Mode(frames[main_thread])

\* Executor::new.  Any thread may become the main one; the rest are new.
Init ==
  /\ frames = [t \in Threads |-> << >>]
  /\ \E t \in Threads : thread_stack = <<t>>
  /\ stepping = FALSE
  /\ fuel = 0
  /\ ret = "none"

-----------------------------------------------------------------------------
(* The step loop. *)

Return(r) == stepping' = FALSE /\ fuel' = 0 /\ ret' = r

\* Mutant: an iteration is only charged for what it ran.
EndIterationUncharged(cost, interrupted) ==
  IF fuel - cost > 0 /\ ~interrupted
  THEN fuel' = fuel - cost /\ UNCHANGED <<stepping, ret>>
  ELSE Return("false")

\* The end of an iteration.  A callback may have interrupted the fuel.
EndIteration(cost, interrupted) ==
  LET left == fuel - cost - FUEL_PER_STEP IN
  IF left > 0 /\ ~interrupted
  THEN fuel' = left /\ UNCHANGED <<stepping, ret>>
  ELSE Return("false")

\* No thread is left below, and the main thread cannot go on.
StepDone ==
  /\ stepping
  /\ Len(thread_stack) = 1
  /\ Mode(top_state) \in {"Stopped", "Suspended", "Result"}
  /\ Return("true")
  /\ UNCHANGED <<frames, thread_stack>>

\* The top thread has results for the one that waits below it, which then runs
\* in the same iteration.
Deliver ==
  /\ stepping
  /\ Len(thread_stack) > 1
  /\ Mode(top_state) = "Result"
  /\ LET below == thread_stack[Len(thread_stack) - 1]
         woken == Pop(frames[below]) IN
       /\ Mode(frames[below]) = "Waiting"
       /\ frames' = [frames EXCEPT
            ![top_thread] = ResultTaken(top_state),
            ![below] = IF Top(top_state).kind = "Result" THEN ReturnTo(woken)
                       ELSE Append(woken, F("Error"))]
  /\ thread_stack' = Pop(thread_stack)
  /\ UNCHANGED <<stepping, fuel, ret>>

\* Mutant: an idle main thread is reported as a bad one.
StepBadThreadModeOffByOne ==
  /\ stepping
  /\ Mode(top_state) \in {"Waiting", "Stopped", "Suspended"}
  /\ Return("BadThreadMode")
  /\ UNCHANGED <<frames, thread_stack>>

\* A thread of the stack was changed from outside.  The finished thread has
\* been popped by the time its waiter is found not to wait.
StepBadThreadMode ==
  /\ stepping
  /\ \/ /\ \/ Mode(top_state) = "Waiting"
           \/ Mode(top_state) \in {"Stopped", "Suspended"} /\ Len(thread_stack) > 1
        /\ UNCHANGED thread_stack
     \/ /\ Mode(top_state) = "Result" /\ Len(thread_stack) > 1
        /\ Mode(frames[thread_stack[Len(thread_stack) - 1]]) # "Waiting"
        /\ thread_stack' = Pop(thread_stack)
  /\ Return("BadThreadMode")
  /\ UNCHANGED frames

Running(kind) ==
  /\ stepping
  /\ Mode(top_state) = "Normal"
  /\ Top(top_state).kind = kind

SetTop(fs) == frames' = [frames EXCEPT ![top_thread] = fs] /\ UNCHANGED thread_stack

\* Mutant: any thread with frames can be resumed.
CanResumeUnchecked(t) == t # top_thread /\ frames[t] # << >>

\* The thread being run is borrowed, so it cannot resume itself.
CanResume(t) == t # top_thread /\ Mode(frames[t]) = "Suspended"

\* Mutant: the yielding thread stays in the stack.
YieldToKeepsPlace(fs, t, fn) ==
  IF CanResume(t)
  THEN /\ frames' = [frames EXCEPT ![top_thread] = Append(fs, F("Yielded")),
                                   ![t] = Resumed(frames[t], fn)]
       /\ thread_stack' = Append(thread_stack, t)
  ELSE SetTop(Append(fs, F("Error")))

\* do_yield, to the resumer or to another thread.
Yield(fs) == SetTop(Append(Append(fs, F("Yielded")), F("Result")))

YieldTo(fs, t, fn) ==
  IF CanResume(t)
  THEN /\ frames' = [frames EXCEPT ![top_thread] = Append(fs, F("Yielded")),
                                   ![t] = Resumed(frames[t], fn)]
       /\ thread_stack' = Append(Pop(thread_stack), t)
  ELSE SetTop(Append(fs, F("Error")))

\* do_resume.  A thread with no frame left gives its place away.
Resume(fs, t, fn) ==
  IF CanResume(t)
  THEN /\ frames' = [frames EXCEPT
            ![top_thread] = IF fs = << >> THEN fs ELSE Append(fs, F("WaitThread")),
            ![t] = Resumed(frames[t], fn)]
       /\ thread_stack' =
            Append(IF fs = << >> THEN Pop(thread_stack) ELSE thread_stack, t)
  ELSE SetTop(Append(fs, F("Error")))

\* What a callback (CallbackReturn) or a sequence (SequencePoll) can answer.
\* `rest` are the frames above it and `kept` those plus the sequence that goes
\* on afterwards, if the answer has one (`then`, or a non-tail answer).
Answer(rest) ==
  \/ SetTop(ReturnTo(rest))
  \/ SetTop(Append(rest, F("Sequence")))
  \/ SetTop(Append(rest, F("Error")))
  \/ \E kept \in {rest, Append(rest, F("Sequence"))} :
       \/ Len(kept) < MaxFrames /\ \E fn \in FunctionKinds : SetTop(PushCall(kept, fn))
       \/ Yield(kept)
       \/ \E t \in Threads, fn \in FunctionKinds : YieldTo(kept, t, fn)
       \/ \E t \in Threads, fn \in FunctionKinds : Resume(kept, t, fn)

RunCallback ==
  /\ Running("Callback")
  /\ Answer(Pop(top_state))
  /\ \E interrupted \in BOOLEAN : EndIteration(FUEL_PER_CALLBACK, interrupted)

RunSequence ==
  /\ Running("Sequence")
  /\ Answer(Pop(top_state))
  /\ \E interrupted \in BOOLEAN : EndIteration(FUEL_PER_SEQ_STEP, interrupted)

\* Mutant: a thread that was abandoned is taken for a free one.
CreateCoroutineReuses(t) ==
  /\ Running("Callback") \/ Running("Sequence")
  /\ ~InStack(t) /\ Mode(frames[t]) \in {"Stopped", "Waiting"}
  /\ frames' = [frames EXCEPT ![t] = StartedSuspended(ResetFrames)]
  /\ UNCHANGED <<thread_stack, stepping, fuel, ret>>

\* A callback or sequence creates a coroutine (coroutine.create) before it
\* answers.
CreateCoroutine(t) ==
  /\ Running("Callback") \/ Running("Sequence")
  /\ ~InStack(t) /\ frames[t] = << >>
  /\ frames' = [frames EXCEPT ![t] = StartedSuspended(frames[t])]
  /\ UNCHANGED <<thread_stack, stepping, fuel, ret>>

\* One slice of run_vm ends because its instructions are used up, or with the
\* instruction that changes frames: a call (of a metamethod too), a tail call,
\* a return, or a VM error, which is charged for nothing.
LuaContinue == SetTop(top_state)
LuaCall(fn) ==
  /\ Len(top_state) < MaxFrames
  /\ SetTop(PushCall(Append(Pop(top_state), LuaCalling), fn))
LuaTailCall(fn) == SetTop(PushCall(Pop(top_state), fn))
LuaReturn == SetTop(ReturnTo(Pop(top_state)))
LuaError == SetTop(Append(top_state, F("Error")))

RunLua ==
  /\ Running("Lua")
  /\ \/ /\ \/ LuaContinue
           \/ \E fn \in FunctionKinds : LuaCall(fn)
           \/ \E fn \in FunctionKinds : LuaTailCall(fn)
           \/ LuaReturn
        /\ \E cost \in VmCosts : EndIteration(cost, FALSE)
     \/ LuaError /\ EndIteration(0, FALSE)

UnwindError ==
  /\ Running("Error")
  /\ SetTop(Unwound(top_state))
  /\ EndIteration(0, FALSE)

StepLoop ==
  \/ StepDone \/ Deliver \/ StepBadThreadMode
  \/ RunCallback \/ RunSequence \/ RunLua \/ UnwindError
  \/ \E t \in Threads : CreateCoroutine(t)

-----------------------------------------------------------------------------
(* The host, outside of step. *)

HostStep ==
  /\ ~stepping
  /\ \E f \in FuelGiven : fuel' = f
  /\ stepping' = TRUE
  /\ ret' = "none"
  /\ UNCHANGED <<frames, thread_stack>>

\* A call of the host that makes fs the frames of t.
HostSets(t, fs) ==
  /\ ~stepping
  /\ frames' = [frames EXCEPT ![t] = fs]
  /\ ret' = "none"
  /\ UNCHANGED <<stepping, fuel>>

ExecTakeResult ==
  /\ ExecutorMode = "Result"
  /\ HostSets(main_thread, ResultTaken(frames[main_thread]))
  /\ UNCHANGED thread_stack

ExecResume ==
  /\ ExecutorMode = "Suspended"
  /\ \E fn \in FunctionKinds : HostSets(main_thread, Resumed(frames[main_thread], fn))
  /\ UNCHANGED thread_stack

ExecResumeErr ==
  /\ ExecutorMode = "Suspended"
  /\ HostSets(main_thread, ResumedErr(frames[main_thread]))
  /\ UNCHANGED thread_stack

\* Mutant: truncate(0).
ExecStopTruncatesAll == HostSets(main_thread, ResetFrames) /\ thread_stack' = << >>

ExecStop ==
  /\ HostSets(main_thread, ResetFrames)
  /\ thread_stack' = <<main_thread>>

ExecRestart ==
  /\ \E fn \in FunctionKinds : HostSets(main_thread, Started(ResetFrames, fn))
  /\ thread_stack' = <<main_thread>>

\* Mutant: a waiting thread is accepted.
ExecResetToAny(t) == HostSets(t, frames[t]) /\ thread_stack' = <<t>>

ExecReset(t) ==
  /\ Mode(frames[t]) # "Waiting"
  /\ HostSets(t, frames[t])
  /\ thread_stack' = <<t>>

\* The methods of Thread, called by the host.
ThreadCall(t) ==
  /\ LET fs == frames[t] IN
       \/ /\ Mode(fs) = "Stopped"
          /\ \/ \E fn \in FunctionKinds : HostSets(t, Started(fs, fn))
             \/ HostSets(t, StartedSuspended(fs))
       \/ Mode(fs) = "Result" /\ HostSets(t, ResultTaken(fs))
       \/ /\ Mode(fs) = "Suspended"
          /\ \/ \E fn \in FunctionKinds : HostSets(t, Resumed(fs, fn))
             \/ HostSets(t, ResumedErr(fs))
       \/ HostSets(t, ResetFrames)
  /\ UNCHANGED thread_stack

ExecutorCall ==
  \/ ExecTakeResult \/ ExecResume \/ ExecResumeErr \/ ExecStop \/ ExecRestart
  \/ \E t \in Threads : ExecReset(t)

\* The documented use: a thread in the stack is left to its executor.
Next ==
  \/ StepLoop \/ HostStep \/ ExecutorCall
  \/ \E t \in Threads : ~InStack(t) /\ ThreadCall(t)

Spec == Init /\ [][Next]_vars

\* Any other use of Thread from Rust.
MisuseNext ==
  \/ StepLoop \/ HostStep \/ ExecutorCall
  \/ \E t \in Threads : ThreadCall(t)

MisuseSpec == Init /\ [][MisuseNext]_vars

\* Step runs its loop to the end, and a host with work keeps calling it.
StepFairness == WF_vars(StepLoop)
HostFairness == WF_vars(HostStep)
DrivenSpec == Spec /\ StepFairness /\ HostFairness

-----------------------------------------------------------------------------
(* What is checked and proved. *)

TypeOK ==
  /\ frames \in [Threads -> Seq(Frame)]
  /\ thread_stack \in Seq(Threads) /\ thread_stack # << >>
  /\ stepping \in BOOLEAN
  /\ fuel \in Int
  /\ ret \in Returns

\* The comments on enum Frame hold of every thread at all times: which frames
\* may lie below the top, what return_to and unwinding will find there, and
\* that none of the frame panics of thread.rs and executor.rs was reached.
FramesWellFormed == \A t \in Threads : FrameDiscipline(frames[t])

\* Every thread below the top waits for the one above it, which is running or
\* has results for it; no thread is in the stack twice.  step relies on this
\* when it hands results down.
WaitChain ==
  LET n == Len(thread_stack) IN
  /\ \A i, j \in 1..n : thread_stack[i] = thread_stack[j] => i = j
  /\ \A i \in 1..(n - 1) : Mode(frames[thread_stack[i]]) = "Waiting"
  /\ Mode(top_state) # "Waiting"
  /\ n > 1 => Mode(top_state) \in {"Normal", "Result"}

\* Executor::step: "This rule cannot be violated from Lua or by normal Rust
\* callbacks": the separate error channel stays silent however coroutines
\* resume, yield to, and tail-resume one another.
NoBadThreadMode == ret # "BadThreadMode"

\* Executor::step: "Returns `false` if the method has exhausted its fuel, but
\* there is more work to do".
FalseMeansMoreWork == ret = "false" => ExecutorMode = "Normal"

\* Inside step a Sequence frame (a pcall, a metamethod continuation, an async
\* callback) leaves a thread only from the top: no error, return, yield or
\* resume skips one that lies below.
SequencesNotSkipped ==
  [][stepping =>
       \A t \in Threads : \A i \in 1..(Len(frames[t]) - 1) :
         frames[t][i].kind = "Sequence" =>
           i <= Len(frames'[t]) /\ frames'[t][i].kind = "Sequence"]_vars

\* Executor::stop and reset abandon the other threads of the stack while they
\* wait for one another.  No step of any executor touches such a thread again,
\* whoever still holds it, until the host resets it: a coroutine that waits for
\* results that will never come is not resumed with others.
AbandonedUntouched ==
  [][\A t \in Threads :
       Mode(frames[t]) = "Waiting" /\ ~InStack(t) /\ frames'[t] # frames[t] =>
         ~stepping /\ frames'[t] = << >>]_vars

\* A call of Executor::step returns, whatever the Lua code does: every
\* iteration costs at least FUEL_PER_STEP.
StepReturns == stepping ~> ~stepping

\* An error that begins to unwind is caught by a sequence or becomes the result
\* of its thread, as long as the host keeps stepping.
Unwinding(t) ==
  InStack(t) /\ Mode(frames[t]) = "Normal" /\ Top(frames[t]).kind = "Error"
UnwindingEnds == \A t \in Threads : Unwinding(t) ~> ~Unwinding(t)

-----------------------------------------------------------------------------
(* The frames implement the coroutine protocol of module Coroutines. *)

C == INSTANCE Coroutines WITH mode <- [t \in Threads |-> AbsMode(frames[t])],
                              chain <- thread_stack

\* Every step of the frame machine is a step of the coroutine protocol or
\* invisible to it.
ImplementsCoroutines == C!Spec
=============================================================================
