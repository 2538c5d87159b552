----------------------------- MODULE Coroutines -----------------------------
(***************************************************************************)
(* What an Executor promises about its coroutines, with every call frame   *)
(* hidden: each Thread has a mode, and the executor holds the chain of     *)
(* threads that resumed one another, the running one last.                 *)
(*                                                                         *)
(* A finished or yielding thread keeps its results until its resumer takes *)
(* them, so ThreadMode::Result is split in two: "Returned" becomes         *)
(* "Stopped" and "Yielded" becomes "Suspended" when the results are taken. *)
(***************************************************************************)
EXTENDS Stacks

CONSTANT Threads

VARIABLES mode, chain

vars == <<mode, chain>>

Modes == {"Stopped", "Suspended", "Normal", "Waiting", "Returned", "Yielded"}

\* The mode a thread falls back to when its results are taken.
Taken(m) == IF m = "Returned" THEN "Stopped" ELSE "Suspended"

top == Top(chain)

Init ==
  /\ mode = [t \in Threads |-> "Stopped"]
  /\ \E t \in Threads : chain = <<t>>

-----------------------------------------------------------------------------
(* Moves of the running thread. *)

\* It finishes, with values or with an uncaught error, or yields.
Complete(m) ==
  /\ mode[top] = "Normal"
  /\ mode' = [mode EXCEPT ![top] = m]
  /\ UNCHANGED chain

\* It resumes a suspended thread and waits for it.  A coroutine suspended with
\* no frame left to return to has its result at once.
Resume(t, m) ==
  /\ mode[top] = "Normal" /\ mode[t] = "Suspended"
  /\ mode' = [mode EXCEPT ![top] = "Waiting", ![t] = m]
  /\ chain' = Append(chain, t)

\* It hands its place in the chain to a suspended thread, having nothing left
\* to do itself (a tail resume) or suspending (a yield to that thread).
HandOver(t, left, m) ==
  /\ mode[top] = "Normal" /\ mode[t] = "Suspended"
  /\ mode' = [mode EXCEPT ![top] = left, ![t] = m]
  /\ chain' = Append(Pop(chain), t)

\* The thread waiting directly below takes the results and continues.
Deliver ==
  /\ Len(chain) > 1
  /\ mode[top] \in {"Returned", "Yielded"}
  /\ LET below == chain[Len(chain) - 1] IN
       /\ mode[below] = "Waiting"
       /\ mode' = [mode EXCEPT ![top] = Taken(mode[top]), ![below] = "Normal"]
  /\ chain' = Pop(chain)

-----------------------------------------------------------------------------
(* Moves of the host, and of callbacks that handle Thread values. *)

TakeResult ==
  /\ Len(chain) = 1
  /\ mode[top] \in {"Returned", "Yielded"}
  /\ mode' = [mode EXCEPT ![top] = Taken(mode[top])]
  /\ UNCHANGED chain

HostResume(m) ==
  /\ Len(chain) = 1
  /\ mode[top] = "Suspended"
  /\ mode' = [mode EXCEPT ![top] = m]
  /\ UNCHANGED chain

\* Executor::stop and Executor::restart keep the main thread, reset.
Restart(m) ==
  /\ chain' = <<chain[1]>>
  /\ mode' = [mode EXCEPT ![chain[1]] = m]

\* Executor::reset: run another thread instead.
Switch(t) ==
  /\ mode[t] # "Waiting"
  /\ chain' = <<t>>
  /\ UNCHANGED mode

\* A thread outside the chain is nobody's promise.
Outside(t, m) ==
  /\ \A i \in 1..Len(chain) : chain[i] # t
  /\ mode' = [mode EXCEPT ![t] = m]
  /\ UNCHANGED chain

Next ==
  \/ \E m \in {"Returned", "Yielded"} : Complete(m)
  \/ \E t \in Threads, m \in {"Normal", "Returned"} : Resume(t, m)
  \/ \E t \in Threads, m \in {"Normal", "Returned"}, left \in {"Stopped", "Suspended"} :
       HandOver(t, left, m)
  \/ Deliver
  \/ TakeResult
  \/ \E m \in {"Normal", "Returned"} : HostResume(m)
  \/ \E m \in {"Stopped", "Normal"} : Restart(m)
  \/ \E t \in Threads : Switch(t)
  \/ \E t \in Threads, m \in Modes : Outside(t, m)

Spec == Init /\ [][Next]_vars

-----------------------------------------------------------------------------
TypeOK ==
  /\ mode \in [Threads -> Modes]
  /\ chain \in Seq(Threads)
  /\ chain # << >>

\* No thread is in the chain twice.
ChainInjective ==
  \A i, j \in 1..Len(chain) : chain[i] = chain[j] => i = j

\* Every thread below the running one is waiting for the thread just above it.
BelowWait ==
  \A i \in 1..(Len(chain) - 1) : mode[chain[i]] = "Waiting"

\* The last thread has work to do or results to hand down; only a lone main
\* thread may be idle, and nobody at the end of the chain waits.
LastActive ==
  /\ mode[top] # "Waiting"
  /\ Len(chain) > 1 => mode[top] \in {"Normal", "Returned", "Yielded"}

\* The inductive invariant of the chain.
ChainInv == TypeOK /\ ChainInjective /\ BelowWait /\ LastActive
=============================================================================
