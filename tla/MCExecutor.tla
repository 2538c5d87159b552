----------------------------- MODULE MCExecutor -----------------------------
(* Executor on small instances. *)
EXTENDS Executor, TLC

CONSTANTS t1, t2, t3

TwoThreads == {t1, t2}
ThreeThreads == {t1, t2, t3}

Symmetry == Permutations(Threads)

\* Bounds misuse, which can put a thread into the stack again and again.
StackBound == Len(thread_stack) <= 3

\* One iteration a call, so that the host may act between any two.
NoFuel == {0}
OneVmCost == {1}

\* One iteration with the last drop of fuel, and several on one call.
FewFuel == {0, 14}

\* A slice that ran no whole instruction, and one of five.
FewVmCosts == {0, 5}
=============================================================================
