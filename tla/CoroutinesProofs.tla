-------------------------- MODULE CoroutinesProofs --------------------------
(* The chain of coroutines is well formed, for any number of threads. *)
EXTENDS Coroutines, StackLemmas

\* A chain of one new thread satisfies the invariant.
LEMMA InitChain == Init => ChainInv
<1> SUFFICES ASSUME Init PROVE ChainInv
  OBVIOUS
<1>1. PICK t \in Threads : chain = <<t>>
  BY DEF Init
<1>2. Len(chain) = 1 /\ chain[1] = t /\ top = t
  BY <1>1 DEF top, Top
<1> QED
  BY <1>1, <1>2 DEF Init, ChainInv, TypeOK, ChainInjective, BelowWait, LastActive, Modes

\* The chain, seen as a function.
LEMMA ChainDomain ==
  ASSUME TypeOK
  PROVE  /\ Len(chain) \in Nat /\ Len(chain) > 0
         /\ \A i \in 1..Len(chain) : chain[i] \in Threads
         /\ top = chain[Len(chain)] /\ top \in Threads
  BY NonEmpty DEF TypeOK, top, Top

\* The running thread changes its mode, and stays where it is.
LEMMA TopChanges ==
  ASSUME ChainInv, NEW m \in Modes, m # "Waiting",
         Len(chain) > 1 => m \in {"Normal", "Returned", "Yielded"},
         mode' = [mode EXCEPT ![top] = m], chain' = chain
  PROVE  ChainInv'
<1> USE ChainDomain DEF ChainInv
<1>1. TypeOK'
  BY DEF TypeOK
<1>2. ChainInjective'
  BY DEF ChainInjective
<1>3. BelowWait'
  BY DEF BelowWait, ChainInjective, TypeOK
<1>4. top' = top /\ mode'[top] = m
  BY DEF top, Top, TypeOK
<1>5. LastActive'
  BY <1>4 DEF LastActive
<1> QED
  BY <1>1, <1>2, <1>3, <1>5

\* Every move of the protocol keeps the invariant.
LEMMA NextChain == ChainInv /\ [Next]_vars => ChainInv'
<1> SUFFICES ASSUME ChainInv, [Next]_vars PROVE ChainInv'
  OBVIOUS
<1> USE DEF ChainInv
<1> DEFINE n == Len(chain)
<1>0. /\ n \in Nat /\ n > 0
      /\ \A i \in 1..n : chain[i] \in Threads
      /\ top = chain[n] /\ top \in Threads
      /\ chain \in Seq(Threads) /\ chain # << >> /\ n = Len(chain)
  BY ChainDomain DEF TypeOK
<1>1. ASSUME NEW m \in {"Returned", "Yielded"}, Complete(m) PROVE ChainInv'
  BY <1>1, TopChanges DEF Complete, Modes
<1>2. ASSUME NEW t \in Threads, NEW m \in {"Normal", "Returned"}, Resume(t, m)
      PROVE ChainInv'
  <2> USE <1>2 DEF Resume
  <2>1. /\ chain' \in Seq(Threads) /\ chain' # << >>
        /\ Len(chain') = n + 1
        /\ \A i \in 1..n : chain'[i] = chain[i]
        /\ chain'[n + 1] = t
    BY <1>0, PushElements
  <2>2. \A i \in 1..n : chain[i] # t
    BY <1>0 DEF BelowWait
  <2> HIDE DEF n
  <2>3. TypeOK'
    BY <2>1 DEF TypeOK, Modes
  <2>4. ChainInjective'
    BY <1>0, <2>1, <2>2 DEF ChainInjective
  <2>5. BelowWait'
    BY <1>0, <2>1, <2>2 DEF BelowWait, TypeOK, ChainInjective
  <2>6. LastActive'
    BY <1>0, <2>1, <2>2 DEF LastActive, TypeOK, top, Top
  <2> QED
    BY <2>3, <2>4, <2>5, <2>6
<1>3. ASSUME NEW t \in Threads, NEW m \in {"Normal", "Returned"},
             NEW left \in {"Stopped", "Suspended"}, HandOver(t, left, m)
      PROVE ChainInv'
  <2> USE <1>3 DEF HandOver
  <2>0. /\ Pop(chain) \in Seq(Threads) /\ Len(Pop(chain)) = n - 1
        /\ \A i \in 1..(n - 1) : Pop(chain)[i] = chain[i]
    BY <1>0, PopElements, Zenon
  <2>1. /\ chain' \in Seq(Threads) /\ chain' # << >>
        /\ Len(chain') = n
        /\ \A i \in 1..(n - 1) : chain'[i] = chain[i]
        /\ chain'[n] = t
    BY <1>0, <2>0, PushElements
  <2>2. \A i \in 1..n : chain[i] # t
    BY <1>0 DEF BelowWait
  <2> HIDE DEF n
  <2>3. TypeOK'
    BY <2>1 DEF TypeOK, Modes
  <2>4. ChainInjective'
    BY <1>0, <2>1, <2>2 DEF ChainInjective
  <2>5. BelowWait'
    BY <1>0, <2>1, <2>2 DEF BelowWait, TypeOK, ChainInjective
  <2>6. LastActive'
    BY <1>0, <2>1, <2>2 DEF LastActive, TypeOK, top, Top
  <2> QED
    BY <2>3, <2>4, <2>5, <2>6
<1>4. CASE Deliver
  <2> USE <1>4 DEF Deliver
  <2>0. n > 1
    BY <1>0
  <2>1. /\ chain' \in Seq(Threads) /\ chain' # << >>
        /\ Len(chain') = n - 1
        /\ \A i \in 1..(n - 1) : chain'[i] = chain[i]
    BY <1>0, <2>0, PopElements, Zenon
  <2>2. \A i \in 1..(n - 1) : chain[i] # top
    BY <1>0 DEF ChainInjective
  <2> HIDE DEF n
  <2>3. TypeOK'
    BY <1>0, <2>0, <2>1 DEF TypeOK, Modes, Taken
  <2>4. ChainInjective'
    BY <1>0, <2>1 DEF ChainInjective
  <2>5. BelowWait'
    BY <1>0, <2>0, <2>1, <2>2 DEF BelowWait, TypeOK, ChainInjective
  <2>6. mode'[chain[n - 1]] = "Normal" /\ top' = chain[n - 1]
    BY <1>0, <2>0, <2>1, <2>2 DEF TypeOK, top, Top
  <2>7. LastActive'
    BY <2>6 DEF LastActive
  <2> QED
    BY <2>3, <2>4, <2>5, <2>7
<1>5. CASE TakeResult
  <2>1. PICK m \in {"Stopped", "Suspended"} : m = Taken(mode[top])
    BY DEF Taken
  <2>2. m \in Modes /\ m # "Waiting" /\ ~(Len(chain) > 1)
    BY <1>5 DEF TakeResult, Modes
  <2>3. mode' = [mode EXCEPT ![top] = m] /\ chain' = chain
    BY <1>5, <2>1 DEF TakeResult
  <2> QED
    BY <2>2, <2>3, TopChanges
<1>6. ASSUME NEW m \in {"Normal", "Returned"}, HostResume(m) PROVE ChainInv'
  BY <1>6, TopChanges DEF HostResume, Modes
<1>7. ASSUME NEW m \in {"Stopped", "Normal"}, Restart(m) PROVE ChainInv'
  <2>1. chain[1] \in Threads /\ chain' = <<chain[1]>> /\ mode' = [mode EXCEPT ![chain[1]] = m]
    BY <1>0, <1>7 DEF Restart
  <2>2. Len(chain') = 1 /\ chain'[1] = chain[1] /\ top' = chain[1]
    BY <2>1 DEF top, Top
  <2> QED
    BY <2>1, <2>2 DEF TypeOK, ChainInjective, BelowWait, LastActive, Modes
<1>8. ASSUME NEW t \in Threads, Switch(t) PROVE ChainInv'
  <2>1. Len(chain') = 1 /\ chain'[1] = t /\ top' = t
    BY <1>8 DEF Switch, top, Top
  <2> QED
    BY <1>8, <2>1 DEF Switch, TypeOK, ChainInjective, BelowWait, LastActive, Modes
<1>9. ASSUME NEW t \in Threads, NEW m \in Modes, Outside(t, m) PROVE ChainInv'
  <2>1. chain' = chain /\ top' = top /\ mode' = [mode EXCEPT ![t] = m]
    BY <1>9 DEF Outside, top, Top
  <2>2. \A i \in 1..n : chain[i] # t
    BY <1>9 DEF Outside
  <2> HIDE DEF n
  <2>3. TypeOK' /\ ChainInjective'
    BY <2>1 DEF TypeOK, ChainInjective
  <2>4. BelowWait'
    BY <1>0, <2>1, <2>2 DEF BelowWait, TypeOK
  <2>5. LastActive'
    BY <1>0, <2>1, <2>2 DEF LastActive, TypeOK
  <2> QED
    BY <2>3, <2>4, <2>5
<1>10. CASE UNCHANGED vars
  BY <1>10 DEF vars, TypeOK, ChainInjective, BelowWait, LastActive, Modes, top
<1> QED
  BY <1>1, <1>2, <1>3, <1>4, <1>5, <1>6, <1>7, <1>8, <1>9, <1>10 DEF Next

\* Whatever coroutines resume, hand over to or yield to, every thread below the
\* running one waits for the thread just above it, and none is there twice.
THEOREM ChainWellFormed == Spec => []ChainInv
  BY InitChain, NextChain, PTL DEF Spec
=============================================================================
