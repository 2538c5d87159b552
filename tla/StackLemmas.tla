---------------------------- MODULE StackLemmas ----------------------------
(* Pushing on and popping off a stack, element by element, and the least of a set
   of numbers. *)
EXTENDS Stacks, FiniteSetTheorems, WellFoundedInduction, TLAPS

\* A stack that is not empty has a positive length and a top.
LEMMA NonEmpty ==
  ASSUME NEW S, NEW s \in Seq(S), s # << >>
  PROVE  /\ Len(s) \in Nat /\ Len(s) > 0
         /\ \A i \in 1..Len(s) : s[i] \in S
         /\ Top(s) \in S
  BY DEF Top

\* Pushing keeps every element in place and puts the new one on top.
LEMMA PushElements ==
  ASSUME NEW S, NEW s \in Seq(S), NEW e \in S
  PROVE  /\ Append(s, e) \in Seq(S)
         /\ Append(s, e) # << >>
         /\ Len(Append(s, e)) = Len(s) + 1
         /\ \A i \in 1..Len(s) : Append(s, e)[i] = s[i]
         /\ Append(s, e)[Len(s) + 1] = e
         /\ Top(Append(s, e)) = e
  BY DEF Top

\* Popping keeps every element but the top one.
LEMMA PopElements ==
  ASSUME NEW S, NEW s \in Seq(S), s # << >>
  PROVE  /\ Pop(s) \in Seq(S)
         /\ Len(Pop(s)) = Len(s) - 1
         /\ \A i \in 1..(Len(s) - 1) : Pop(s)[i] = s[i]
         /\ Len(s) > 1 <=> Pop(s) # << >>
<1>1. Len(s) \in Nat /\ Len(s) > 0
  BY NonEmpty
<1> DEFINE n == Len(s) - 1
<1>2. n \in Nat /\ n <= Len(s) /\ n = Len(s) - 1
  BY <1>1
<1> HIDE DEF n
<1>3. SubSeq(s, 1, n) \in Seq(S) /\ Len(SubSeq(s, 1, n)) = n
  BY <1>2
<1>4. \A i \in 1..n : SubSeq(s, 1, n)[i] = s[i]
  BY <1>2
<1>5. Pop(s) = SubSeq(s, 1, n)
  BY DEF Pop, n
<1>6. Pop(s) \in Seq(S) /\ Len(Pop(s)) = n /\ \A i \in 1..n : Pop(s)[i] = s[i]
  BY <1>3, <1>4, <1>5, Zenon
<1>7. n > 0 <=> Pop(s) # << >>
  BY <1>2, <1>6
<1> QED
  BY <1>1, <1>2, <1>6, <1>7

\* Every set of numbers that is not empty has a least one.
LEMMA Least ==
  ASSUME NEW T \in SUBSET Nat, T # {}
  PROVE  \E x \in T : \A y \in T : x <= y
<1> DEFINE F == {0..x : x \in T}
<1>1. F \subseteq FiniteSubsetsOf(Nat)
  <2>1. ASSUME NEW x \in T PROVE 0..x \in SUBSET Nat /\ IsFiniteSet(0..x)
    BY FS_Interval
  <2> QED
    BY <2>1 DEF FiniteSubsetsOf
<1>2. F # {}
  OBVIOUS
<1>3. PICK a \in F : \A b \in F : ~(<<b, a>> \in StrictSubsetOrdering(Nat))
  <2> HIDE DEF F
  <2> QED
    BY <1>1, <1>2, FS_StrictSubsetOrderingWellFounded, WFMin
<1>4. PICK x \in T : a = 0..x
  BY <1>3
<1>5. ASSUME NEW y \in T, y < x PROVE FALSE
  <2>1. 0..y \subseteq 0..x /\ x \in 0..x /\ x \notin 0..y
    BY <1>5
  <2>2. <<0..y, 0..x>> \in StrictSubsetOrdering(Nat)
    BY <2>1 DEF StrictSubsetOrdering
  <2> QED
    BY <1>3, <1>4, <2>2
<1> QED
  BY <1>5
=============================================================================
