------------------------------- MODULE Stacks -------------------------------
(* A Vec used as a stack: its last element is the top. *)
EXTENDS Integers, Sequences

Top(s) == s[Len(s)]
Pop(s) == SubSeq(s, 1, Len(s) - 1)
=============================================================================
