------------------------------ MODULE MCCompiler ------------------------------
(* Families of small programs for CompiledCode. *)
EXTENDS CompiledCode

SomeParams == {<< >>, <<"x">>}
NoParams == {<< >>}
Families ==
  {[local |-> 2, capture |-> 1, assign |-> 1, label |-> 1, goto |-> 1, do |-> 1],
   [local |-> 1, capture |-> 1, while |-> 1, if |-> 1, else |-> 1, elseif |-> 1, break |-> 1],
   [local |-> 2, capture |-> 1, repeat |-> 1, if |-> 1, goto |-> 1, label |-> 1],
   [local |-> 1, capture |-> 1, for |-> 1, forin |-> 1, break |-> 1],
   [local |-> 1, copy |-> 1, assign |-> 1, call |-> 1, function |-> 1, localfunction |-> 1]}
GotoBack == {[label |-> 1, local |-> 1, while |-> 1, if |-> 1, goto |-> 1, capture |-> 1]}
GotoOut == {[for |-> 1, goto |-> 1, label |-> 1, local |-> 1]}
=============================================================================
