--------------------------- MODULE MCThreadStack ---------------------------
(***************************************************************************)
(* ThreadStack, with two states taken to be the same if they differ only   *)
(* in the names of variables, or in values that nothing can read: those of *)
(* variables that are gone, and the temporaries of a frame that is not     *)
(* about to consume them.                                                  *)
(***************************************************************************)
EXTENDS ThreadStack

MCCounts == {Variable, 1}

ViewFrame(g) == [g EXCEPT !.locals = [k \in 1..Len(@) |-> mem[@[k]]]]
ViewFrames == [i \in 1..Len(frames) |-> ViewFrame(frames[i])]

Dead(i) ==
  \E k \in Lua(frames) :
    LET g == frames[k] IN
    /\ i \in (g.base + Len(g.locals) + 1)..(g.base + g.size)
    /\ ~g.is_variable /\ g.expect # Expect("Normal", Variable)
    /\ k < Len(frames) => i <= frames[k + 1].bottom
ViewStack == [i \in 1..Len(stack) |-> IF Dead(i) THEN Nil ELSE stack[i]]

\* Which upvalues and registers share a variable, and its value.
ViewCells ==
  [u \in used |->
     <<mem[cell_of[u]], {v \in used : cell_of[v] = cell_of[u]},
       {<<i, k>> \in Lua(frames) \X Registers :
          k < Len(frames[i].locals) /\ frames[i].locals[k + 1] = cell_of[u]}>>]

StackView == <<ViewFrames, ViewStack, open_upvalues, upval, used, ViewCells>>
=============================================================================
