------------------------------ MODULE Compiler ------------------------------
(***************************************************************************)
(* compiler/compiler.rs: the state of a function being compiled, and how   *)
(* blocks, local variables, upvalues and jumps change it.  Statements and  *)
(* Expressions build on it.                                                *)
(*                                                                         *)
(* Block indices, instructions and registers count from 0, as in the code. *)
(***************************************************************************)
EXTENDS RegisterAllocator, Stacks, SequencesExt

-----------------------------------------------------------------------------
(* CompilerFunction, and the instructions it emits. *)

None == -1                                     \* Opt254::none
Nowhere == <<-1, -1>>                          \* no variable
NewFunction(params) ==
  LET n == Len(params)
  IN [alloc |-> IF n = 0 THEN Fresh ELSE Push(Fresh, n),
      locals |-> [i \in 1..n |->
                    [name |-> params[i], reg |-> i - 1, attr |-> "none", var |-> <<-1, i - 1>>]],
      upvalues |-> << >>, blocks |-> << >>, targets |-> << >>, pending |-> << >>,
      ops |-> << >>, consts |-> << >>, next_label |-> 0, params |-> n, ctx |-> << >>, err |-> "none"]

Op(k) == [k |-> k, reg |-> None, var |-> Nowhere, offset |-> 0, caps |-> {}]
JumpOp(o, c) == [k |-> "Jump", offset |-> o, close |-> c]
Emit(F, op) == [F EXCEPT !.ops = Append(@, op)]
Here(F) == Len(F.ops)
Fail(F, e) == IF F.err = "none" THEN [F EXCEPT !.err = e] ELSE F

jump_offset(source, target) == target - (source + 1)

\* register_allocator.push, or CompileErrorKind::Registers.
PushRegs(F, n) ==
  IF CanPush(F.alloc, n) THEN [F EXCEPT !.alloc = Push(@, n)] ELSE Fail(F, "Registers")
FreeReg(F, r) ==
  IF CanFree(F.alloc, r) THEN [F EXCEPT !.alloc = Free(@, r)] ELSE Fail(F, "panic")

\* An expression evaluated in a temporary register, and what then uses it.
Temporary(F, op) ==
  IF ~CanAllocate(F.alloc) THEN Fail(F, "Registers")
  ELSE LET r == Allocated(F.alloc)
       IN Emit(FreeReg(Emit([F EXCEPT !.alloc = Allocate(@)], [Op("Temp") EXCEPT !.reg = r]), r), op)

\* A new variable in a register that was just pushed.
AddLocal(F, name, attr, r, var) ==
  [F EXCEPT !.locals = Append(@, [name |-> name, reg |-> r, attr |-> attr, var |-> var])]

-----------------------------------------------------------------------------
(* Blocks, jumps and labels. *)

EnterBlock(F) ==
  [F EXCEPT !.blocks = Append(@, [stack_bottom |-> F.alloc.stack_top,
                                  bottom_jump_target |-> Len(F.targets), owns_upvalues |-> FALSE])]

\* The registers of local variables are freed, one after the other.
FreeAll(F, ls) ==
  LET freed[i \in 0..Len(ls)] == IF i = 0 THEN F ELSE FreeReg(freed[i - 1], ls[i].reg)
  IN freed[Len(ls)]

\* Mutant: they are freed but not forgotten.
FreeLocalsKeeps(F, bottom) == FreeAll(F, Reverse(SelectSeq(F.locals, LAMBDA l : l.reg >= bottom)))
\* The locals of a block, from the last one down, are freed and forgotten.
FreeLocals(F, bottom) ==
  LET keep == SelectLastInSeq(F.locals, LAMBDA l : l.reg < bottom)
      gone == Reverse(SubSeq(F.locals, keep + 1, Len(F.locals)))
  IN [FreeAll(F, gone) EXCEPT !.locals = SubSeq(@, 1, keep)]

\* Mutant: jumps that leave a block do not remember that it owned upvalues.
LeaveBlockForgets(F, owned) ==
  LET n == Len(F.blocks) top == F.alloc.stack_top
  IN [F EXCEPT !.pending = [i \in 1..Len(@) |->
        IF @[i].block_index < n THEN @[i] ELSE [@[i] EXCEPT !.block_index = n - 1, !.stack_top = top]]]

\* Pending jumps move out of the block that was left, the n-th.
MovedOut(p, n, top, owned) ==
  [p EXCEPT !.block_index = n - 1, !.stack_top = top, !.close_upvalues = @ \/ owned]
LeaveBlock(F, owned) ==
  LET n == Len(F.blocks)
      top == F.alloc.stack_top
      first == SelectLastInSeq(F.pending, LAMBDA p : p.block_index < n) + 1
  IN IF n = 0 THEN F
     ELSE IF \E i \in first..Len(F.pending) : F.pending[i].stack_top < top THEN Fail(F, "panic")
     ELSE [F EXCEPT !.pending = [i \in 1..Len(F.pending) |->
             IF i < first THEN F.pending[i] ELSE MovedOut(F.pending[i], n, top, owned)]]

ExitBlock(F) ==
  LET last == Top(F.blocks)
      G == FreeLocals([F EXCEPT !.blocks = Pop(@)], last.stack_bottom)
      H == [G EXCEPT !.targets = SubSeq(@, 1, last.bottom_jump_target)]
  IN IF F.err # "none" THEN F
     ELSE LeaveBlock(IF last.owns_upvalues /\ H.blocks # << >>
                     THEN Emit(H, JumpOp(0, last.stack_bottom)) ELSE H, last.owns_upvalues)

Unique(F) == <<"unique", F.next_label>>
Named(l) == <<"named", l>>
Break == <<"break", 0>>
TakeLabel(F) == [F EXCEPT !.next_label = @ + 1]

TargetOf(F, label) == SelectLastInSeq(F.targets, LAMBDA t : t.label = label)

\* A jump to a label that is already placed, or one that waits for its label.
Jump(F, label) ==
  LET here == Here(F)
      top == F.alloc.stack_top
      block == Len(F.blocks) - 1
      found == TargetOf(F, label)
      t == F.targets[found]
      needs_close == /\ t.stack_top < top
                     /\ \E i \in t.block_index..block : F.blocks[i + 1].owns_upvalues
  IN IF F.err # "none" THEN F
     ELSE IF found = 0
     THEN [Emit(F, JumpOp(0, None)) EXCEPT !.pending = Append(@,
             [label |-> label, instruction |-> here, block_index |-> block, stack_top |-> top,
              close_upvalues |-> FALSE])]
     ELSE IF t.stack_top > top \/ t.block_index > block THEN Fail(F, "panic")
     ELSE Emit(F, JumpOp(jump_offset(here, t.instruction),
                         IF needs_close THEN t.stack_top ELSE None))

\* The pending jumps that a new label resolves.
Resolved(F, label) ==
  {i \in 1..Len(F.pending) : /\ F.pending[i].block_index = Len(F.blocks) - 1
                             /\ F.pending[i].label = label}
Unresolved(F, label) ==
  LET rest[i \in 0..Len(F.pending)] ==
        IF i = 0 THEN << >>
        ELSE IF i \in Resolved(F, label) THEN rest[i - 1] ELSE Append(rest[i - 1], F.pending[i])
  IN rest[Len(F.pending)]
Patched(F, label) ==
  [n \in 1..Len(F.ops) |->
     IF \E i \in Resolved(F, label) : F.pending[i].instruction = n - 1
     THEN LET p == F.pending[CHOOSE i \in Resolved(F, label) : F.pending[i].instruction = n - 1]
          IN JumpOp(jump_offset(n - 1, Here(F)),
                    IF p.close_upvalues THEN F.alloc.stack_top ELSE None)
     ELSE F.ops[n]]

\* Mutant: a jump may enter the scope of a local variable.
IntoScopeUnchecked(F, label) == FALSE
IntoScope(F, label) ==
  \E i \in Resolved(F, label) : F.pending[i].stack_top < F.alloc.stack_top

JumpTarget(F, label) ==
  LET top == F.alloc.stack_top
      block == Len(F.blocks) - 1
      outer == SelectLastInSeq(F.targets, LAMBDA t : t.block_index < block)
  IN IF F.err # "none" THEN F
     ELSE IF \E i \in (outer + 1)..Len(F.targets) : F.targets[i].label = label
     THEN Fail(F, "DuplicateLabel")
     ELSE IF \/ \E i \in 1..Len(F.pending) : F.pending[i].block_index > block
             \/ \E i \in Resolved(F, label) : F.pending[i].stack_top > top
     THEN Fail(F, "panic")
     ELSE IF IntoScope(F, label) THEN Fail(F, "JumpLocal")
     ELSE [F EXCEPT
             !.targets = Append(@, [label |-> label, instruction |-> Here(F),
                                    stack_top |-> top, block_index |-> block]),
             !.ops = Patched(F, label),
             !.pending = Unresolved(F, label)]

-----------------------------------------------------------------------------
(* Names. *)

LocalOf(F, name) == SelectLastInSeq(F.locals, LAMBDA l : l.name = name)
UpValueOf(F, name) == SelectInSeq(F.upvalues, LAMBDA u : u.name = name)

\* The innermost block that the register belongs to now owns an upvalue.
Own(F, reg) ==
  LET b == SelectLastInSeq(F.blocks, LAMBDA k : k.stack_bottom <= reg)
  IN IF b = 0 THEN F ELSE [F EXCEPT !.blocks[b].owns_upvalues = TRUE]

\* The functions from i + 1 on each get an upvalue, the first one `desc`.
Threaded(fs, i, name, desc) ==
  [k \in 1..Len(fs) |->
     IF k <= i THEN fs[k]
     ELSE [fs[k] EXCEPT !.upvalues = Append(@, [name |-> name, desc |->
             IF k = i + 1 THEN desc ELSE <<"Outer", Len(fs[k - 1].upvalues)>>])]]

Found(fs, kind, index, attr) == [fns |-> fs, kind |-> kind, index |-> index, attr |-> attr]

\* Mutant: an upvalue of the name hides a local variable of it.
UpValuesFirst(fs, i, name) == UpValueOf(fs[i], name) = 0 /\ LocalOf(fs[i], name) # 0
IsLocal(fs, i, name) == LocalOf(fs[i], name) # 0

\* The variable is one of function i: a local or an upvalue of it, which the
\* functions inside it are handed.
Handed(fs, attr) == Found(fs, "UpValue", Len(Top(fs).upvalues) - 1, attr)
FoundLocal(fs, i, name, l) ==
  IF i = Len(fs) THEN Found(fs, "Local", l.reg, l.attr)
  ELSE Handed(Threaded([fs EXCEPT ![i] = Own(@, l.reg)], i, name, <<"ParentLocal", l.reg>>), l.attr)
FoundUpValue(fs, i, name, j) ==
  IF i = Len(fs) THEN Found(fs, "UpValue", j, "none")
  ELSE Handed(Threaded(fs, i, name, <<"Outer", j>>), "none")
FoundIn(fs, i, name) ==
  IF IsLocal(fs, i, name) THEN FoundLocal(fs, i, name, fs[i].locals[LocalOf(fs[i], name)])
  ELSE FoundUpValue(fs, i, name, UpValueOf(fs[i], name) - 1)

\* The chunk's first upvalue is the environment, added when it is first needed.
Environment == <<[name |-> "_ENV", desc |-> <<"Environment", 0>>]>>

find_variable(fs, name) ==
  LET known == {i \in 1..Len(fs) : IsLocal(fs, i, name) \/ UpValueOf(fs[i], name) # 0}
  IN IF known # {} THEN FoundIn(fs, Max(known), name)
     ELSE IF name = "_ENV" /\ fs[1].upvalues = << >>
     THEN FoundIn([fs EXCEPT ![1].upvalues = Environment], 1, name)
     ELSE Found(fs, "Global", 0, "none")

\* The name, or the environment that a global lives in.
OrEnvironment(v) ==
  IF v.kind = "Global" THEN [find_variable(v.fns, "_ENV") EXCEPT !.attr = "none"] ELSE v
Reference(fs, name) == OrEnvironment(find_variable(fs, name))

VariableIn(F, reg) == F.locals[SelectLastInSeq(F.locals, LAMBDA l : l.reg = reg)].var

\* finish: the parameters are freed, and nothing may be left over.
Finish(F) ==
  LET G == Emit(F, [k |-> "Return", start |-> 0, count |-> 0])
      H == FreeAll(G, G.locals)
  IN IF F.err # "none" THEN F
     ELSE IF Len(F.locals) # F.params \/ H.alloc.stack_top # 0 THEN Fail(F, "panic")
     ELSE IF F.pending # << >> THEN Fail(H, "GotoInvalid")
     ELSE H
=============================================================================
