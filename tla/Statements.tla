----------------------------- MODULE Statements -----------------------------
(***************************************************************************)
(* The statements of compiler/compiler.rs as actions.  The program is any  *)
(* sequence of statements, chosen one after the other as the compiler      *)
(* meets them.  A construct that holds a block is opened by one action and *)
(* closed by another; `ctx` of a function keeps what the Rust functions    *)
(* keep in their local variables while the statements inside are compiled. *)
(*                                                                         *)
(* Expressions are left to Expressions: here a condition or a value is a   *)
(* temporary register, and instructions are what they do to variables.     *)
(* Decl starts a new variable in a register, Use reads or writes the       *)
(* variable that a name stood for, Temp writes a temporary, Closure        *)
(* captures variables.                                                     *)
(***************************************************************************)
EXTENDS Compiler

CONSTANTS
  Names,            \* names of variables
  Labels,           \* names of labels
  Attributes,       \* which of "none" and "const" a local may have
  Budgets,          \* bounds: how many statements of each kind a program has at most
  Returning,        \* bound: the constructs whose block may end with a return statement
  AnyGoto,          \* whether goto may go back, or out of a for loop
  ParamLists,       \* bound: the parameters of functions, sequences of names
  MaxFunctions      \* bound: nesting of functions, the chunk counted

ASSUME CompilerAssumption ==
  /\ MaxFunctions \in Nat \ {0}
  /\ \A b \in Budgets : \A k \in DOMAIN b : b[k] \in Nat
  /\ Attributes \subseteq {"none", "const"} /\ AnyGoto \in BOOLEAN
  /\ \A ps \in ParamLists : ps \in Seq(Names) /\ Len(ps) < NumRegs

VARIABLES
  fns,              \* upper_functions and, last, current_function
  result,           \* "compiling", "ok", a CompileErrorKind or "panic"
  left              \* what is left of the program's budget

cvars == <<fns, result, left>>

\* ret: the block ends with a return statement, so it has no block of its own
\* for the statements before trailing labels.  after_label: a label was the
\* last statement, so another one that is no label has to follow.
Construct(k, ret) ==
  [k |-> k, ret |-> ret, phase |-> "body", after_label |-> FALSE,
   a |-> <<"none", 0>>, b |-> <<"none", 0>>, base |-> 0, prep |-> 0, name |-> "none", dest |-> None]

cur == Top(fns)
C == Top(cur.ctx)
SetC(F, c) == [F EXCEPT !.ctx = Append(Pop(@), c)]
PushC(F, c) == [F EXCEPT !.ctx = Append(@, c)]
PopC(F) == [F EXCEPT !.ctx = Pop(@)]

\* The function being compiled becomes F; the first error ends it all.
Commit(fs, F) ==
  /\ fns' = Append(Pop(fs), F)
  /\ result' = IF F.err = "none" THEN result ELSE F.err

Spend(kind) ==
  /\ kind \in DOMAIN left /\ left[kind] > 0
  /\ left' = [left EXCEPT ![kind] = @ - 1]
Statement(kind) == result = "compiling" /\ C.phase = "body" /\ Spend(kind)
Done(F) == [F EXCEPT !.ctx[Len(F.ctx)].after_label = FALSE]

Ret(k) == IF k \in Returning THEN BOOLEAN ELSE {FALSE}

\* block_statements: the block around everything but the trailing labels.
OpenBody(F, c) == PushC(IF c.ret \/ c.k = "repeat" THEN F ELSE EnterBlock(F), c)
Test(F) == Temporary(F, Op("Test"))

-----------------------------------------------------------------------------
(* Simple statements. *)

LocalStatement(name, attr) ==
  /\ Statement("local")
  /\ LET r == cur.alloc.stack_top
         var == <<Here(cur), r>>
         F == PushRegs(Done(cur), 1)
     IN Commit(fns, AddLocal(Emit(F, [Op("Decl") EXCEPT !.reg = r, !.var = var]), name, attr, r, var))

\* The variable that a name was found to be is read.
Read(v) ==
  LET F == Done(Top(v.fns))
  IN IF v.kind = "Local"
     THEN Emit(F, [Op("Use") EXCEPT !.reg = v.index, !.var = VariableIn(F, v.index)]) ELSE F

\* name(): the function is pushed, called and popped.
Pushed(fs, F, r) == Commit(fs, FreeReg(Emit(PushRegs(F, 1), [Op("Temp") EXCEPT !.reg = r]), r))
Called(v, F) == Pushed(v.fns, F, F.alloc.stack_top)
CallOf(v) == Called(v, Read(v))
CallStatement(name) == Statement("call") /\ CallOf(Reference(fns, name))

\* local name = name: the value is the variable that the new one hides.
Declared(fs, F, name, r, var) ==
  Commit(fs, AddLocal(Emit(PushRegs(F, 1), [Op("Decl") EXCEPT !.reg = r, !.var = var]), name, "none", r, var))
Copied(v, F, name) == Declared(v.fns, F, name, F.alloc.stack_top, <<Here(F), F.alloc.stack_top>>)
CopyOf(v, name) == Copied(v, Read(v), name)
LocalCopy(name) == Statement("copy") /\ CopyOf(Reference(fns, name), name)

\* assign: the target may not be const.
Assigned(v, F) == IF v.attr = "const" THEN Fail(F, "AssignToConst") ELSE F
AssignVariable(v, F) ==
  Commit(v.fns,
    IF v.kind = "Local"
    THEN Emit(F, [Op("Use") EXCEPT !.reg = v.index, !.var = VariableIn(F, v.index)])
    ELSE Temporary(F, Op("SetUp")))
AssignTo(v) == AssignVariable(v, Assigned(v, Done(Top(v.fns))))
Assignment(name) == Statement("assign") /\ AssignTo(Reference(fns, name))

LabelStatement(l) ==
  /\ result = "compiling" /\ C.phase \in {"body", "labels"} /\ Spend("label")
  /\ \/ C.phase = "labels" \/ C.ret \/ C.k = "repeat"
     \/ \E k \in DOMAIN left \ {"label", "goto", "elseif", "else"} : left[k] > 0
  /\ Commit(fns, JumpTarget(SetC(cur, [C EXCEPT !.after_label = TRUE]), Named(l)))

GotoAllowed(l) ==
  \/ AnyGoto
  \/ /\ \A i \in 1..Len(cur.targets) : cur.targets[i].label # Named(l)
     /\ \A i \in 1..Len(cur.ctx) : cur.ctx[i].k \notin {"for", "forin"}
GotoStatement(l) ==
  Statement("goto") /\ GotoAllowed(l) /\ Commit(fns, Jump(Done(cur), Named(l)))
BreakStatement == Statement("break") /\ Commit(fns, Jump(Done(cur), Break))

\* Only at the end of a block; what is left of it is closed.
ReturnStatement ==
  /\ result = "compiling" /\ C.ret /\ C.phase = "body"
  /\ Commit(fns, Emit(SetC(cur, [C EXCEPT !.phase = "closed"]), Op("Return")))
  /\ UNCHANGED left

\* The end of a block without return: its own block is left, labels may follow.
EndStatements ==
  /\ result = "compiling" /\ C.k # "repeat" /\ ~C.ret /\ C.phase = "body" /\ ~C.after_label
  /\ Commit(fns, ExitBlock(SetC(cur, [C EXCEPT !.phase = "labels"])))
  /\ UNCHANGED left

-----------------------------------------------------------------------------
(* Statements with a block. *)

Open(k, F, c) == Statement(k) /\ Commit(fns, OpenBody(F, c))

OpenDo(ret) == Open("do", EnterBlock(Done(cur)), Construct("do", ret))

OpenWhile(ret) ==
  LET start == Unique(cur)
      F == TakeLabel(Done(cur))
      end == Unique(F)
      G == Jump(Test(JumpTarget(TakeLabel(F), start)), end)
  IN Open("while", EnterBlock(G), [Construct("while", ret) EXCEPT !.a = start, !.b = end])

OpenRepeat(ret) ==
  LET start == Unique(cur)
      F == EnterBlock(EnterBlock(TakeLabel(Done(cur))))
  IN Open("repeat", JumpTarget(F, start), [Construct("repeat", ret) EXCEPT !.a = start])

\* One `if` or `elseif` part: where the part before it jumps to, and its test.
IfPart(F, before, next, c) == OpenBody(EnterBlock(Jump(Test(JumpTarget(F, before)), next)), c)

OpenIf(ret) ==
  LET end == Unique(cur)
      F == TakeLabel(Done(cur))
      before == Unique(F)
      G == TakeLabel(F)
      next == Unique(G)
  IN /\ Statement("if")
     /\ Commit(fns, IfPart(TakeLabel(G), before, next,
                           [Construct("if", ret) EXCEPT !.a = end, !.b = next]))

\* The outer block is for Break, the inner one for the loop variables.
ForBlocks(F) == PushRegs(EnterBlock(EnterBlock(F)), 1)

OpenFor(k, name, ret) ==
  LET base == cur.alloc.stack_top
      F == PushRegs(Done(cur), 3)
      prep == Here(F)
      loop == Unique(F)
      G == IF k = "for" THEN ForBlocks(Emit(F, Op("ForPrep"))) ELSE ForBlocks(TakeLabel(F))
      H == AddLocal(G, name, "none", base + 3, <<prep, base + 3>>)
  IN Open(k, IF k = "for" THEN H ELSE Jump(H, loop),
          [Construct(k, ret) EXCEPT !.base = base, !.prep = prep, !.a = loop])

\* new_prototype; a local function is a variable of its own body.
OpenFunction(k, name, params, ret) ==
  LET r == cur.alloc.stack_top
      F == IF k = "function" THEN Done(cur)
           ELSE AddLocal(PushRegs(Done(cur), 1), name, "none", r, <<Here(cur), r>>)
      c == [Construct(k, ret) EXCEPT !.name = name, !.dest = IF k = "function" THEN None ELSE r]
  IN /\ Statement(k) /\ Len(fns) < MaxFunctions
     /\ result' = IF F.err = "none" THEN result ELSE F.err
     /\ fns' = Append(Append(Pop(fns), F), OpenBody(EnterBlock(NewFunction(params)), c))

-----------------------------------------------------------------------------
(* Their ends. *)

CloseWhile(F, c) == JumpTarget(ExitBlock(JumpTarget(Jump(F, c.a), Break)), c.b)

CloseRepeat(F, c) == ExitBlock(JumpTarget(ExitBlock(Jump(Test(F), c.a)), Break))

\* Mutant: the registers of the loop are not popped.
CloseForLeaks(F, c) ==
  LET G == ExitBlock(F)
      loop == Here(G)
  IN ExitBlock(JumpTarget(Emit(G, [Op("ForLoop") EXCEPT !.reg = c.base + 3,
                                        !.offset = jump_offset(loop, c.prep + 1)]), Break))
\* The loop instructions declare the variable; the prep jumps to the loop.
CloseFor(F, c) ==
  LET G == ExitBlock(F)
      loop == Here(G)
      var == <<c.prep, c.base + 3>>
      H == Emit([G EXCEPT !.ops[c.prep + 1].offset = jump_offset(c.prep, loop)],
                [Op("ForLoop") EXCEPT !.reg = c.base + 3, !.var = var,
                                      !.offset = jump_offset(loop, c.prep + 1)])
  IN [ExitBlock(JumpTarget(H, Break)) EXCEPT !.alloc = PopTo(@, c.base)]

\* c.prep is where the jump to the loop is; the body starts after it.
CloseForIn(F, c) ==
  LET G == JumpTarget(ExitBlock(F), c.a)
      H == Emit(G, [Op("ForCall") EXCEPT !.reg = c.base + 3, !.var = <<c.prep, c.base + 3>>])
      loop == Here(H)
      I == Emit(H, [Op("ForTest") EXCEPT !.offset = jump_offset(loop, c.prep + 1)])
  IN [ExitBlock(JumpTarget(I, Break)) EXCEPT !.alloc = PopTo(@, c.base)]

CloseIf(F, c) == JumpTarget(JumpTarget(ExitBlock(F), c.b), c.a)
CloseElse(F, c) == JumpTarget(ExitBlock(F), c.a)

CanClose ==
  /\ result = "compiling"
  /\ C.phase = IF C.ret THEN "closed" ELSE IF C.k = "repeat" THEN "body" ELSE "labels"

CloseConstruct ==
  LET F == PopC(cur)
  IN /\ CanClose /\ UNCHANGED left
     /\ \/ C.k = "do" /\ Commit(fns, ExitBlock(F))
        \/ C.k = "while" /\ Commit(fns, CloseWhile(F, C))
        \/ C.k = "repeat" /\ Commit(fns, CloseRepeat(F, C))
        \/ C.k = "for" /\ Commit(fns, CloseFor(F, C))
        \/ C.k = "forin" /\ Commit(fns, CloseForIn(F, C))
        \/ C.k = "if" /\ Commit(fns, CloseIf(F, C))
        \/ C.k = "else" /\ Commit(fns, CloseElse(F, C))

\* A part that is not the last one jumps to the end of the statement.
NextPart(part, ret) ==
  LET F == ExitBlock(Jump(PopC(cur), C.a))
      next == Unique(F)
  IN /\ CanClose /\ C.k = "if" /\ Spend(part)
     /\ \/ /\ part = "elseif"
           /\ Commit(fns, IfPart(TakeLabel(F), C.b, next,
                                 [Construct("if", ret) EXCEPT !.a = C.a, !.b = next]))
        \/ /\ part = "else"
           /\ Commit(fns, OpenBody(EnterBlock(JumpTarget(F, C.b)), [Construct("else", ret) EXCEPT !.a = C.a]))

-----------------------------------------------------------------------------
(* The closure in the function around it. *)

Captured(P, F) ==
  {<<P.upvalues[i].desc[2], VariableIn(F, P.upvalues[i].desc[2])>> :
     i \in {j \in 1..Len(P.upvalues) : P.upvalues[j].desc[1] = "ParentLocal"}}

\* A local function's closure goes to its variable, another to a temporary.
MakeClosure(F, P, c) ==
  LET op == [Op("Closure") EXCEPT !.caps = Captured(P, F)]
  IN IF c.k = "function" THEN Temporary(F, op)
     ELSE Emit(F, [op EXCEPT !.reg = c.dest, !.var = VariableIn(F, c.dest)])

\* A whole function whose body assigns to the name: function() name = nil end.
CaptureBy(upper, P) ==
  IF P.err # "none" THEN Commit(fns, Fail(cur, P.err))
  ELSE Commit(upper, MakeClosure(Top(upper), P, Construct("function", FALSE)))
CaptureOf(v) ==
  CaptureBy(Pop(v.fns), Finish(ExitBlock(ExitBlock(Temporary(Assigned(v, Top(v.fns)), Op("SetUp"))))))
Capture(name) ==
  /\ Statement("capture")
  /\ CaptureOf(Reference(Append(Append(Pop(fns), Done(cur)), EnterBlock(EnterBlock(NewFunction(<< >>)))), name))

CloseFunction ==
  LET P == Finish(ExitBlock(PopC(cur)))
      upper == Pop(fns)
  IN /\ CanClose /\ C.k \in {"function", "localfunction"} /\ UNCHANGED left
     /\ IF P.err # "none" THEN Commit(fns, P)
        ELSE Commit(upper, MakeClosure(Top(upper), P, C))

CloseChunk ==
  LET P == Finish(ExitBlock(PopC(cur)))
  IN /\ CanClose /\ C.k = "chunk" /\ UNCHANGED left
     /\ fns' = <<P>>
     /\ result' = IF P.err = "none" THEN "ok" ELSE P.err

CompileInit ==
  /\ \E ret \in Ret("chunk") : fns = <<OpenBody(EnterBlock(NewFunction(<< >>)), Construct("chunk", ret))>>
  /\ result = "compiling" /\ left \in Budgets

Compile ==
  \/ \E n \in Names, a \in Attributes : LocalStatement(n, a)
  \/ \E n \in Names : LocalCopy(n)
  \/ \E n \in Names : CallStatement(n)
  \/ \E n \in Names : Assignment(n)
  \/ \E n \in Names : Capture(n)
  \/ \E l \in Labels : LabelStatement(l)
  \/ \E l \in Labels : GotoStatement(l)
  \/ BreakStatement
  \/ ReturnStatement
  \/ EndStatements
  \/ \E ret \in Ret("do") : OpenDo(ret)
  \/ \E ret \in Ret("while") : OpenWhile(ret)
  \/ \E ret \in Ret("repeat") : OpenRepeat(ret)
  \/ \E ret \in Ret("if") : OpenIf(ret)
  \/ \E k \in {"for", "forin"}, n \in Names : \E ret \in Ret(k) : OpenFor(k, n, ret)
  \/ \E k \in {"function", "localfunction"}, n \in Names, ps \in ParamLists :
       \E ret \in Ret(k) : OpenFunction(k, n, ps, ret)
  \/ CloseConstruct
  \/ \E part \in {"elseif", "else"} : \E ret \in Ret(part) : NextPart(part, ret)
  \/ CloseFunction
  \/ CloseChunk
=============================================================================
