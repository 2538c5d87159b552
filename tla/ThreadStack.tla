---------------------------- MODULE ThreadStack ----------------------------
(***************************************************************************)
(* The value stack of one Thread (thread/thread.rs): the register windows  *)
(* that calls, returns, metamethods, varargs and yields open and close on  *)
(* it, and the open upvalues that point into it.                           *)
(*                                                                         *)
(* A closure captures one variable and is the number of its upvalue; Main  *)
(* is a closure that captures nothing, Cb a Rust callback, and stands for  *)
(* every other value too.  Stack indices and registers count from 0, as in *)
(* the code.                                                               *)
(*                                                                         *)
(* Three parts of the state are the program's point of view and not in the *)
(* code: `locals`, the variables in the first registers of a frame;        *)
(* `extra`, the variable arguments it was given; and `mem`, the value each *)
(* variable should have, whoever wrote it last.                            *)
(***************************************************************************)
EXTENDS Stacks, FiniteSets

CONSTANTS
  Nil, Cb, Main,
  UpVals, Cells,      \* bounds: the upvalues, and the variables at one time
  StackSize,          \* stack_size of every prototype
  FixedParams,        \* the values of fixed_params
  Counts,             \* the counts of arguments and results in instructions
  KeepArgs,           \* arg_count of call_function_keep
  MaxFrames,          \* bound: frames of the thread
  ArgCounts, Passed   \* bounds: how many values Rust code passes to Lua, and which

ASSUME StackAssumption ==
  /\ IsFiniteSet(UpVals) /\ IsFiniteSet(Cells) /\ Cells # {}
  /\ {Nil, Cb, Main} \cap UpVals = {} /\ Cardinality({Nil, Cb, Main}) = 3
  /\ FixedParams \subseteq 0..StackSize /\ Counts \subseteq -1..StackSize
  /\ StackSize \in Nat \ {0} /\ KeepArgs \in Nat /\ MaxFrames \in Nat
  /\ IsFiniteSet(ArgCounts) /\ ArgCounts \subseteq Nat

VARIABLES
  frames, stack, open_upvalues,    \* ThreadState
  upval,                           \* UpValueState of every upvalue
  used, cell_of,                   \* the upvalues that exist, and the variables they capture
  mem

vars == <<frames, stack, open_upvalues, upval, used, cell_of, mem>>
upvalues == <<open_upvalues, upval, used, cell_of>>

Values == {Nil, Cb} \cup UpVals
Functions == {Cb, Main} \cup used
Variable == -1                      \* VarCount::variable
Tags == {"None", "Normal", "MetaNone", "MetaRegister"}
Expect(t, n) == [tag |-> t, n |-> n]

Plain(k, b) ==
  [kind |-> k, bottom |-> b, base |-> b, size |-> 0, is_variable |-> FALSE,
   expect |-> Expect("None", 0), fn |-> Cb, locals |-> << >>, extra |-> << >>]

f == Top(frames)
nact == Len(f.locals)
SetTop(fs, g) == Append(Pop(fs), g)

Truncate(s, n) == SubSeq(s, 1, IF n < Len(s) THEN n ELSE Len(s))
Resize(s, n) == [i \in 1..n |-> IF i <= Len(s) THEN s[i] ELSE Nil]
From(s, n) == SubSeq(s, n + 1, Len(s))
Write(s, i, v) == [s EXCEPT ![i + 1] = v]
CopyWithin(s, from, n, dest) ==
  [i \in 1..Len(s) |-> IF i - 1 \in dest..(dest + n - 1) THEN s[i + from - dest] ELSE s[i]]

SeqsOf(S, lens) == UNION {[1..k -> S] : k \in lens}

\* What Rust code passes to Lua: closures it has got hold of, and other values.
Given == SeqsOf(({Cb} \cup used) \cap Passed, ArgCounts)

Init ==
  /\ frames = << >> /\ stack = << >> /\ open_upvalues = << >>
  /\ upval = [u \in UpVals |-> [open |-> FALSE, ind |-> 0, val |-> Nil]]
  /\ used = {} /\ cell_of = [u \in UpVals |-> CHOOSE c \in Cells : TRUE]
  /\ mem = [c \in Cells |-> Nil]

-----------------------------------------------------------------------------
(* Variables and upvalues. *)

Lua(fs) == {i \in 1..Len(fs) : fs[i].kind = "Lua"}
FreeCells ==
  Cells \ ({cell_of[u] : u \in used}
           \cup UNION {{frames[i].locals[k] : k \in 1..Len(frames[i].locals)} : i \in Lua(frames)})
NewCells(n) ==
  CHOOSE cs \in [1..n -> FreeCells] : \A i, j \in 1..n : cs[i] = cs[j] => i = j

\* Mutant: an upvalue at the index itself counts as below.
PositionAfter(ind) == Cardinality({i \in 1..Len(open_upvalues) : upval[open_upvalues[i]].ind <= ind})

\* binary_search_by: how many open upvalues lie below a stack index.
Position(ind) == Cardinality({i \in 1..Len(open_upvalues) : upval[open_upvalues[i]].ind < ind})

\* close_upvalues: every upvalue from `bottom` on takes its value with it.
CloseFrom(bottom) ==
  LET start == Position(bottom)
      closing == {open_upvalues[i] : i \in (start + 1)..Len(open_upvalues)}
  IN /\ upval' = [u \in UpVals |->
           IF u \in closing THEN [open |-> FALSE, ind |-> 0, val |-> stack[upval[u].ind + 1]]
                            ELSE upval[u]]
     /\ open_upvalues' = Truncate(open_upvalues, start)
     /\ UNCHANGED <<used, cell_of>>

UpValueOf(u) == IF upval[u].open THEN stack[upval[u].ind + 1] ELSE upval[u].val

-----------------------------------------------------------------------------
(* push_call and return_to. *)

RotateRight(s, n) == From(s, Len(s) - n) \o Truncate(s, Len(s) - n)

\* The extra arguments are moved below the fixed ones, which start the window.
PushCall(fs, st, bottom, fn, fixed) ==
  LET args == From(st, bottom)
      var == IF Len(args) > fixed THEN Len(args) - fixed ELSE 0
      base == bottom + var
      cs == NewCells(fixed)
  IN IF fn = Cb
     THEN frames' = Append(fs, Plain("Callback", bottom)) /\ stack' = st /\ UNCHANGED mem
     ELSE /\ frames' = Append(fs, [Plain("Lua", bottom) EXCEPT
                 !.base = base, !.size = StackSize, !.fn = fn, !.locals = cs,
                 !.extra = From(args, fixed)])
          /\ stack' = Resize(Truncate(st, bottom) \o RotateRight(args, var), base + StackSize)
          /\ mem' = [c \in Cells |->
                 IF \E i \in 1..fixed : cs[i] = c
                 THEN Resize(args, fixed)[CHOOSE i \in 1..fixed : cs[i] = c] ELSE mem[c]]

\* Room for the frame that a call pushes, and for its parameters.
Room(fs, fixed) == Len(fs) < MaxFrames /\ fixed <= Cardinality(FreeCells)

\* A frame gets its whole window back.
Window(st, g) == Resize(st, g.base + g.size)

\* Values on the stack from `bottom` on go to the frame that is now on top.
ReturnTo(fs, st, bottom) ==
  LET g == Top(fs)
      n == g.expect.n
      val == IF Len(st) > bottom THEN st[bottom + 1] ELSE Nil
      full == Window(Truncate(st, bottom), g)
      done(var) == SetTop(fs, [g EXCEPT !.expect = Expect("None", 0), !.is_variable = var])
  IN \/ fs = << >> /\ frames' = << Plain("Result", bottom) >> /\ stack' = st /\ UNCHANGED mem
     \/ fs # << >> /\ g.kind = "Sequence" /\ frames' = fs /\ stack' = st /\ UNCHANGED mem
     \/ /\ fs # << >> /\ g.kind = "Lua"
        /\ \/ /\ g.expect.tag = "Normal" /\ n = Variable
              /\ frames' = done(TRUE) /\ stack' = st
              /\ UNCHANGED mem
           \/ /\ g.expect.tag = "Normal" /\ n # Variable
              /\ frames' = done(FALSE)
              /\ stack' = Window(Truncate(st, bottom + n), g)
              /\ UNCHANGED mem
           \/ /\ g.expect.tag = "MetaNone"
              /\ frames' = done(FALSE) /\ stack' = full
              /\ UNCHANGED mem
           \/ /\ g.expect.tag = "MetaRegister"
              /\ frames' = done(FALSE) /\ stack' = Write(full, g.base + n, val)
              /\ mem' = IF n < Len(g.locals) THEN [mem EXCEPT ![g.locals[n + 1]] = val] ELSE mem

-----------------------------------------------------------------------------
(* Instructions of the Lua frame on top.  The compiler keeps the variables  *)
(* in the first registers and evaluates operands above them, just before    *)
(* the instruction that consumes them: the two are one action here.  A      *)
(* variable number of values is consumed by the next instruction.           *)

InLua == frames # << >> /\ f.kind = "Lua"
Fixed == InLua /\ ~f.is_variable
\* Mutant: a register is counted from the bottom of the frame.
RegisterFromBottom(r) == f.bottom + r
Register(r) == f.base + r

Registers == 0..(StackSize - 1)
Locals == 0..(nact - 1)
Temporaries == nact..(StackSize - 1)
Readable == IF InLua THEN {Cb} \cup {stack[Register(r) + 1] : r \in Locals} ELSE {}

\* Operands in the registers from the first temporary on.
Operands == IF Fixed THEN SeqsOf(Readable, 0..(StackSize - nact)) ELSE {<< >>}
Evaluated(vals) ==
  LET at == Register(nact) IN
  [i \in 1..Len(stack) |-> IF i \in (at + 1)..(at + Len(vals)) THEN vals[i - at] ELSE stack[i]]

Store(r, v) ==
  /\ stack' = Write(stack, Register(r), v)
  /\ mem' = IF r < nact THEN [mem EXCEPT ![f.locals[r + 1]] = v] ELSE mem

\* An instruction that leaves a constant, another register or the result of an
\* operation in a variable.
SetRegister(r, v) ==
  /\ Fixed /\ r \in Locals
  /\ Store(r, v)
  /\ UNCHANGED <<frames, upvalues>>

\* A `local` statement: the lowest temporary becomes a variable.
DeclareLocal(v) ==
  /\ Fixed /\ nact < StackSize /\ FreeCells # {}
  /\ stack' = Evaluated(<<v>>)
  /\ LET c == NewCells(1)[1] IN
       /\ frames' = SetTop(frames, [f EXCEPT !.locals = Append(@, c)])
       /\ mem' = [mem EXCEPT ![c] = v]
  /\ UNCHANGED upvalues

\* A block ends: Jump closes the upvalues of its variables.
JumpClose(n) ==
  /\ Fixed /\ n < nact
  /\ CloseFrom(Register(n))
  /\ frames' = SetTop(frames, [f EXCEPT !.locals = Truncate(@, n)])
  /\ UNCHANGED <<stack, mem>>

GetUpValue(dest) ==
  /\ Fixed /\ f.fn \in UpVals /\ dest \in Locals
  /\ Store(dest, UpValueOf(f.fn))
  /\ UNCHANGED <<frames, upvalues>>

SetUpValue(source) ==
  /\ Fixed /\ f.fn \in UpVals /\ source \in Locals
  /\ LET u == f.fn  v == stack[Register(source) + 1] IN
       /\ IF upval[u].open
          THEN stack' = Write(stack, upval[u].ind, v) /\ UNCHANGED upval
          ELSE upval' = [upval EXCEPT ![u].val = v] /\ UNCHANGED stack
       /\ mem' = [mem EXCEPT ![cell_of[u]] = v]
  /\ UNCHANGED <<frames, open_upvalues, used, cell_of>>

Insert(s, i, u) == Truncate(s, i) \o <<u>> \o From(s, i)

\* Closure over a variable of this frame: open_upvalue shares the upvalue that
\* is open on the register, or inserts a new one in the order of the indices.
ClosureParentLocal(reg, dest) ==
  LET ind == Register(reg)
      i == Position(ind)
      found == i < Len(open_upvalues) /\ upval[open_upvalues[i + 1]].ind = ind
  IN /\ Fixed /\ reg \in Locals /\ dest \in Locals
     /\ \/ /\ found /\ Store(dest, open_upvalues[i + 1])
           /\ UNCHANGED <<open_upvalues, upval, used, cell_of>>
        \/ /\ ~found /\ used # UpVals
           /\ LET u == CHOOSE u \in UpVals \ used : TRUE IN
                /\ upval' = [upval EXCEPT ![u] = [open |-> TRUE, ind |-> ind, val |-> Nil]]
                /\ open_upvalues' = Insert(open_upvalues, i, u)
                /\ used' = used \cup {u}
                /\ cell_of' = [cell_of EXCEPT ![u] = f.locals[reg + 1]]
                /\ Store(dest, u)
     /\ UNCHANGED frames

\* Closure over a variable that this closure has captured itself.
ClosureOuter(dest) ==
  /\ Fixed /\ f.fn \in UpVals /\ dest \in Locals
  /\ Store(dest, f.fn)
  /\ UNCHANGED <<frames, upvalues>>

\* The variable arguments go after `vals`.
VarArgs(vals, count) ==
  LET len == f.base - f.bottom
      st == Evaluated(vals)
      at == Register(nact + Len(vals))
  IN /\ Fixed
     /\ \/ /\ count # Variable /\ nact + Len(vals) + count <= StackSize
           /\ stack' = [i \in 1..Len(st) |->
                  IF i - 1 \in at..(at + count - 1)
                  THEN (IF i - 1 - at < len THEN st[f.bottom + i - at] ELSE Nil)
                  ELSE st[i]]
           /\ UNCHANGED frames
        \/ /\ count = Variable
           /\ frames' = SetTop(frames, [f EXCEPT !.is_variable = TRUE])
           /\ stack' = Truncate(st, at) \o SubSeq(st, f.bottom + 1, f.base)
     /\ UNCHANGED <<mem, upvalues>>

\* SetList: the values go to the table in register `base`, the next index to the
\* register after it.
SetList(base, count) ==
  LET start_ind == Register(base) + 1 IN
  /\ InLua /\ f.is_variable = (count = Variable)
  /\ base \in Temporaries /\ start_ind < Len(stack)
  /\ count # Variable => base + 2 + count <= StackSize
  /\ stack' = LET s == Write(stack, start_ind, Cb) IN
              IF count = Variable THEN Window(s, f) ELSE s
  /\ frames' = SetTop(frames, [f EXCEPT !.is_variable = FALSE])
  /\ UNCHANGED <<mem, upvalues>>

\* The function is in a temporary; its arguments, a constant number or all that
\* there are, end the operands.
ArgCount(fi, args) == IF args = Variable THEN Len(stack) - fi - 1 ELSE args
Callable(vals, func, args) ==
  /\ InLua /\ f.is_variable = (args = Variable)
  /\ func \in Temporaries /\ Register(func) < Len(stack)
  /\ args # Variable => func + 1 + args = nact + Len(vals)
  /\ Evaluated(vals)[Register(func) + 1] \in Functions

CallFunction(vals, func, args, returns, fixed) ==
  LET fi == Register(func)  st == Evaluated(vals) IN
  /\ Callable(vals, func, args) /\ Room(frames, fixed)
  /\ returns # Variable => func + returns <= StackSize
  /\ PushCall(SetTop(frames, [f EXCEPT !.expect = Expect("Normal", returns)]),
              Truncate(Truncate(st, fi) \o From(st, fi + 1), fi + ArgCount(fi, args)),
              fi, st[fi + 1], fixed)
  /\ UNCHANGED upvalues

\* GenericForCall: function and arguments stay, results go after them.
CallFunctionKeep(vals, func, returns, fixed) ==
  LET fi == Register(func)  top == fi + 1 + KeepArgs  st == Evaluated(vals) IN
  /\ Callable(vals, func, KeepArgs) /\ Room(frames, fixed)
  /\ func + 1 + KeepArgs + returns <= StackSize
  /\ PushCall(SetTop(frames, [f EXCEPT !.expect = Expect("Normal", returns)]),
              Truncate(st, top) \o SubSeq(st, fi + 2, top), top, st[fi + 1], fixed)
  /\ UNCHANGED upvalues

\* Any instruction that ends in a metamethod.
CallMetaFunction(fn, args, ret, fixed) ==
  /\ Fixed /\ Room(frames, fixed) /\ ret.n < StackSize
  /\ PushCall(SetTop(frames, [f EXCEPT !.expect = ret]), stack \o args, Len(stack), fn, fixed)
  /\ UNCHANGED upvalues

TailCallStack(vals, func, args) ==
  LET fi == Register(func)  n == ArgCount(fi, args) IN
  Truncate(CopyWithin(Evaluated(vals), fi + 1, n, f.bottom), f.bottom + n)

TailCallFunction(vals, func, args, fixed) ==
  /\ Callable(vals, func, args) /\ Room(Pop(frames), fixed)
  /\ CloseFrom(f.bottom)
  /\ PushCall(Pop(frames), TailCallStack(vals, func, args), f.bottom,
              Evaluated(vals)[Register(func) + 1], fixed)

\* The results are variables, or the operands.
Returnable(vals, start, count) ==
  /\ InLua /\ f.is_variable = (count = Variable)
  /\ start \in Registers /\ Register(start) <= Len(stack)
  /\ count # Variable => start + count <= nact + Len(vals)
ReturnStack(vals, start, count) ==
  LET at == Register(start)
      n == IF count = Variable THEN Len(stack) - at ELSE count
  IN Truncate(CopyWithin(Evaluated(vals), at, n, f.bottom), f.bottom + n)

ReturnUpper(vals, start, count) ==
  /\ Returnable(vals, start, count)
  /\ CloseFrom(f.bottom)
  /\ ReturnTo(Pop(frames), ReturnStack(vals, start, count), f.bottom)

\* An instruction fails.
VMError ==
  /\ InLua
  /\ frames' = Append(frames, Plain("Error", Len(stack)))
  /\ UNCHANGED <<stack, mem, upvalues>>

Instruction ==
  \/ \E v \in Readable : DeclareLocal(v) \/ \E r \in Registers : SetRegister(r, v)
  \/ \E n \in Registers : JumpClose(n) \/ GetUpValue(n) \/ SetUpValue(n) \/ ClosureOuter(n)
  \/ \E r, d \in Registers : ClosureParentLocal(r, d)
  \/ \E r \in Registers, n \in Counts : SetList(r, n)
  \/ \E vals \in Operands, r \in Registers, n \in 0..StackSize, p \in FixedParams :
       CallFunctionKeep(vals, r, n, p)
  \/ \E vals \in Operands, n \in Counts :
       \/ VarArgs(vals, n)
       \/ \E r \in Registers : ReturnUpper(vals, r, n)
       \/ \E r \in Registers, p \in FixedParams : TailCallFunction(vals, r, n, p)
       \/ \E r \in Registers, m \in Counts, p \in FixedParams : CallFunction(vals, r, n, m, p)
  \/ \E fn \in Functions, args \in Given, p \in FixedParams :
       \E ret \in {Expect("MetaNone", 0)} \cup {Expect("MetaRegister", r) : r \in Registers} :
         CallMetaFunction(fn, args, ret, p)
  \/ VMError

-----------------------------------------------------------------------------
(* A callback or a sequence on top: it owns the stack from its bottom on,   *)
(* and leaves `vals` there.                                                 *)

InNative == frames # << >> /\ f.kind \in {"Callback", "Sequence"}
Own(vals) == Truncate(stack, f.bottom) \o vals

\* The frame it leaves behind to be polled again, and where its call or yield
\* starts: a callback's sequence takes over all of the callback's values.
Behind(then) == IF then THEN Append(Pop(frames), Plain("Sequence", f.bottom)) ELSE Pop(frames)
StartsAt(then, rel, vals) ==
  /\ rel \in 0..Len(vals)
  /\ (f.kind = "Callback" \/ ~then) => rel = 0

NativeReturn(vals) ==
  /\ InNative
  /\ ReturnTo(Pop(frames), Own(vals), f.bottom)
  /\ UNCHANGED upvalues

NativePending(vals) ==
  /\ InNative
  /\ frames' = Behind(TRUE) /\ stack' = Own(vals)
  /\ UNCHANGED <<mem, upvalues>>

NativeCall(fn, then, rel, vals, fixed) ==
  /\ InNative /\ StartsAt(then, rel, vals) /\ Room(Behind(then), fixed)
  /\ PushCall(Behind(then), Own(vals), f.bottom + rel, fn, fixed)
  /\ UNCHANGED upvalues

\* do_yield to the resumer: the values wait in a Result frame.
NativeYield(then, rel, vals) ==
  /\ InNative /\ StartsAt(then, rel, vals)
  /\ frames' = Behind(then) \o << Plain("Yielded", f.bottom + rel), Plain("Result", f.bottom + rel) >>
  /\ stack' = Own(vals)
  /\ UNCHANGED <<mem, upvalues>>

\* Mutant: the value below the bottom is drained too.
NativeHandOverDrainsMore(then, rel, vals, kind) ==
  /\ InNative /\ StartsAt(then, rel, vals)
  /\ frames' = Append(Behind(then), Plain(kind, f.bottom + rel - 1))
  /\ stack' = Truncate(Own(vals), f.bottom + rel - 1)
  /\ UNCHANGED <<mem, upvalues>>

\* do_yield to a thread and do_resume: the values are drained to it.  A thread
\* that only waits to return what the other returns is dropped.
NativeHandOver(then, rel, vals, kind) ==
  /\ InNative /\ StartsAt(then, rel, vals)
  /\ frames' = IF kind = "WaitThread" /\ Behind(then) = << >> THEN << >>
               ELSE Append(Behind(then), Plain(kind, f.bottom + rel))
  /\ stack' = Truncate(Own(vals), f.bottom + rel)
  /\ UNCHANGED <<mem, upvalues>>

NativeError ==
  /\ InNative
  /\ frames' = SetTop(frames, Plain("Error", f.bottom))
  /\ stack' = Truncate(stack, f.bottom)
  /\ UNCHANGED <<mem, upvalues>>

Native ==
  \/ NativeError
  \/ \E vals \in Given : NativeReturn(vals) \/ NativePending(vals)
  \/ \E vals \in Given, then \in BOOLEAN : \E rel \in 0..Len(vals) :
       \/ NativeYield(then, rel, vals)
       \/ \E kind \in {"Yielded", "WaitThread", "Error"} : NativeHandOver(then, rel, vals, kind)
       \/ \E fn \in Functions, p \in FixedParams : NativeCall(fn, then, rel, vals, p)

-----------------------------------------------------------------------------
(* Unwinding, and the methods of Thread. *)

\* Mutant: values of the frame that failed stay on the stack.
UnwindKeepsValues ==
  LET above == Top(Pop(frames)) IN
  /\ Len(frames) > 1 /\ f.kind = "Error"
  /\ above.kind = "Lua"
  /\ CloseFrom(above.bottom)
  /\ frames' = SetTop(Pop(frames), Plain("Error", above.bottom))
  /\ UNCHANGED <<stack, mem>>

Unwind ==
  LET above == Top(Pop(frames)) IN
  /\ Len(frames) > 1 /\ f.kind = "Error"
  /\ \/ /\ above.kind = "Lua"
        /\ CloseFrom(above.bottom)
        /\ stack' = Truncate(stack, above.bottom)
        /\ frames' = SetTop(Pop(frames), Plain("Error", above.bottom))
     \/ /\ above.kind = "Sequence"
        /\ frames' = Pop(frames)
        /\ UNCHANGED <<stack, upvalues>>
  /\ UNCHANGED mem

Start(fn, args, fixed) ==
  /\ frames = << >> /\ Room(<< >>, fixed)
  /\ PushCall(<< >>, args, 0, fn, fixed)
  /\ UNCHANGED upvalues

StartSuspended(fn) ==
  /\ frames = << >>
  /\ frames' = << [Plain("Start", 0) EXCEPT !.fn = fn] >>
  /\ UNCHANGED <<stack, mem, upvalues>>

\* Thread::resume, and the executor handing results to a waiting thread.
ResumeStart(args, fixed) ==
  /\ frames # << >> /\ f.kind = "Start" /\ Room(<< >>, fixed)
  /\ PushCall(Pop(frames), stack \o args, 0, f.fn, fixed)
  /\ UNCHANGED upvalues

Resume(args) ==
  /\ frames # << >> /\ f.kind \in {"Yielded", "WaitThread"}
  /\ ReturnTo(Pop(frames), stack \o args, Len(stack))
  /\ UNCHANGED upvalues

ResumeErr ==
  /\ frames # << >> /\ f.kind \in {"Start", "Yielded", "WaitThread"}
  /\ frames' = SetTop(frames, Plain("Error", Len(stack)))
  /\ UNCHANGED <<stack, mem, upvalues>>

TakeResult ==
  /\ frames # << >>
  /\ f.kind = "Result" \/ (f.kind = "Error" /\ Len(frames) = 1)
  /\ frames' = Pop(frames)
  /\ stack' = IF f.kind = "Result" THEN Truncate(stack, f.bottom) ELSE stack
  /\ UNCHANGED <<mem, upvalues>>

\* ThreadState::reset.
Reset ==
  /\ frames # << >>
  /\ CloseFrom(0)
  /\ frames' = << >> /\ stack' = << >>
  /\ UNCHANGED mem

Host ==
  \/ \E fn \in Functions, args \in Given, p \in FixedParams : Start(fn, args, p)
  \/ \E fn \in Functions : StartSuspended(fn)
  \/ \E args \in Given : Resume(args) \/ \E p \in FixedParams : ResumeStart(args, p)
  \/ ResumeErr \/ TakeResult \/ Reset

Next == Instruction \/ Native \/ Unwind \/ Host

Spec == Init /\ [][Next]_vars

-----------------------------------------------------------------------------
(* What is checked. *)

FrameKinds == {"Lua", "Callback", "Sequence", "Start", "Yielded", "WaitThread", "Result", "Error"}
Frame ==
  [kind : FrameKinds, bottom : Nat, base : Nat, size : {0, StackSize}, is_variable : BOOLEAN,
   expect : [tag : Tags, n : Nat \cup {Variable}], fn : {Cb, Main} \cup UpVals,
   locals : Seq(Cells), extra : Seq(Values)]

TypeOK ==
  /\ frames \in Seq(Frame) /\ stack \in Seq(Values) /\ open_upvalues \in Seq(used)
  /\ upval \in [UpVals -> [open : BOOLEAN, ind : Nat, val : Values]]
  /\ used \subseteq UpVals /\ cell_of \in [UpVals -> Cells] /\ mem \in [Cells -> Values]

\* The arguments beyond the fixed ones stay below the window, in order.
VarArgsIntact ==
  \A i \in Lua(frames) : SubSeq(stack, frames[i].bottom + 1, frames[i].base) = frames[i].extra

\* Whatever a frame's callees did on the shared stack, each of its variables is
\* still in its register, with the value that was last assigned to it, by the
\* frame or through an upvalue, and so are the variable arguments.
LocalsIntact ==
  /\ \A i \in Lua(frames) : \A k \in 1..Len(frames[i].locals) :
       /\ frames[i].base + k <= Len(stack)
       /\ stack[frames[i].base + k] = mem[frames[i].locals[k]]
  /\ VarArgsIntact

\* A closure sees the variable it captured: the register while the variable is
\* in scope, the last value from then on, and all closures over it the same.
UpValueSeesVariable ==
  \A u \in used :
    (upval[u].open => upval[u].ind < Len(stack)) /\ UpValueOf(u) = mem[cell_of[u]]

\* open_upvalues is sorted by index without duplicates, as its binary searches
\* need, and every entry is open on a variable in scope.
OpenUpValuesSorted ==
  /\ \A i, j \in 1..Len(open_upvalues) :
       i < j => upval[open_upvalues[i]].ind < upval[open_upvalues[j]].ind
  /\ \A i \in 1..Len(open_upvalues) :
       LET u == open_upvalues[i] IN
       upval[u].open /\ \E k \in Lua(frames) :
         LET g == frames[k] IN
         \E r \in 1..Len(g.locals) : upval[u].ind = g.base + r - 1 /\ cell_of[u] = g.locals[r]
  /\ \A u \in used : upval[u].open => \E i \in 1..Len(open_upvalues) : open_upvalues[i] = u

\* get_upvalue and set_upvalue: "upvalues must be above the current Lua frame".
UpValuesAboveFrame ==
  \A i \in Lua(frames) :
    (frames[i].fn \in UpVals /\ upval[frames[i].fn].open) => upval[frames[i].fn].ind < frames[i].bottom

\* A frame that is about to run has its whole window, which call_meta_function
\* asserts, and nothing above it; each frame starts above the variables of the
\* one that called it.
WindowsNested ==
  /\ Fixed => Len(stack) = f.base + f.size
  /\ \A i \in 1..(Len(frames) - 1) :
       frames[i + 1].kind # "Error" =>
         (frames[i].kind = "Lua" => frames[i].base + Len(frames[i].locals) <= frames[i + 1].bottom)

\* mode and take_result: a stopped thread, and one whose error is to be taken,
\* has an empty stack and no open upvalue.
StoppedThreadEmpty ==
  (frames = << >> \/ (Len(frames) = 1 /\ f.kind = "Error")) =>
    stack = << >> /\ open_upvalues = << >>

\* What thread.rs asserts of the stack and of open_upvalues, and what its binary
\* searches rely on, in one property.
StackAsserts == OpenUpValuesSorted /\ UpValuesAboveFrame /\ WindowsNested /\ StoppedThreadEmpty
=============================================================================
