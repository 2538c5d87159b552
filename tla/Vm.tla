---------------------------------- MODULE Vm ----------------------------------
(***************************************************************************)
(* From a program's tokens to what it does: the parser, the compiler, the  *)
(* encoding of its instructions, and thread/vm.rs with the stack protocol  *)
(* of thread/thread.rs.  LuaMeaning says what the program should do.       *)
(*                                                                         *)
(* A program is the body of a function with parameters a and b, varargs    *)
(* and an upvalue u.  Functions that it calls, and metamethods, are events *)
(* of the world; each is over when the next instruction runs.              *)
(***************************************************************************)
EXTENDS Parser, Expressions, Opcode, LuaMeaning, LuaSyntax

CONSTANTS
  Programs,
  Lasting         \* after how many events of the world results may start to be nil

VARIABLES
  program,        \* its source, a sequence of statements
  stage,          \* tokens, parsed, running, returned or an error
  ast,            \* the parsed chunk
  proto,          \* the compiled function
  pc, stack,      \* of its Lua frame; the stack from the frame's base on
  is_variable,    \* the stack ends where the last call's results or varargs end
  upvalues,       \* their values, by name
  world,          \* what happened outside
  ret             \* what the function returned

frame == <<pc, stack, is_variable, upvalues, world, ret>>
vars == <<program, stage, ast, proto, frame>>

Arguments0 == [a |-> Object("a"), b |-> Nil]
UpValues0 == [u |-> Object("u"), _ENV |-> Object("_ENV")]
VarArgs0 == <<Object("v1"), Object("v2")>>

Init ==
  /\ program \in Programs /\ stage = "tokens" /\ ast = << >> /\ proto = << >>
  /\ pc = 0 /\ stack = << >> /\ is_variable = FALSE /\ upvalues = UpValues0
  /\ world \in {World(n) : n \in Lasting} /\ ret = << >>

Read(r) == stage' = (IF r.e = "" THEN "parsed" ELSE r.e) /\ ast' = r.v
Parse == stage = "tokens" /\ Read(parse_chunk(ChunkTokens(program))) /\ UNCHANGED <<program, proto, frame>>

\* Mutant: it is left as it is.
ResizeNot(s, P) == s
\* The stack of a new frame is filled up to the size the prototype asks for.
Resize(s, P) == [i \in 1..P.alloc.stack_size |-> IF i <= Len(s) THEN s[i] ELSE Nil]

\* The chunk is compiled; the function it returns is loaded and called.
Enter(P) ==
  /\ proto' = [P EXCEPT !.ops = [i \in 1..Len(@) |-> encode(@[i])]]
  /\ stack' = Resize(<<Arguments0.a, Arguments0.b>>, P)
Start(C) ==
  IF C.err # "none" THEN stage' = C.err /\ UNCHANGED <<proto, stack>>
  ELSE stage' = "running" /\ Enter(SelectSeq(C.ops, LAMBDA op : op.k = "Closure")[1].proto)
Compile ==
  /\ stage = "parsed" /\ Start(compile_chunk(ast)) /\ ast' = << >>
  /\ UNCHANGED <<program, pc, is_variable, upvalues, world, ret>>

-----------------------------------------------------------------------------
(* run_vm: one action per operation. *)

I == decode(proto.ops[pc + 1])

\* An instruction of this kind is next.
At(kinds) == stage = "running" /\ pc < Len(proto.ops) /\ I.k \in kinds
Skip(n) == pc' = pc + 1 + n
Exists(r) == r + 1 \in 1..Len(stack)
Reg(r) == stack[r + 1]
get_rc(o) == IF o[1] = "R" THEN Reg(o[2]) ELSE proto.consts[o[2] + 1]
up(i) == proto.upvalues[i + 1].name
Write(r, v) == stack' = [stack EXCEPT ![r + 1] = v]
\* A value, or what a metamethod returned, for a register.
Result(e, r) == Write(r, e.v) /\ world' = e.E
SkipIf(e, b) == Skip(IF to_bool(e.v) = b THEN 1 ELSE 0) /\ world' = e.E

Unchanged == UNCHANGED <<program, stage, ast, proto, ret>>
OnlyStack == UNCHANGED <<is_variable, upvalues, world>> /\ Unchanged
OnlyWorld == UNCHANGED <<is_variable, upvalues>> /\ Unchanged

Move == At({"Move"}) /\ Skip(0) /\ Write(I.dest, Reg(I.source)) /\ OnlyStack
LoadConstant == At({"LoadConstant"}) /\ Skip(0) /\ Write(I.dest, proto.consts[I.constant + 1]) /\ OnlyStack
LoadBool ==
  /\ At({"LoadBool"}) /\ Skip(IF I.skip_next THEN 1 ELSE 0)
  /\ Write(I.dest, Bool(I.value)) /\ OnlyStack
LoadNil ==
  /\ At({"LoadNil"}) /\ Skip(0) /\ OnlyStack
  /\ stack' = [i \in 1..Len(stack) |-> IF i - 1 \in I.dest..(I.dest + I.count - 1) THEN Nil ELSE stack[i]]

NewTableStep == At({"NewTable"}) /\ Skip(0) /\ Result(NewTable(world), I.dest) /\ OnlyWorld
GetTable ==
  At({"GetTable"}) /\ Skip(0) /\ Result(Index(world, Reg(I.table), get_rc(I.key)), I.dest) /\ OnlyWorld
SetTable ==
  /\ At({"SetTable"}) /\ Skip(0) /\ UNCHANGED stack /\ OnlyWorld
  /\ world' = NewIndex(world, Reg(I.table), get_rc(I.key), get_rc(I.value))
GetUpTable ==
  /\ At({"GetUpTable"}) /\ Skip(0) /\ OnlyWorld
  /\ Result(Index(world, upvalues[up(I.table)], get_rc(I.key)), I.dest)
SetUpTable ==
  /\ At({"SetUpTable"}) /\ Skip(0) /\ UNCHANGED stack /\ OnlyWorld
  /\ world' = NewIndex(world, upvalues[up(I.table)], get_rc(I.key), get_rc(I.value))

\* The values above a register, a given number or all that there are.
Above(r, count) == IF count = Variable THEN SubSeq(stack, r + 2, Len(stack)) ELSE SubSeq(stack, r + 2, r + 1 + count)

SetListStep ==
  LET vs == Above(I.base + 1, I.count)
      start == Reg(I.base + 1)[2]
      set(E, i) == NewIndex(E, Reg(I.base), Integer(start + i), vs[i])
      counted == [stack EXCEPT ![I.base + 2] = Integer(start + Len(vs))]
  IN /\ At({"SetList"}) /\ Skip(0) /\ UNCHANGED upvalues /\ Unchanged
     /\ is_variable = (I.count = Variable) /\ is_variable' = FALSE
     /\ world' = FoldLeft(set, world, [i \in 1..Len(vs) |-> i])
     /\ stack' = IF is_variable THEN Resize(counted, proto) ELSE counted

\* The results take the place of the function and of all above it.
CallStep ==
  LET c == CallValue(world, Reg(I.func), Above(I.func, I.args))
      below == SubSeq(stack, 1, I.func)
  IN /\ At({"Call"}) /\ Skip(0) /\ UNCHANGED upvalues /\ Unchanged
     /\ is_variable = (I.args = Variable) /\ is_variable' = (I.returns = Variable)
     /\ world' = c.E
     /\ stack' = IF I.returns = Variable THEN below \o c.vs
                 ELSE Resize(below \o Adjust(c.vs, I.returns), proto)

VarArgsStep ==
  LET n == IF I.count = Variable THEN Len(VarArgs0) ELSE I.count
      at(i) == i - 1 - I.dest
  IN /\ At({"VarArgs"}) /\ Skip(0) /\ ~is_variable /\ is_variable' = (I.count = Variable)
     /\ stack' = IF I.count = Variable THEN SubSeq(stack, 1, I.dest) \o VarArgs0
                 ELSE [i \in 1..Len(stack) |->
                         IF at(i) \in 0..(n - 1) THEN Adjust(VarArgs0, n)[at(i) + 1] ELSE stack[i]]
     /\ UNCHANGED <<upvalues, world>> /\ Unchanged

Finished(vs) == ret' = vs /\ stage' = "returned" /\ UNCHANGED <<program, ast, proto, upvalues>>
TailCallStep ==
  LET c == CallValue(world, Reg(I.func), Above(I.func, I.args))
  IN /\ At({"TailCall"}) /\ is_variable = (I.args = Variable)
     /\ world' = c.E /\ Finished(c.vs) /\ UNCHANGED <<pc, stack, is_variable>>
ReturnStep ==
  /\ At({"Return"}) /\ is_variable = (I.count = Variable)
  /\ Finished(Above(I.start - 1, I.count)) /\ UNCHANGED <<pc, stack, is_variable, world>>

\* The world and all else stay as they are when a loop has no numbers.
Fails == stage' = "error" /\ UNCHANGED <<program, ast, proto, frame>>

\* Closing upvalues changes no value.
JumpStep == At({"Jump"}) /\ Skip(I.offset) /\ UNCHANGED stack /\ OnlyStack
Test ==
  /\ At({"Test"}) /\ Skip(IF to_bool(Reg(I.value)) = I.is_true THEN 1 ELSE 0)
  /\ UNCHANGED stack /\ OnlyStack
TestSet ==
  /\ At({"TestSet"}) /\ OnlyStack
  /\ IF to_bool(Reg(I.value)) = I.is_true THEN Skip(1) /\ UNCHANGED stack
     ELSE Skip(0) /\ Write(I.dest, Reg(I.value))

\* A closure is known by the value of the variable that it captures.
Closure ==
  LET d == I.proto.upvalues[1].desc
  IN /\ At({"Closure"}) /\ Skip(0) /\ OnlyStack
     /\ Write(I.dest, <<"function", IF d[1] = "ParentLocal" THEN Reg(d[2]) ELSE upvalues[up(d[2])]>>)

\* raw_subtract, then the loop; only integers are numbers here.
NumericForPrep ==
  LET i == Reg(I.base) step == Reg(I.base + 2)
  IN /\ At({"NumericForPrep"})
     /\ IF CanFold("Sub", i, step)
        THEN Skip(I.jump) /\ Write(I.base, Fold("Sub", i, step)) /\ OnlyStack
        ELSE Fails
Overflow(sum) == sum # Wrap(sum)
PastEnd(sum, limit, step) == Overflow(sum) \/ IF step < 0 THEN Wrap(sum) < limit ELSE Wrap(sum) > limit
NumericForLoop ==
  LET i == Reg(I.base) limit == Reg(I.base + 1) step == Reg(I.base + 2)
      sum == i[2] + step[2]
      index == Integer(Wrap(sum))
  IN /\ At({"NumericForLoop"})
     /\ IF {i[1], limit[1], step[1]} # {"int"} THEN Fails
        ELSE /\ OnlyStack
             /\ IF PastEnd(sum, limit[2], step[2]) THEN Skip(0) /\ Write(I.base, index)
                ELSE Skip(I.jump) /\ stack' = [stack EXCEPT ![I.base + 1] = index, ![I.base + 4] = index]

\* The function is called with copies of the two values after it.
GenericForCall ==
  LET c == CallValue(world, Reg(I.base), Above(I.base, 2))
  IN /\ At({"GenericForCall"}) /\ Skip(0) /\ ~is_variable /\ world' = c.E /\ OnlyWorld
     /\ stack' = Resize(SubSeq(stack, 1, I.base + 3) \o Adjust(c.vs, I.var_count), proto)
GenericForLoop ==
  /\ At({"GenericForLoop"}) /\ OnlyStack
  /\ IF to_bool(Reg(I.base + 1)) THEN Skip(I.jump) /\ Write(I.base, Reg(I.base + 1))
     ELSE Skip(0) /\ UNCHANGED stack

MethodStep ==
  LET m == Index(world, Reg(I.table), get_rc(I.key))
  IN /\ At({"Method"}) /\ Skip(0) /\ world' = m.E /\ OnlyWorld
     /\ stack' = [stack EXCEPT ![I.base + 2] = Reg(I.table), ![I.base + 1] = m.v]
ConcatStep ==
  At({"Concat"}) /\ Skip(0) /\ Result(ConcatMany(world, Above(I.source - 1, I.count)), I.dest) /\ OnlyWorld

GetUpValue == At({"GetUpValue"}) /\ Skip(0) /\ Write(I.dest, upvalues[up(I.source)]) /\ OnlyStack
SetUpValue ==
  /\ At({"SetUpValue"}) /\ Skip(0) /\ upvalues' = [upvalues EXCEPT ![up(I.dest)] = Reg(I.source)]
  /\ UNCHANGED <<stack, is_variable, world>> /\ Unchanged

CompareStep ==
  /\ At(CompareOps) /\ UNCHANGED stack /\ OnlyWorld
  /\ SkipIf(Relate(world, I.k, get_rc(I.left), get_rc(I.right)), I.skip_if)
Not == At({"Not"}) /\ Skip(0) /\ Write(I.dest, Bool(~to_bool(Reg(I.source)))) /\ OnlyStack
UnaryStep ==
  LET op == CHOOSE o \in DOMAIN UnaryOps : UnaryOps[o] = I.k
  IN /\ At({"Minus", "BitNot", "Length"}) /\ Skip(0) /\ OnlyWorld
     /\ Result(OperateUnary(world, op, Reg(I.source)), I.dest)
BinaryStep ==
  /\ At(ArithOps) /\ Skip(0) /\ OnlyWorld
  /\ Result(Operate(world, I.k, get_rc(I.left), get_rc(I.right)), I.dest)

Over == stage \notin {"tokens", "parsed", "running"} /\ UNCHANGED vars

Next ==
  \/ Parse \/ Compile
  \/ Move \/ LoadConstant \/ LoadBool \/ LoadNil
  \/ NewTableStep \/ GetTable \/ SetTable \/ GetUpTable \/ SetUpTable \/ SetListStep
  \/ CallStep \/ TailCallStep \/ ReturnStep \/ VarArgsStep
  \/ JumpStep \/ Test \/ TestSet \/ Closure
  \/ NumericForPrep \/ NumericForLoop \/ GenericForCall \/ GenericForLoop \/ MethodStep \/ ConcatStep
  \/ GetUpValue \/ SetUpValue \/ CompareStep \/ Not \/ UnaryStep \/ BinaryStep
  \/ Over

Spec == Init /\ [][Next]_vars

-----------------------------------------------------------------------------
\* The stages follow each other, control stays in the code, and between
\* variable numbers of values the stack has the size that the prototype asks for.
TypeOK ==
  /\ stage \in {"tokens", "parsed", "running", "returned", "error", "Registers", "panic", "EndOfStream",
               "Unexpected", "RecursionLimit", "AssignToExpression", "ExpressionNotStatement"}
  /\ is_variable \in BOOLEAN /\ pc \in Nat
  /\ stage = "running" =>
       /\ pc < Len(proto.ops)
       /\ is_variable \/ Len(stack) = proto.alloc.stack_size

\* The parser accepts what is written, and the compiler needs no more registers
\* than the deepest of its expressions: none of its asserts fails, no register
\* is freed twice, and none is left when a function is finished.
ProgramsCompile == stage \in {"tokens", "parsed", "running", "returned", "error"}

\* What an instruction relies on and the machine checks, or does not check: the
\* registers it names are on the stack, and exactly the instruction after a
\* variable number of values takes them all.
Count(i) ==
  CASE i.k \in {"SetList", "Return"} -> i.count [] i.k \in {"Call", "TailCall"} -> i.args [] OTHER -> 0
Fields(k) ==                                    \* its operands that are registers
  CASE k \in {"Move", "Not", "Minus", "BitNot", "Length", "Concat"} -> {"dest", "source"}
    [] k = "GetTable" -> {"dest", "table"}
    [] k = "SetTable" -> {"table"}
    [] k = "SetUpValue" -> {"source"}
    [] k = "Test" -> {"value"}
    [] k = "TestSet" -> {"dest", "value"}
    [] k = "Method" -> {"base", "table"}
    [] k = "SetList" -> {"base"}
    [] k \in {"Call", "TailCall"} -> {"func"}
    [] k \in {"NumericForPrep", "NumericForLoop", "GenericForCall", "GenericForLoop"} -> {"base"}
    [] k \in CompareOps \cup {"SetUpTable", "Jump", "Return"} -> {}
    [] k = "VarArgs" -> IF I.count = Variable THEN {} ELSE {"dest"}
    [] OTHER -> {"dest"}
RCFields(k) ==                                 \* and those that may be
  CASE k \in KeyOps -> {"key"} [] k \in KeyValueOps -> {"key", "value"}
    [] k \in CompareOps \cup ArithOps -> {"left", "right"} [] OTHER -> {}
Registers(i) ==
  {i[f] : f \in Fields(i.k)} \cup {i[f][2] : f \in {g \in RCFields(i.k) : i[g][1] = "R"}}
StackProtocol ==
  stage = "running" =>
    /\ is_variable = (Count(I) = Variable)
    /\ \A r \in Registers(I) : Exists(r)

\* The compiled program does what its source means: the same calls, accesses and
\* metamethods with the same operands in the same order, the same tables, the
\* same upvalues and the same results, or an error at the same point.
Expected ==
  LET L == [loc |-> Arguments0, up |-> UpValues0, va |-> VarArgs0]
  IN Perform(<<"statements">>, After(World(world.lasts), L, "", << >>), program)
SameAs(m) ==
  /\ world = m.E /\ upvalues = m.L.up
  /\ IF stage = "error" THEN m.out = "error" ELSE m.out \in {"", "return"} /\ ret = m.ret
MeaningPreserved == stage \in {"returned", "error"} => SameAs(Expected)
=============================================================================
