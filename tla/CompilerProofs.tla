--------------------------- MODULE CompilerProofs ---------------------------
(***************************************************************************)
(* Theorems about functions being compiled (Statements) and their code     *)
(* (CompiledCode), for any names, labels, budgets and number of registers. *)
(***************************************************************************)
EXTENDS CompiledCode, StackLemmas

-----------------------------------------------------------------------------
(* What a function being compiled is made of. *)

Regs == 0..(NumRegs - 1)
Variable == Int \X Int
AllNames == Names \cup {"_ENV"}
Label == ({"unique", "break", "none"} \X Nat) \cup ({"named"} \X Labels)
Loops == {"for", "forin"}
Functions == {"function", "localfunction"}

Alloc == [registers : SUBSET Nat, first_free : Nat, stack_top : Nat, stack_size : Nat]
Local == [name : Names, reg : Regs, attr : {"none", "const"}, var : Variable]
UpValue == [name : AllNames, desc : {"Environment", "ParentLocal", "Outer"} \X Nat]
Block == [stack_bottom : Nat, bottom_jump_target : Nat, owns_upvalues : BOOLEAN]
Target == [label : Label, instruction : Nat, stack_top : Nat, block_index : Int]
Pending == [label : Label, instruction : Nat, block_index : Int, stack_top : Nat,
            close_upvalues : BOOLEAN]
JumpInstr == [k : {"Jump"}, offset : Int, close : Int]
VarInstr == [k : {"Temp", "Test", "Decl", "Use", "SetUp", "Return", "ForPrep", "ForLoop",
                  "ForCall", "ForTest", "Closure"},
             reg : {None} \cup Regs, var : Variable, offset : Int, caps : SUBSET (Regs \X Variable)]
Instr == JumpInstr \cup VarInstr
Context == [k : {"do", "while", "repeat", "if", "else", "chunk"} \cup Loops \cup Functions,
            ret : BOOLEAN, phase : {"body", "labels", "closed"}, after_label : BOOLEAN,
            a : Label, b : Label,
            base : Nat, prep : Nat, name : Names \cup {"none"}, dest : {None} \cup Regs]

Fun == [alloc : Alloc, locals : Seq(Local), upvalues : Seq(UpValue), blocks : Seq(Block),
        targets : Seq(Target), pending : Seq(Pending), ops : Seq(Instr), consts : {<< >>},
        next_label : Nat, params : Nat, ctx : Seq(Context), err : {"none"} \cup Errors]

-----------------------------------------------------------------------------
(* The invariant. *)

\* The registers in use are the first ones.  The last register of all is the one
\* whose number, plus one, wraps: pushing it does not mark it.
PackedTo(a, top) ==
  /\ a.stack_top = top /\ a.first_free = top
  /\ a.registers = (0..(top - 1)) \ {NumRegs - 1}
  /\ top <= NumRegs /\ a.stack_size \in top..NumRegs
Packed(a) == PackedTo(a, a.stack_top)

\* The registers of a loop that no name stands for.
Hidden(c) == IF c.k \in Loops THEN c.base..(c.base + 2) ELSE {}
HiddenIn(ctx) == UNION {Hidden(ctx[i]) : i \in 1..Len(ctx)}

\* Every register below the top is that of a local variable or a hidden one.
Ordered(ls) == \A i, j \in 1..Len(ls) : i < j => ls[i].reg < ls[j].reg
RegsOf(ls) == {ls[i].reg : i \in 1..Len(ls)}
LayoutTo(F, hidden, top) ==
  /\ Ordered(F.locals)
  /\ RegsOf(F.locals) \cap hidden = {}
  /\ RegsOf(F.locals) \cup hidden = 0..(top - 1)
Layout(F, hidden) == LayoutTo(F, hidden, F.alloc.stack_top)

\* An inner block starts no lower than an outer one, in registers and in labels.
Within(b, bottom, targets) == b.stack_bottom <= bottom /\ b.bottom_jump_target <= targets
Nested(F) ==
  /\ \A i, j \in 1..Len(F.blocks) :
       i < j => Within(F.blocks[i], F.blocks[j].stack_bottom, F.blocks[j].bottom_jump_target)
  /\ \A i \in 1..Len(F.blocks) : Within(F.blocks[i], F.alloc.stack_top, Len(F.targets))

\* How many blocks of a construct are open, and how they belong to constructs.
BlocksOf(c) ==
  (IF c.k \in Loops \cup {"repeat"} THEN 2 ELSE 1)
  + (IF ~c.ret /\ c.k # "repeat" /\ c.phase = "body" THEN 1 ELSE 0)
Shape(ctx, blocks, d) ==
  /\ d[0] = 0 /\ d[Len(ctx)] = Len(blocks)
  /\ \A i \in 1..Len(ctx) :
       /\ d[i] = d[i - 1] + BlocksOf(ctx[i])
       /\ ctx[i].k \in Loops =>
            /\ blocks[d[i - 1] + 1].stack_bottom = ctx[i].base + 3
            /\ \A j \in 1..d[i - 1] : blocks[j].stack_bottom <= ctx[i].base
Shaped(ctx, blocks) == \E d \in [0..Len(ctx) -> 0..Len(blocks)] : Shape(ctx, blocks, d)

\* The outermost construct of a function is the function itself.
Roots == {"chunk"} \cup Functions
Rooted(F) == F.ctx # << >> /\ \A i \in 1..Len(F.ctx) : F.ctx[i].k \in Roots <=> i = 1

\* No instruction leads out of the code, nor will one to a label or a loop.
Coded(F) ==
  /\ \A n \in 1..Len(F.ops) : n + F.ops[n].offset \in 0..Len(F.ops)
  /\ \A i \in 1..Len(F.targets) : F.targets[i].instruction <= Len(F.ops)

Looped(F) ==
  /\ \A i \in 1..Len(F.ctx) : F.ctx[i].prep <= Len(F.ops)
  /\ \A i \in 1..Len(F.ctx) : F.ctx[i].k \in Loops => F.ctx[i].base + 3 \in Regs

\* Sound, with `hidden` for the hidden registers.
Placed(F, hidden) ==
  /\ F \in Fun /\ F.err = "none" /\ Packed(F.alloc) /\ Layout(F, hidden) /\ Nested(F)
Sound(F) ==
  Placed(F, HiddenIn(F.ctx)) /\ Rooted(F) /\ Shaped(F.ctx, F.blocks) /\ Coded(F) /\ Looped(F)

\* An upvalue is the variable of its name in the function around it, if that has
\* one, and else the upvalue of its name there.
Linking(u, F) ==
  LET l == LocalOf(F, u.name)
  IN \/ u.desc[1] = "ParentLocal" /\ l # 0 /\ u.desc[2] = F.locals[l].reg
     \/ /\ u.desc[1] = "Outer" /\ l = 0
        /\ u.desc[2] + 1 \in 1..Len(F.upvalues) /\ F.upvalues[u.desc[2] + 1].name = u.name
Links(P, F) == \A j \in 1..Len(P.upvalues) : Linking(P.upvalues[j], F)
FirstLinks(F) == \A j \in 1..Len(F.upvalues) : F.upvalues[j].desc[1] = "Environment"
Linked(fs) ==
  /\ FirstLinks(fs[1])
  /\ \A k \in 2..Len(fs) : Links(fs[k], fs[k - 1])
Dests(fs) ==
  /\ fs[1].ctx[1].k = "chunk"
  /\ \A k \in 2..Len(fs) :
       fs[k].ctx[1].k = "localfunction" => fs[k].ctx[1].dest \in RegsOf(fs[k - 1].locals)

Compiling(fs) ==
  /\ fs \in Seq(Fun) /\ Len(fs) \in 1..MaxFunctions
  /\ \A k \in 1..Len(fs) : Sound(fs[k])
  /\ Linked(fs) /\ Dests(fs)

\* Code that is done.
DoneInstr == Instr \cup {[k |-> "Return", start |-> 0, count |-> 0]}
DoneCode(ops) ==
  /\ ops \in Seq(DoneInstr) /\ ops # << >> /\ Top(ops).k = "Return"
  /\ \A n \in 1..Len(ops) : ops[n].k # "Return" => n + ops[n].offset \in 0..Len(ops)

CompilerInv ==
  /\ result \in {"compiling", "ok"} \cup Errors
  /\ \A k \in DOMAIN left : left[k] \in Nat
  /\ Len(fns) \in 0..MaxFunctions
  /\ result = "compiling" => Compiling(fns)
  /\ result = "ok" /\ code = << >> => DoneCode(fns[1].ops)
  /\ result # "ok" => code = << >>
  /\ code = << >> => pc = Idle
  /\ code # << >> => DoneCode(code) /\ pc \in 0..Len(code)
  /\ open \subseteq Regs

-----------------------------------------------------------------------------
(* Choosing from sets of numbers and from sequences. *)

\* The number of a set that is above all the others is its maximum.
LEMMA MaxIs ==
  ASSUME NEW T \in SUBSET Int, NEW x \in T, \A y \in T : y <= x
  PROVE  Max(T) = x
<1>1. \A y \in T : x >= y
  OBVIOUS
<1>2. Max(T) \in T /\ \A y \in T : Max(T) >= y
  BY <1>1, Zenon DEF Max
<1>3. Max(T) \in Int /\ x \in Int /\ Max(T) >= x /\ Max(T) <= x
  BY <1>2
<1> QED
  BY <1>3

\* The number of a set that is below all the others is its minimum.
LEMMA MinIs ==
  ASSUME NEW T \in SUBSET Int, NEW x \in T, \A y \in T : x <= y
  PROVE  Min(T) = x
<1>1. Min(T) \in T /\ \A y \in T : Min(T) =< y
  BY Zenon DEF Min
<1>2. Min(T) \in Int /\ x \in Int /\ Min(T) <= x /\ Min(T) >= x
  BY <1>1
<1> QED
  BY <1>2

\* A bounded set of numbers has a greatest and a least one.
LEMMA Bounds ==
  ASSUME NEW n \in Nat, NEW T \in SUBSET (0..n), T # {}
  PROVE  /\ Max(T) \in T /\ \A y \in T : y <= Max(T)
         /\ Min(T) \in T /\ \A y \in T : Min(T) <= y
<1>1. PICK x \in T : \A y \in T : x <= y
  <2>1. T \in SUBSET Nat
    OBVIOUS
  <2> QED
    BY <2>1, Least
<1>2. Min(T) = x
  BY <1>1, MinIs
<1> DEFINE U == {m \in Nat : \A y \in T : y <= m}
<1>3. n \in U /\ U \in SUBSET Nat /\ U # {}
  BY SMTT(30)
<1>4. PICK m \in U : \A y \in U : m <= y
  BY <1>3, Least
<1>5. m \in T
  <2>1. SUFFICES ASSUME m \notin T PROVE FALSE
    OBVIOUS
  <2>2. \A y \in T : y < m
    BY <1>4, <2>1
  <2>3. m > 0
    BY <2>2
  <2>4. m - 1 \in U
    BY <1>4, <2>2, <2>3
  <2> QED
    BY <1>4, <2>4
<1>6. Max(T) = m
  BY <1>4, <1>5, MaxIs
<1> QED
  BY <1>1, <1>2, <1>4, <1>5, <1>6

\* LocalOf finds the last local variable of a name.
LEMMA LocalOfLast ==
  ASSUME NEW F, F.locals \in Seq(Local), NEW name
  PROVE  LET l == LocalOf(F, name) n == Len(F.locals)
         IN /\ l \in 0..n
            /\ l # 0 => F.locals[l].name = name /\ \A i \in 1..n : F.locals[i].name = name => i <= l
            /\ l = 0 => \A i \in 1..n : F.locals[i].name # name
<1> DEFINE n == Len(F.locals)
           T == {i \in 1..n : F.locals[i].name = name}
<1>1. LocalOf(F, name) = IF T # {} THEN Max(T) ELSE 0
  BY DEF LocalOf, SelectLastInSeq
<1>2. n \in Nat /\ T \subseteq 0..n
  OBVIOUS
<1>3. T # {} => Max(T) \in T /\ \A y \in T : y <= Max(T)
  BY <1>2, Bounds
<1> QED
  BY <1>1, <1>2, <1>3, SMTT(30)

\* UpValueOf finds the first upvalue of a name.
LEMMA UpValueOfFirst ==
  ASSUME NEW F, F.upvalues \in Seq(UpValue), NEW name
  PROVE  LET j == UpValueOf(F, name) n == Len(F.upvalues)
         IN /\ j \in 0..n
            /\ j # 0 => F.upvalues[j].name = name
            /\ j = 0 => \A i \in 1..n : F.upvalues[i].name # name
<1> DEFINE n == Len(F.upvalues)
           T == {i \in 1..n : F.upvalues[i].name = name}
<1>1. UpValueOf(F, name) = IF T # {} THEN Min(T) ELSE 0
  BY DEF UpValueOf, SelectInSeq
<1>2. n \in Nat /\ T \subseteq 0..n
  OBVIOUS
<1>3. T # {} => Min(T) \in T
  BY <1>2, Bounds
<1>4. CASE T = {}
  BY <1>1, <1>2, <1>4
<1>5. CASE T # {}
  <2>1. UpValueOf(F, name) = Min(T) /\ Min(T) \in 1..n /\ F.upvalues[Min(T)].name = name
    BY <1>1, <1>3, <1>5
  <2> QED
    BY <2>1
<1> QED
  BY <1>4, <1>5

\* A local variable has a name, a register and a variable.
LEMMA LocalFields ==
  ASSUME NEW ls \in Seq(Local), NEW i \in 1..Len(ls)
  PROVE  /\ ls[i] \in Local /\ ls[i].name \in Names /\ ls[i].attr \in {"none", "const"}
         /\ ls[i].reg \in Regs /\ ls[i].reg \in Int /\ 0 <= ls[i].reg /\ ls[i].reg < NumRegs
         /\ ls[i].var \in Variable
<1>1. ls[i] \in Local
  OBVIOUS
<1>2. /\ ls[i].name \in Names /\ ls[i].attr \in {"none", "const"}
      /\ ls[i].reg \in Regs /\ ls[i].var \in Variable
  BY <1>1 DEF Local
<1>3. \A r \in Regs : r \in Int /\ 0 <= r /\ r < NumRegs
  BY NumRegsAssumption DEF Regs
<1> QED
  BY <1>1, <1>2, <1>3

\* The variable in a local variable's register.
LEMMA VariableInReg ==
  ASSUME NEW F, F.locals \in Seq(Local), Ordered(F.locals), NEW i \in 1..Len(F.locals)
  PROVE  VariableIn(F, F.locals[i].reg) = F.locals[i].var
<1> DEFINE n == Len(F.locals)
           T == {j \in 1..n : F.locals[j].reg = F.locals[i].reg}
<1>1. VariableIn(F, F.locals[i].reg) = F.locals[IF T # {} THEN Max(T) ELSE 0].var
  BY DEF VariableIn, SelectLastInSeq
<1>2. n \in Nat /\ T \in SUBSET Int /\ i \in T
  OBVIOUS
<1>3. \A j \in T : j = i
  <2>1. ASSUME NEW j \in T PROVE j = i
    <3>1. j \in 1..n /\ F.locals[j].reg = F.locals[i].reg /\ F.locals[i].reg \in Int
      BY LocalFields
    <3>2. ~(i < j) /\ ~(j < i)
      BY <3>1 DEF Ordered
    <3> QED
      BY <3>1, <3>2
  <2> QED
    BY <2>1
<1> HIDE DEF T
<1>4. Max(T) = i
  <2>1. i \in Int /\ \A j \in T : j <= i
    BY <1>3
  <2> QED
    BY <1>2, <2>1, MaxIs
<1> QED
  BY <1>1, <1>2, <1>4

\* The local variables below a register are a prefix.
Kept(F, bottom) == SelectLastInSeq(F.locals, LAMBDA l : l.reg < bottom)
\* Local variables lie in the order of their registers: exit_block frees a suffix of
\* them.
LEMMA KeptPrefix ==
  ASSUME NEW F, F.locals \in Seq(Local), Ordered(F.locals), NEW bottom \in Nat
  PROVE  /\ Kept(F, bottom) \in 0..Len(F.locals)
         /\ \A i \in 1..Len(F.locals) : F.locals[i].reg < bottom <=> i <= Kept(F, bottom)
<1> DEFINE n == Len(F.locals)
           T == {i \in 1..n : F.locals[i].reg < bottom}
<1>1. Kept(F, bottom) = IF T # {} THEN Max(T) ELSE 0
  BY DEF Kept, SelectLastInSeq
<1>2. n \in Nat /\ T \subseteq 0..n
  OBVIOUS
<1>3. T # {} => Max(T) \in T /\ \A y \in T : y <= Max(T)
  BY <1>2, Bounds
<1>4. ASSUME NEW i \in 1..n, NEW j \in T, i <= j PROVE i \in T
  <2>1. F.locals[i].reg \in Int /\ F.locals[j].reg \in Int
    BY LocalFields
  <2>2. F.locals[i].reg <= F.locals[j].reg
    BY <1>4, <2>1 DEF Ordered
  <2> QED
    BY <2>1, <2>2
<1>5. CASE T = {}
  BY <1>1, <1>2, <1>5
<1>6. CASE T # {}
  <2>1. Kept(F, bottom) = Max(T) /\ Max(T) \in 1..n /\ Max(T) \in T
    BY <1>1, <1>3, <1>6
  <2>2. ASSUME NEW i \in 1..n, i <= Max(T) PROVE F.locals[i].reg < bottom
    BY <1>4, <2>1, <2>2
  <2>3. ASSUME NEW i \in 1..n, F.locals[i].reg < bottom PROVE i <= Max(T)
    BY <1>3, <1>6, <2>3
  <2> QED
    BY <2>1, <2>2, <2>3
<1> QED
  BY <1>5, <1>6

\* Induction, by a least counterexample.
LEMMA Ascent ==
  ASSUME NEW Bad \in SUBSET Nat, 0 \notin Bad, \A n \in Nat : n \notin Bad => n + 1 \notin Bad
  PROVE  Bad = {}
<1>1. SUFFICES ASSUME Bad # {} PROVE FALSE
  OBVIOUS
<1>2. PICK m \in Bad : \A n \in Bad : m <= n
  BY <1>1, Least
<1>3. m \in Nat /\ m # 0 /\ m - 1 \in Nat /\ m - 1 \notin Bad
  BY <1>2
<1>4. (m - 1) + 1 \notin Bad
  BY <1>3
<1> QED
  BY <1>2, <1>3, <1>4

-----------------------------------------------------------------------------
(* Registers. *)

\* A register number below the limit does not wrap.
LEMMA SmallRemainder ==
  ASSUME NEW n \in Nat, NEW x \in 0..(n - 1)
  PROVE  x % n = x
<1> DEFINE q == x \div n
           m == x % n
<1>1. n > 0 /\ q \in Int /\ m \in 0..(n - 1) /\ x = n * q + m
  OBVIOUS
<1> HIDE DEF q, m
<1>2. ~(q >= 1)
  <2>1. SUFFICES ASSUME q >= 1 PROVE FALSE
    OBVIOUS
  <2>2. n * q >= n
    BY <1>1, <2>1
  <2> QED
    BY <1>1, <2>2
<1>3. ~(q <= -1)
  <2>1. SUFFICES ASSUME q <= -1 PROVE FALSE
    OBVIOUS
  <2>2. n * q <= -n
    BY <1>1, <2>1
  <2> QED
    BY <1>1, <2>2
<1>4. q = 0
  BY <1>1, <1>2, <1>3
<1>5. n * q = 0
  BY <1>1, <1>4
<1>6. m = x
  BY <1>1, <1>5
<1> QED
  BY <1>6 DEF m

\* What packed registers are, spelled out.
LEMMA PackedFacts ==
  ASSUME NEW a \in Alloc, Packed(a)
  PROVE  /\ a.stack_top \in 0..NumRegs /\ a.first_free = a.stack_top
         /\ a.registers = (0..(a.stack_top - 1)) \ {NumRegs - 1}
         /\ a.stack_size \in a.stack_top..NumRegs
  BY NumRegsAssumption DEF Packed, PackedTo, Alloc

\* Registers pushed on top of packed ones are packed.
LEMMA PushPacked ==
  ASSUME NEW a \in Alloc, Packed(a), NEW n \in Nat, CanPush(a, n),
         n = 1 \/ a.stack_top + n < NumRegs
  PROVE  /\ Push(a, n) \in Alloc /\ Packed(Push(a, n))
         /\ Push(a, n).stack_top = a.stack_top + n /\ a.stack_top + n <= NumRegs
<1> DEFINE top == a.stack_top
           b == Push(a, n)
<1>1. /\ NumRegs \in Nat /\ NumRegs > 0 /\ top \in 0..NumRegs /\ n > 0 /\ top + n <= NumRegs
      /\ top + n > 0
  BY PackedFacts, NumRegsAssumption DEF CanPush
<1>2. PushedRegisters(a, n) = IF top + n = NumRegs THEN {} ELSE top..(top + n - 1)
  <2>1. CASE top + n = NumRegs
    <3>1. (top + n) % NumRegs = 0
      BY <1>1, <2>1
    <3> QED
      BY <1>1, <2>1, <3>1 DEF PushedRegisters
  <2>2. CASE top + n < NumRegs
    <3>1. top + n \in 0..(NumRegs - 1)
      BY <1>1, <2>2
    <3>2. (top + n) % NumRegs = top + n
      BY <1>1, <3>1, SmallRemainder
    <3> QED
      BY <1>1, <2>2, <3>2, SMTT(30) DEF PushedRegisters
  <2> QED
    BY <1>1, <2>1, <2>2
<1>3. b.registers = ((0..(top - 1)) \ {NumRegs - 1}) \cup PushedRegisters(a, n)
  BY PackedFacts DEF Push
<1>4. b.registers = (0..(top + n - 1)) \ {NumRegs - 1}
  <2>1. CASE top + n = NumRegs
    <3>1. n = 1
      BY <1>1, <2>1
    <3> QED
      BY <1>1, <1>2, <1>3, <2>1, <3>1
  <2>2. CASE top + n < NumRegs
    BY <1>1, <1>2, <1>3, <2>2
  <2> QED
    BY <1>1, <2>1, <2>2
<1>5. /\ b.stack_top = top + n /\ b.first_free = top + n
      /\ b.stack_size = Larger(a.stack_size, top + n)
  BY PackedFacts DEF Push
<1>6. b.stack_size \in (top + n)..NumRegs
  BY <1>1, <1>5, PackedFacts DEF Larger
<1>7. b \in Alloc
  <2>1. /\ b = [registers |-> b.registers, first_free |-> b.first_free,
                stack_top |-> b.stack_top, stack_size |-> b.stack_size]
    BY DEF Push
  <2>2. /\ b.registers \in SUBSET Nat /\ b.first_free \in Nat /\ b.stack_top \in Nat
        /\ b.stack_size \in Nat
    BY <1>1, <1>4, <1>5, <1>6
  <2> HIDE DEF b
  <2> QED
    BY <2>1, <2>2 DEF Alloc
<1> QED
  BY <1>1, <1>4, <1>5, <1>6, <1>7 DEF Packed, PackedTo

\* Popping down to a register when all below it, and none above, are in use.
LEMMA PopToPacked ==
  ASSUME NEW a \in Alloc, NEW r \in Nat, r < a.stack_top, a.stack_top <= NumRegs,
         0..(r - 1) \subseteq a.registers, r <= a.first_free, a.stack_size \in a.stack_top..NumRegs
  PROVE  /\ PopTo(a, r) \in Alloc /\ Packed(PopTo(a, r)) /\ PopTo(a, r).stack_top = r
         /\ PopTo(a, r).stack_size = a.stack_size
<1> DEFINE used == a.registers \cap 0..(r - 1)
           free == Smaller(a.first_free, r)
           T == {free} \cup {i + 1 : i \in used \cap free..r}
<1>1. /\ NumRegs \in Nat /\ a.registers \subseteq Nat /\ a.first_free \in Nat /\ a.stack_top \in Nat
      /\ a.stack_size \in Nat
  BY NumRegsAssumption DEF Alloc
<1>2. used = 0..(r - 1) /\ free = r
  BY <1>1 DEF Smaller
<1>3. T = {r}
  BY <1>2
<1>4. Max(T) = r
  <2> HIDE DEF T
  <2>1. T \in SUBSET Int /\ r \in T /\ \A y \in T : y <= r
    BY <1>3
  <2> QED
    BY <2>1, MaxIs
<1>5. PopTo(a, r) = [a EXCEPT !.registers = used, !.first_free = free, !.stack_top = Max(T)]
  BY <1>1 DEF PopTo
<1>6. PopTo(a, r) = [a EXCEPT !.registers = 0..(r - 1), !.first_free = r, !.stack_top = r]
  BY <1>2, <1>4, <1>5
<1>7. PopTo(a, r) = [registers |-> 0..(r - 1), first_free |-> r, stack_top |-> r,
                     stack_size |-> a.stack_size]
  BY <1>6 DEF Alloc
<1>8. 0..(r - 1) = (0..(r - 1)) \ {NumRegs - 1}
  BY <1>1
<1> HIDE DEF used, free, T
<1> QED
  BY <1>1, <1>7, <1>8 DEF Packed, PackedTo, Alloc

\* The top register is freed, if it was marked.
LEMMA FreeTop ==
  ASSUME NEW a \in Alloc, Packed(a), NEW r \in Nat, r + 1 = a.stack_top
  PROVE  /\ Free(a, r) \in Alloc /\ Packed(Free(a, r)) /\ Free(a, r).stack_top = r
         /\ Free(a, r).stack_size = a.stack_size
<1>1. /\ NumRegs \in Nat /\ a.stack_top \in 0..NumRegs /\ a.first_free = a.stack_top
      /\ a.registers = (0..(a.stack_top - 1)) \ {NumRegs - 1}
      /\ a.stack_size \in a.stack_top..NumRegs
  BY PackedFacts, NumRegsAssumption
<1>2. 0..(r - 1) \subseteq a.registers /\ r < a.stack_top /\ a.stack_top <= NumRegs /\ r <= a.first_free
  BY <1>1
<1>3. Free(a, r) = PopTo(a, r)
  BY DEF Free
<1> QED
  BY <1>1, <1>2, <1>3, PopToPacked

\* A register that is handed out and freed again leaves the registers as they were.
LEMMA TemporaryPacked ==
  ASSUME NEW a \in Alloc, Packed(a), CanAllocate(a)
  PROVE  /\ Allocated(a) = a.stack_top /\ a.stack_top \in Regs
         /\ CanFree(Allocate(a), a.stack_top)
         /\ Free(Allocate(a), a.stack_top) \in Alloc /\ Packed(Free(Allocate(a), a.stack_top))
         /\ Free(Allocate(a), a.stack_top).stack_top = a.stack_top
<1> DEFINE top == a.stack_top
           b == Allocate(a)
           T == {i \in top..NumRegs : i = NumRegs \/ i \notin 0..top}
<1>1. /\ NumRegs \in Nat /\ top \in 0..(NumRegs - 1) /\ a.first_free = top
      /\ a.registers = (0..(top - 1)) \ {NumRegs - 1}
      /\ a.stack_size \in top..NumRegs
  BY PackedFacts, NumRegsAssumption DEF CanAllocate
<1>2. a.registers \cup {top} = 0..top
  BY <1>1
<1>3. Min(T) = top + 1
  <2>1. T = (top + 1)..NumRegs
    BY <1>1
  <2> HIDE DEF T
  <2>2. T \in SUBSET Int /\ top + 1 \in T /\ \A i \in T : top + 1 <= i
    BY <1>1, <2>1
  <2> QED
    BY <2>2, MinIs
<1>4. b = [registers |-> 0..top, stack_top |-> top + 1, stack_size |-> Larger(a.stack_size, top + 1),
           first_free |-> top + 1]
  <2>1. b = [registers |-> a.registers \cup {top}, stack_top |-> top + 1,
             stack_size |-> Larger(a.stack_size, top + 1),
             first_free |-> Min({i \in top..NumRegs : i = NumRegs \/ i \notin a.registers \cup {top}})]
    BY <1>1 DEF Allocate
  <2> QED
    BY <1>2, <1>3, <2>1
<1>5. Larger(a.stack_size, top + 1) \in (top + 1)..NumRegs
  BY <1>1 DEF Larger
<1>6. b \in Alloc
  BY <1>1, <1>4, <1>5 DEF Alloc
<1>7. /\ b.registers = 0..top /\ b.stack_top = top + 1 /\ b.first_free = top + 1
      /\ b.stack_size \in b.stack_top..NumRegs
  BY <1>4, <1>5
<1> HIDE DEF b
<1>8. Free(b, top) = PopTo(b, top)
  BY <1>7 DEF Free
<1>9. /\ PopTo(b, top) \in Alloc /\ Packed(PopTo(b, top)) /\ PopTo(b, top).stack_top = top
  <2>1. /\ top \in Nat /\ top < b.stack_top /\ b.stack_top <= NumRegs
        /\ 0..(top - 1) \subseteq b.registers /\ top <= b.first_free
    BY <1>1, <1>7
  <2> QED
    BY <1>6, <1>7, <2>1, PopToPacked
<1>10. Allocated(a) = top /\ top \in Regs /\ CanFree(b, top)
  BY <1>1, <1>7 DEF Allocated, Regs, CanFree
<1> QED
  BY <1>8, <1>9, <1>10 DEF b

-----------------------------------------------------------------------------
(* Operations on a function: how errors pass through, and what stays. *)

HasErr(F) == "err" \in DOMAIN F /\ F.err \in {"none"} \cup Errors
Ready(F) == F \in Fun /\ F.err = "none" /\ Packed(F.alloc) /\ Coded(F)
Given(F) == HasErr(F) /\ (F.err = "none" => Ready(F))
Same(G, F) ==
  /\ G.locals = F.locals /\ G.upvalues = F.upvalues /\ G.blocks = F.blocks /\ G.ctx = F.ctx
  /\ G.params = F.params /\ G.alloc.stack_top = F.alloc.stack_top /\ Len(F.ops) <= Len(G.ops)
  /\ Len(F.targets) <= Len(G.targets)
Follows(G, F) == Given(G) /\ (G.err = "none" => F.err = "none" /\ Same(G, F))

\* The fields of a function being compiled have their types.
LEMMA FunFields ==
  ASSUME NEW F \in Fun
  PROVE  /\ F.alloc \in Alloc /\ F.locals \in Seq(Local) /\ F.upvalues \in Seq(UpValue)
         /\ F.blocks \in Seq(Block) /\ F.targets \in Seq(Target) /\ F.pending \in Seq(Pending)
         /\ F.ops \in Seq(Instr) /\ F.consts = << >> /\ F.next_label \in Nat /\ F.params \in Nat
         /\ F.ctx \in Seq(Context) /\ F.err \in {"none"} \cup Errors /\ HasErr(F)
         /\ Len(F.ops) \in Nat /\ Len(F.blocks) \in Nat /\ Len(F.locals) \in Nat
         /\ Len(F.targets) \in Nat /\ Len(F.pending) \in Nat /\ Len(F.ctx) \in Nat /\ F.alloc.stack_top \in Nat
  BY DEF Fun, HasErr, Alloc

Fields == {"alloc", "locals", "upvalues", "blocks", "targets", "pending", "ops", "consts",
           "next_label", "params", "ctx", "err"}
\* A function being compiled has exactly the fields of Fun.
LEMMA FunDomain ==
  ASSUME NEW F \in Fun
  PROVE  DOMAIN F = Fields
  BY DEF Fun, Fields

\* A function stays one when a part of it is replaced by another of its kind.
LEMMA FunChange ==
  ASSUME NEW F \in Fun
  PROVE  /\ \A x \in Alloc : [F EXCEPT !.alloc = x] \in Fun
         /\ \A x \in Seq(Local) : [F EXCEPT !.locals = x] \in Fun
         /\ \A x \in Seq(UpValue) : [F EXCEPT !.upvalues = x] \in Fun
         /\ \A x \in Seq(Block) : [F EXCEPT !.blocks = x] \in Fun
         /\ \A x \in Seq(Target) : [F EXCEPT !.targets = x] \in Fun
         /\ \A x \in Seq(Pending) : [F EXCEPT !.pending = x] \in Fun
         /\ \A x \in Seq(Instr) : [F EXCEPT !.ops = x] \in Fun
         /\ \A x \in Nat : [F EXCEPT !.next_label = x] \in Fun
         /\ \A x \in Seq(Context) : [F EXCEPT !.ctx = x] \in Fun
<1>1. ASSUME NEW x \in Alloc PROVE [F EXCEPT !.alloc = x] \in Fun
  BY DEF Fun
<1>2. ASSUME NEW x \in Seq(Local) PROVE [F EXCEPT !.locals = x] \in Fun
  BY DEF Fun
<1>3. ASSUME NEW x \in Seq(UpValue) PROVE [F EXCEPT !.upvalues = x] \in Fun
  BY DEF Fun
<1>4. ASSUME NEW x \in Seq(Block) PROVE [F EXCEPT !.blocks = x] \in Fun
  BY DEF Fun
<1>5. ASSUME NEW x \in Seq(Target) PROVE [F EXCEPT !.targets = x] \in Fun
  BY DEF Fun
<1>6. ASSUME NEW x \in Seq(Pending) PROVE [F EXCEPT !.pending = x] \in Fun
  BY DEF Fun
<1>7. ASSUME NEW x \in Seq(Instr) PROVE [F EXCEPT !.ops = x] \in Fun
  BY DEF Fun
<1>8. ASSUME NEW x \in Nat PROVE [F EXCEPT !.next_label = x] \in Fun
  BY DEF Fun
<1>9. ASSUME NEW x \in Seq(Context) PROVE [F EXCEPT !.ctx = x] \in Fun
  BY DEF Fun
<1> QED
  BY <1>1, <1>2, <1>3, <1>4, <1>5, <1>6, <1>7, <1>8, <1>9

\* Assigning a field its own value changes nothing.
LEMMA FunSelf ==
  ASSUME NEW F \in Fun
  PROVE  F = [F EXCEPT !.alloc = F.alloc]
  BY DEF Fun

\* What follows a function that follows F follows F.
LEMMA FollowsTrans ==
  ASSUME NEW F, NEW G, NEW H, Given(F), Follows(G, F), Follows(H, G)
  PROVE  Follows(H, F)
<1>1. Given(H)
  BY DEF Follows
<1>2. ASSUME H.err = "none" PROVE F.err = "none" /\ Same(H, F)
  <2>1. F.err = "none" /\ G.err = "none" /\ Same(H, G) /\ Same(G, F)
    BY <1>2 DEF Follows
  <2>2. /\ Len(F.ops) \in Nat /\ Len(G.ops) \in Nat /\ Len(H.ops) \in Nat
        /\ Len(F.targets) \in Nat /\ Len(G.targets) \in Nat /\ Len(H.targets) \in Nat
    BY <1>2, <2>1, FunFields DEF Follows, Given, Ready
  <2> QED
    BY <2>1, <2>2 DEF Same
<1> QED
  BY <1>1, <1>2 DEF Follows

\* An error is kept or found.
LEMMA FailFollows ==
  ASSUME NEW F, HasErr(F), NEW e \in Errors, NEW G
  PROVE  /\ HasErr(Fail(F, e)) /\ Fail(F, e).err # "none"
         /\ Follows(Fail(F, e), G)
<1>1. e # "none"
  BY DEF Errors
<1>2. HasErr(Fail(F, e)) /\ Fail(F, e).err # "none"
  BY <1>1 DEF Fail, HasErr
<1> QED
  BY <1>2 DEF Follows, Given

\* Instructions whose offset is zero lead to the next one.
VarKinds == {"Temp", "Test", "Decl", "Use", "SetUp", "Return", "ForPrep", "ForLoop", "ForCall",
             "ForTest", "Closure"}
\* Op makes an instruction that stays where it is and uses no register.
LEMMA OpInstr ==
  ASSUME NEW k \in VarKinds
  PROVE  Op(k) \in VarInstr /\ Op(k).offset = 0 /\ Op(k).reg = None /\ Op(k).k = k
<1>1. <<-1, -1>> \in Variable
  BY DEF Variable
<1> QED
  BY <1>1 DEF Op, VarKinds, VarInstr, None, Nowhere

\* Emitting an instruction that does not lead out of the code keeps the invariant's
\* parts.
LEMMA EmitFollows ==
  ASSUME NEW F, Given(F), NEW op \in Instr,
         F.err = "none" => Len(F.ops) + 1 + op.offset \in 0..(Len(F.ops) + 1)
  PROVE  /\ Follows(Emit(F, op), F)
         /\ F.err = "none" => Len(Emit(F, op).ops) = Len(F.ops) + 1
<1> DEFINE G == Emit(F, op)
<1>1. HasErr(G) /\ G.err = F.err
  BY DEF Given, HasErr, Emit
<1>2. ASSUME F.err = "none"
      PROVE  Ready(G) /\ Same(G, F) /\ Len(G.ops) = Len(F.ops) + 1
  <2>1. F \in Fun /\ Packed(F.alloc) /\ Coded(F) /\ F.ops \in Seq(Instr) /\ Len(F.ops) \in Nat
        /\ Len(F.targets) \in Nat
    BY <1>2, FunFields DEF Given, Ready
  <2>2. G = [F EXCEPT !.ops = Append(F.ops, op)]
    BY DEF Emit
  <2>3. G \in Fun /\ G.ops = Append(F.ops, op) /\ G.targets = F.targets /\ G.alloc = F.alloc
    <3>1. Append(F.ops, op) \in Seq(Instr)
      BY <2>1
    <3>2. G \in Fun
      BY <2>1, <2>2, <3>1, FunChange
    <3> QED
      BY <2>1, <2>2, <3>2, FunDomain DEF Fields
  <2>4. Same(G, F)
    <3>1. /\ G.locals = F.locals /\ G.upvalues = F.upvalues /\ G.blocks = F.blocks
          /\ G.ctx = F.ctx /\ G.params = F.params
      BY <2>1, <2>2, FunDomain DEF Fields
    <3>2. Len(F.ops) <= Len(G.ops) /\ Len(F.targets) <= Len(G.targets)
      BY <2>1, <2>3
    <3> QED
      BY <2>3, <3>1, <3>2 DEF Same
  <2>5. Coded(G)
    <3>1. Len(G.ops) = Len(F.ops) + 1
      BY <2>1, <2>3
    <3>2. ASSUME NEW n \in 1..Len(G.ops) PROVE n + G.ops[n].offset \in 0..Len(G.ops)
      <4>1. CASE n <= Len(F.ops)
        <5>1. n \in 1..Len(F.ops) /\ G.ops[n] = F.ops[n]
          BY <2>1, <2>3, <3>1, <4>1
        <5>2. n + F.ops[n].offset \in 0..Len(F.ops)
          BY <2>1, <5>1 DEF Coded
        <5> QED
          BY <2>1, <3>1, <5>1, <5>2
      <4>2. CASE n = Len(F.ops) + 1
        BY <1>2, <2>1, <2>3, <3>1, <4>2
      <4> QED
        BY <2>1, <3>1, <4>1, <4>2
    <3>3. ASSUME NEW i \in 1..Len(G.targets) PROVE G.targets[i].instruction <= Len(G.ops)
      <4>1. F.targets[i] \in Target /\ F.targets[i].instruction <= Len(F.ops)
        BY <2>1, <2>3, FunFields DEF Coded
      <4> QED
        BY <2>1, <2>3, <3>1, <4>1 DEF Target
    <3> QED
      BY <3>2, <3>3 DEF Coded
  <2> HIDE DEF G
  <2> QED
    BY <1>1, <1>2, <2>1, <2>3, <2>4, <2>5 DEF Ready
<1> HIDE DEF G
<1> QED
  BY <1>1, <1>2 DEF Follows, Given, G

\* An instruction without an offset.
LEMMA PlainFollows ==
  ASSUME NEW F, Given(F), NEW op \in VarInstr, op.offset = 0
  PROVE  /\ Follows(Emit(F, op), F)
         /\ F.err = "none" => Len(Emit(F, op).ops) = Len(F.ops) + 1
<1>1. F.err = "none" => Len(F.ops) + 1 + op.offset \in 0..(Len(F.ops) + 1)
  BY FunFields DEF Given, Ready
<1>2. op \in Instr
  BY DEF Instr
<1> QED
  BY <1>1, <1>2, EmitFollows

\* Taking a unique label changes only the counter of labels.
LEMMA TakeLabelFollows ==
  ASSUME NEW F, Given(F)
  PROVE  Follows(TakeLabel(F), F)
<1> DEFINE G == TakeLabel(F)
<1>1. HasErr(G) /\ G.err = F.err
  BY DEF Given, HasErr, TakeLabel
<1>2. ASSUME F.err = "none" PROVE Ready(G) /\ Same(G, F)
  <2>1. F \in Fun /\ Packed(F.alloc) /\ Coded(F) /\ Len(F.ops) \in Nat /\ F.next_label \in Nat
        /\ Len(F.targets) \in Nat
    BY <1>2, FunFields DEF Given, Ready
  <2>2. G \in Fun /\ G.ops = F.ops /\ G.targets = F.targets /\ G.alloc = F.alloc
    <3>1. F.next_label + 1 \in Nat
      BY <2>1
    <3>2. G \in Fun
      BY <2>1, <3>1, FunChange DEF TakeLabel
    <3> QED
      BY <2>1, <3>2, FunDomain DEF Fields, TakeLabel
  <2>3. Same(G, F)
    <3>1. /\ G.locals = F.locals /\ G.upvalues = F.upvalues /\ G.blocks = F.blocks
          /\ G.ctx = F.ctx /\ G.params = F.params
      BY <2>1, FunDomain DEF Fields, TakeLabel
    <3>2. Len(F.ops) <= Len(G.ops) /\ Len(F.targets) <= Len(G.targets)
      BY <2>1, <2>2
    <3> HIDE DEF G
    <3> QED
      BY <2>2, <3>1, <3>2 DEF Same
  <2> HIDE DEF G
  <2> QED
    BY <1>1, <1>2, <2>1, <2>2, <2>3 DEF Ready, Coded
<1> HIDE DEF G
<1> QED
  BY <1>1, <1>2 DEF Follows, Given, G

\* Allocating and freeing again, with the same stack top, changes only what was the
\* maximum.
LEMMA AllocFollows ==
  ASSUME NEW F, Given(F), NEW a,
         F.err = "none" => a \in Alloc /\ Packed(a) /\ a.stack_top = F.alloc.stack_top
  PROVE  Follows([F EXCEPT !.alloc = a], F)
<1> DEFINE G == [F EXCEPT !.alloc = a]
<1>1. HasErr(G) /\ G.err = F.err
  BY DEF Given, HasErr
<1>2. ASSUME F.err = "none" PROVE Ready(G) /\ Same(G, F)
  <2>1. F \in Fun /\ Coded(F) /\ Len(F.ops) \in Nat /\ Len(F.targets) \in Nat
    BY <1>2, FunFields DEF Given, Ready
  <2>2. G \in Fun
    BY <1>2, <2>1, FunChange
  <2>3. /\ G.ops = F.ops /\ G.targets = F.targets /\ G.alloc = a /\ G.locals = F.locals
        /\ G.upvalues = F.upvalues /\ G.blocks = F.blocks /\ G.ctx = F.ctx /\ G.params = F.params
    BY <2>1, FunDomain DEF Fields
  <2> HIDE DEF G
  <2>4. Ready(G)
    BY <1>1, <1>2, <2>1, <2>2, <2>3 DEF Ready, Coded
  <2>5. Same(G, F)
    BY <1>2, <2>1, <2>3 DEF Same
  <2> QED
    BY <2>4, <2>5
<1> HIDE DEF G
<1> QED
  BY <1>1, <1>2 DEF Follows, Given, G

\* Emitting reports no error.
LEMMA EmitErr ==
  ASSUME NEW F, HasErr(F), NEW op
  PROVE  HasErr(Emit(F, op)) /\ Emit(F, op).err = F.err
  BY DEF HasErr, Emit

\* Freeing a register succeeds only where the allocator's assertions hold.
LEMMA FreeRegErr ==
  ASSUME NEW F, HasErr(F), NEW r
  PROVE  /\ HasErr(FreeReg(F, r))
         /\ FreeReg(F, r).err = "none" =>
              F.err = "none" /\ CanFree(F.alloc, r) /\ FreeReg(F, r) = [F EXCEPT !.alloc = Free(@, r)]
<1>1. CASE CanFree(F.alloc, r)
  <2>1. FreeReg(F, r) = [F EXCEPT !.alloc = Free(@, r)]
    BY <1>1 DEF FreeReg
  <2>2. HasErr([F EXCEPT !.alloc = Free(@, r)]) /\ [F EXCEPT !.alloc = Free(@, r)].err = F.err
    BY DEF HasErr
  <2> QED
    BY <1>1, <2>1, <2>2
<1>2. CASE ~CanFree(F.alloc, r)
  <2>1. FreeReg(F, r) = Fail(F, "panic") /\ "panic" \in Errors
    BY <1>2 DEF FreeReg, Errors
  <2> QED
    BY <2>1, FailFollows
<1> QED
  BY <1>1, <1>2

\* A temporary register leaves no trace but its instructions.
LEMMA TemporaryFollows ==
  ASSUME NEW F, Given(F), NEW op \in VarInstr, op.offset = 0
  PROVE  Follows(Temporary(F, op), F)
<1>1. CASE ~CanAllocate(F.alloc)
  <2>1. Temporary(F, op) = Fail(F, "Registers") /\ "Registers" \in Errors
    BY <1>1 DEF Temporary, Errors
  <2> QED
    BY <2>1, FailFollows DEF Given
<1>2. CASE CanAllocate(F.alloc)
  <2> DEFINE r == Allocated(F.alloc)
             temp == [Op("Temp") EXCEPT !.reg = r]
             A == [F EXCEPT !.alloc = Allocate(F.alloc)]
             B == Emit(A, temp)
             D == FreeReg(B, r)
             E == [F EXCEPT !.alloc = Free(Allocate(F.alloc), r)]
  <2>1. Temporary(F, op) = Emit(D, op)
    BY <1>2 DEF Temporary
  <2>2. HasErr(A) /\ A.err = F.err
    BY DEF Given, HasErr
  <2>3. HasErr(B) /\ B.err = F.err
    BY <2>2, EmitErr
  <2>4. HasErr(D) /\ (D.err = "none" => F.err = "none")
    BY <2>3, FreeRegErr
  <2>5. CASE F.err # "none"
    <3>1. HasErr(Emit(D, op)) /\ Emit(D, op).err # "none"
      BY <2>4, <2>5, EmitErr
    <3> QED
      BY <2>1, <3>1 DEF Follows, Given
  <2>6. CASE F.err = "none"
    <3>1. F \in Fun /\ Packed(F.alloc) /\ F.alloc \in Alloc
      BY <2>6, FunFields DEF Given, Ready
    <3>2. r = F.alloc.stack_top /\ r \in Regs /\ CanFree(Allocate(F.alloc), r)
      BY <1>2, <3>1, TemporaryPacked
    <3>3. B.alloc = Allocate(F.alloc)
      BY <3>1, FunDomain DEF Fields, Emit
    <3>4. D = [B EXCEPT !.alloc = Free(Allocate(F.alloc), r)]
      BY <3>2, <3>3 DEF FreeReg
    <3>5. D = Emit(E, temp)
      BY <3>1, <3>4, FunDomain DEF Fields, Emit
    <3>6. temp \in VarInstr /\ temp.offset = 0
      <4>1. Op("Temp") \in VarInstr /\ Op("Temp").offset = 0
        BY OpInstr DEF VarKinds
      <4> HIDE DEF r
      <4> QED
        BY <3>2, <4>1 DEF VarInstr
    <3>7. Follows(E, F)
      BY <1>2, <3>1, <3>2, TemporaryPacked, AllocFollows
    <3> HIDE DEF A, B, D, E, temp
    <3>8. Follows(D, E)
      BY <3>5, <3>6, <3>7, PlainFollows DEF Follows
    <3>9. Follows(Emit(D, op), D)
      BY <3>8, PlainFollows DEF Follows
    <3>10. Follows(D, F)
      BY <3>7, <3>8, FollowsTrans
    <3> QED
      BY <2>1, <3>9, <3>10, FollowsTrans
  <2> QED
    BY <2>5, <2>6
<1> QED
  BY <1>1, <1>2

\* Pushed registers.
Above(G, F, n) ==
  Given(G) /\ (G.err = "none" =>
    /\ F.err = "none"
    /\ G.locals = F.locals /\ G.upvalues = F.upvalues /\ G.blocks = F.blocks /\ G.ctx = F.ctx
    /\ G.params = F.params /\ G.ops = F.ops /\ G.targets = F.targets
    /\ G.alloc.stack_top = F.alloc.stack_top + n /\ F.alloc.stack_top + n <= NumRegs)

\* Pushing registers succeeds only where there is room for them.
LEMMA PushRegsErr ==
  ASSUME NEW F, HasErr(F), NEW n
  PROVE  /\ HasErr(PushRegs(F, n))
         /\ PushRegs(F, n).err = "none" =>
              F.err = "none" /\ CanPush(F.alloc, n) /\ PushRegs(F, n) = [F EXCEPT !.alloc = Push(@, n)]
<1>1. CASE CanPush(F.alloc, n)
  <2>1. PushRegs(F, n) = [F EXCEPT !.alloc = Push(@, n)]
    BY <1>1 DEF PushRegs
  <2>2. /\ HasErr([F EXCEPT !.alloc = Push(@, n)])
        /\ [F EXCEPT !.alloc = Push(@, n)].err = F.err
    BY DEF HasErr
  <2> QED
    BY <1>1, <2>1, <2>2
<1>2. CASE ~CanPush(F.alloc, n)
  <2>1. PushRegs(F, n) = Fail(F, "Registers") /\ "Registers" \in Errors
    BY <1>2 DEF PushRegs, Errors
  <2> QED
    BY <2>1, FailFollows
<1> QED
  BY <1>1, <1>2

\* Pushed registers lie right above those in use.
LEMMA PushRegsAbove ==
  ASSUME NEW F, Given(F), NEW n \in Nat, F.err = "none" => n = 1 \/ F.alloc.stack_top + n < NumRegs
  PROVE  Above(PushRegs(F, n), F, n)
<1> DEFINE G == PushRegs(F, n)
<1>1. HasErr(G)
  BY PushRegsErr DEF Given
<1>2. ASSUME G.err = "none"
      PROVE  /\ Ready(G) /\ F.err = "none"
             /\ G.locals = F.locals /\ G.upvalues = F.upvalues /\ G.blocks = F.blocks /\ G.ctx = F.ctx
             /\ G.params = F.params /\ G.ops = F.ops /\ G.targets = F.targets
             /\ G.alloc.stack_top = F.alloc.stack_top + n /\ F.alloc.stack_top + n <= NumRegs
  <2>1. F.err = "none" /\ CanPush(F.alloc, n) /\ G = [F EXCEPT !.alloc = Push(@, n)]
    BY <1>2, PushRegsErr DEF Given
  <2>2. F \in Fun /\ Packed(F.alloc) /\ Coded(F) /\ F.alloc \in Alloc
    BY <2>1, FunFields DEF Given, Ready
  <2>3. /\ Push(F.alloc, n) \in Alloc /\ Packed(Push(F.alloc, n))
        /\ Push(F.alloc, n).stack_top = F.alloc.stack_top + n /\ F.alloc.stack_top + n <= NumRegs
    BY <2>1, <2>2, PushPacked
  <2> HIDE DEF G
  <2>4. G \in Fun
    BY <2>1, <2>2, <2>3, FunChange
  <2>5. /\ G.ops = F.ops /\ G.targets = F.targets /\ G.alloc = Push(F.alloc, n)
        /\ G.locals = F.locals /\ G.upvalues = F.upvalues /\ G.blocks = F.blocks /\ G.ctx = F.ctx
        /\ G.params = F.params /\ G.err = F.err
    BY <2>1, <2>2, FunDomain DEF Fields
  <2>6. Ready(G)
    BY <2>1, <2>2, <2>3, <2>4, <2>5 DEF Ready, Coded
  <2> QED
    BY <2>1, <2>3, <2>5, <2>6
<1> HIDE DEF G
<1> QED
  BY <1>1, <1>2 DEF Above, Given, G

\* A new variable.
LEMMA AddLocalAdds ==
  ASSUME NEW F, Given(F), NEW name \in Names, NEW attr \in {"none", "const"}, NEW r, NEW var,
         F.err = "none" => r \in Regs /\ var \in Variable
  PROVE  LET G == AddLocal(F, name, attr, r, var)
         IN /\ Given(G) /\ G.err = F.err
            /\ F.err = "none" =>
                 /\ G.locals = Append(F.locals, [name |-> name, reg |-> r, attr |-> attr, var |-> var])
                 /\ G.upvalues = F.upvalues /\ G.blocks = F.blocks /\ G.ctx = F.ctx
                 /\ G.params = F.params /\ G.alloc = F.alloc /\ G.ops = F.ops /\ G.targets = F.targets
<1> DEFINE G == AddLocal(F, name, attr, r, var)
           l == [name |-> name, reg |-> r, attr |-> attr, var |-> var]
<1>1. HasErr(G) /\ G.err = F.err
  BY DEF Given, HasErr, AddLocal
<1>2. ASSUME F.err = "none"
      PROVE  /\ Ready(G) /\ G.locals = Append(F.locals, l)
             /\ G.upvalues = F.upvalues /\ G.blocks = F.blocks /\ G.ctx = F.ctx
             /\ G.params = F.params /\ G.alloc = F.alloc /\ G.ops = F.ops /\ G.targets = F.targets
  <2>1. F \in Fun /\ Packed(F.alloc) /\ Coded(F) /\ F.locals \in Seq(Local)
    BY <1>2, FunFields DEF Given, Ready
  <2>2. l \in Local
    BY <1>2 DEF Local
  <2>3. G = [F EXCEPT !.locals = Append(F.locals, l)]
    BY DEF AddLocal
  <2> HIDE DEF G, l
  <2>4. Append(F.locals, l) \in Seq(Local)
    BY <2>1, <2>2
  <2>5. G \in Fun
    BY <2>1, <2>3, <2>4, FunChange
  <2>6. /\ G.ops = F.ops /\ G.targets = F.targets /\ G.alloc = F.alloc
        /\ G.locals = Append(F.locals, l) /\ G.upvalues = F.upvalues /\ G.blocks = F.blocks
        /\ G.ctx = F.ctx /\ G.params = F.params
    BY <2>1, <2>3, FunDomain DEF Fields
  <2>7. Ready(G)
    BY <1>1, <1>2, <2>1, <2>5, <2>6 DEF Ready, Coded
  <2> QED
    BY <2>6, <2>7
<1> HIDE DEF G
<1>3. Given(G)
  BY <1>1, <1>2 DEF Given
<1> QED
  BY <1>1, <1>2, <1>3 DEF G

\* A new block, on top of what is there.
LEMMA EnterBlockAdds ==
  ASSUME NEW F, Given(F)
  PROVE  LET G == EnterBlock(F)
         IN /\ Given(G) /\ G.err = F.err
            /\ F.err = "none" =>
                 /\ \E b \in Block : /\ b.stack_bottom = F.alloc.stack_top
                                     /\ b.bottom_jump_target = Len(F.targets)
                                     /\ G.blocks = Append(F.blocks, b)
                 /\ G.locals = F.locals /\ G.upvalues = F.upvalues /\ G.ctx = F.ctx
                 /\ G.params = F.params /\ G.alloc = F.alloc /\ G.ops = F.ops /\ G.targets = F.targets
<1> DEFINE G == EnterBlock(F)
           b == [stack_bottom |-> F.alloc.stack_top, bottom_jump_target |-> Len(F.targets),
                 owns_upvalues |-> FALSE]
<1>1. HasErr(G) /\ G.err = F.err
  BY DEF Given, HasErr, EnterBlock
<1>2. ASSUME F.err = "none"
      PROVE  /\ Ready(G) /\ b \in Block /\ b.stack_bottom = F.alloc.stack_top
             /\ b.bottom_jump_target = Len(F.targets)
             /\ G.blocks = Append(F.blocks, b)
             /\ G.locals = F.locals /\ G.upvalues = F.upvalues /\ G.ctx = F.ctx
             /\ G.params = F.params /\ G.alloc = F.alloc /\ G.ops = F.ops /\ G.targets = F.targets
  <2>1. /\ F \in Fun /\ Packed(F.alloc) /\ Coded(F) /\ F.blocks \in Seq(Block)
        /\ F.targets \in Seq(Target) /\ F.alloc.stack_top \in Nat
    BY <1>2, FunFields DEF Given, Ready
  <2>2. b \in Block /\ b.stack_bottom = F.alloc.stack_top /\ b.bottom_jump_target = Len(F.targets)
    BY <2>1 DEF Block
  <2>3. G = [F EXCEPT !.blocks = Append(F.blocks, b)]
    BY DEF EnterBlock
  <2> HIDE DEF G, b
  <2>4. Append(F.blocks, b) \in Seq(Block)
    BY <2>1, <2>2
  <2>5. G \in Fun
    BY <2>1, <2>3, <2>4, FunChange
  <2>6. /\ G.ops = F.ops /\ G.targets = F.targets /\ G.alloc = F.alloc
        /\ G.blocks = Append(F.blocks, b) /\ G.upvalues = F.upvalues /\ G.locals = F.locals
        /\ G.ctx = F.ctx /\ G.params = F.params
    BY <2>1, <2>3, FunDomain DEF Fields
  <2>7. Ready(G)
    BY <1>1, <1>2, <2>1, <2>5, <2>6 DEF Ready, Coded
  <2> QED
    BY <2>2, <2>6, <2>7
<1> HIDE DEF G, b
<1>3. Given(G)
  BY <1>1, <1>2 DEF Given
<1> QED
  BY <1>1, <1>2, <1>3 DEF G

-----------------------------------------------------------------------------
(* Leaving a block. *)

\* FreeAll frees the registers one by one.
FreeStep(F, ls, f, i) == IF i = 0 THEN F ELSE FreeReg(f[i - 1], ls[i].reg)
\* The recursive function of FreeAll exists.
LEMMA FreeAllDefined ==
  ASSUME NEW F, NEW ls, NEW n \in Nat
  PROVE  \E f : f = [i \in 0..n |-> FreeStep(F, ls, f, i)]
<1> DEFINE Bad == {m \in Nat : ~ \E f : f = [i \in 0..m |-> FreeStep(F, ls, f, i)]}
<1>1. 0 \notin Bad
  <2> DEFINE f == [i \in 0..0 |-> F]
  <2>1. f = [i \in 0..0 |-> FreeStep(F, ls, f, i)]
    BY DEF FreeStep
  <2> QED
    BY <2>1
<1>2. ASSUME NEW m \in Nat, m \notin Bad PROVE m + 1 \notin Bad
  <2>1. PICK f : f = [i \in 0..m |-> FreeStep(F, ls, f, i)]
    BY <1>2
  <2> DEFINE g == [i \in 0..(m + 1) |-> IF i = m + 1 THEN FreeReg(f[m], ls[m + 1].reg) ELSE f[i]]
  <2>2. \A i \in 0..m : g[i] = f[i]
    OBVIOUS
  <2>3. g[m + 1] = FreeReg(f[m], ls[m + 1].reg)
    OBVIOUS
  <2>4. ASSUME NEW i \in 0..(m + 1) PROVE g[i] = FreeStep(F, ls, g, i)
    <3>1. CASE i = m + 1
      <4>1. (m + 1) - 1 = m /\ m \in 0..m /\ m + 1 # 0
        OBVIOUS
      <4> HIDE DEF g
      <4> QED
        BY <2>2, <2>3, <3>1, <4>1 DEF FreeStep
    <3>2. CASE i # m + 1
      <4>1. i \in 0..m /\ (i # 0 => i - 1 \in 0..m)
        BY <3>2
      <4>2. f[i] = FreeStep(F, ls, f, i)
        BY <2>1, <4>1
      <4> HIDE DEF g
      <4> QED
        BY <2>2, <4>1, <4>2 DEF FreeStep
    <3> QED
      BY <3>1, <3>2
  <2>5. g = [i \in 0..(m + 1) |-> g[i]]
    OBVIOUS
  <2> HIDE DEF g
  <2>6. g = [i \in 0..(m + 1) |-> FreeStep(F, ls, g, i)]
    BY <2>4, <2>5
  <2> QED
    BY <2>6
<1>3. Bad = {}
  <2>1. Bad \in SUBSET Nat
    OBVIOUS
  <2>2. \A m \in Nat : m \notin Bad => m + 1 \notin Bad
    BY <1>2
  <2> HIDE DEF Bad
  <2> QED
    BY <1>1, <2>1, <2>2, Ascent
<1> QED
  BY <1>3

Freeing(F, ls, k, f) ==
  f[0] = F /\ FreeAll(F, ls) = f[k] /\ \A i \in 1..k : f[i] = FreeReg(f[i - 1], ls[i].reg)
\* FreeAll frees one register after the other, and stops at the first that fails.
LEMMA FreeAllSteps ==
  ASSUME NEW F, NEW ls, NEW k \in Nat, Len(ls) = k
  PROVE  \E f : Freeing(F, ls, k, f)
<1> DEFINE f == CHOOSE f : f = [i \in 0..Len(ls) |-> FreeStep(F, ls, f, i)]
<1>1. FreeAll(F, ls) = f[Len(ls)]
  BY DEF FreeAll, FreeStep
<1>2. f = [i \in 0..k |-> FreeStep(F, ls, f, i)]
  BY FreeAllDefined
<1> HIDE DEF f
<1>3. f[0] = F
  BY <1>2 DEF FreeStep
<1>4. \A i \in 1..k : f[i] = FreeReg(f[i - 1], ls[i].reg)
  BY <1>2 DEF FreeStep
<1>5. Freeing(F, ls, k, f)
  BY <1>1, <1>3, <1>4 DEF Freeing
<1> QED
  BY <1>5

\* An error on the way is kept.
LEMMA FreeAllErr ==
  ASSUME NEW F, HasErr(F), NEW ls, Len(ls) \in Nat
  PROVE  HasErr(FreeAll(F, ls)) /\ (FreeAll(F, ls).err = "none" => F.err = "none")
<1>0. PICK f : Freeing(F, ls, Len(ls), f)
  BY FreeAllSteps
<1>1. /\ f[0] = F /\ FreeAll(F, ls) = f[Len(ls)]
      /\ \A i \in 1..Len(ls) : f[i] = FreeReg(f[i - 1], ls[i].reg)
  BY <1>0 DEF Freeing
<1> DEFINE Good(i) == HasErr(f[i]) /\ (f[i].err = "none" => F.err = "none")
           Bad == {i \in Nat : i <= Len(ls) /\ ~Good(i)}
<1>2. 0 \notin Bad
  BY <1>1
<1>3. ASSUME NEW i \in Nat, i \notin Bad PROVE i + 1 \notin Bad
  <2> SUFFICES ASSUME i + 1 <= Len(ls) PROVE Good(i + 1)
    OBVIOUS
  <2>1. Good(i) /\ i + 1 \in 1..Len(ls) /\ (i + 1) - 1 = i
    BY <1>3
  <2>2. f[i + 1] = FreeReg(f[i], ls[i + 1].reg)
    BY <1>1, <2>1
  <2> QED
    BY <2>1, <2>2, FreeRegErr
<1>4. Bad = {}
  <2>1. Bad \in SUBSET Nat
    OBVIOUS
  <2>2. \A m \in Nat : m \notin Bad => m + 1 \notin Bad
    BY <1>3
  <2> HIDE DEF Bad
  <2> QED
    BY <1>2, <2>1, <2>2, Ascent
<1>5. Good(Len(ls))
  BY <1>4
<1> QED
  BY <1>1, <1>5

\* An increasing sequence below `top` that takes all values from `bottom` on ends
\* with them, one after the other.
Increasing(g, n, top, bottom, K) ==
  /\ n \in Nat /\ top \in Nat /\ bottom \in 0..top /\ K \in 0..n
  /\ g \in [1..n -> 0..(top - 1)] /\ \A i, j \in 1..n : i < j => g[i] < g[j]
  /\ \A r \in bottom..(top - 1) : \E p \in 1..n : g[p] = r
  /\ \A i \in 1..n : g[i] < bottom <=> i <= K
\* Increasing numbers that fill an interval have no gap.
LEMMA Contiguous ==
  ASSUME NEW n, NEW top, NEW g, NEW bottom, NEW K, Increasing(g, n, top, bottom, K),
         NEW m \in K..n, NEW above, above = IF m = n THEN top ELSE g[m + 1]
  PROVE  /\ m > K => g[m] + 1 = above
         /\ m = K => above = bottom
<1> USE DEF Increasing
<1>1. m \in Nat /\ K \in Nat /\ K <= m /\ m <= n /\ bottom \in Nat /\ bottom <= top
  OBVIOUS
<1>2. \A i \in 1..n : g[i] \in Nat /\ g[i] < top
  OBVIOUS
<1>3. above \in Nat /\ above <= top /\ above >= bottom
  <2>1. CASE m = n
    BY <1>1, <2>1
  <2>2. CASE m # n
    <3>1. m + 1 \in 1..n /\ ~(m + 1 <= K) /\ above = g[m + 1]
      BY <1>1, <2>2
    <3> QED
      BY <1>1, <1>2, <3>1
  <2> QED
    BY <2>1, <2>2
<1>4. \A i \in 1..n : i > m => g[i] >= above
  <2>1. ASSUME NEW i \in 1..n, i > m PROVE g[i] >= above
    <3>1. m + 1 \in 1..n /\ above = g[m + 1] /\ (i = m + 1 \/ m + 1 < i)
      BY <1>1, <2>1
    <3> QED
      BY <1>2, <3>1
  <2> QED
    BY <2>1
<1>5. ASSUME above > bottom PROVE \E p \in 1..n : p <= m /\ g[p] = above - 1
  <2>1. above - 1 \in bottom..(top - 1)
    BY <1>1, <1>3, <1>5, SMTT(30)
  <2>2. PICK p \in 1..n : g[p] = above - 1
    BY <2>1
  <2>3. ~(p > m)
    BY <1>3, <1>4, <2>2
  <2> QED
    BY <1>1, <2>2, <2>3
<1>6. ASSUME m > K PROVE g[m] + 1 = above
  <2>1. m \in 1..n /\ ~(g[m] < bottom)
    BY <1>1, <1>6
  <2>2. g[m] < above
    <3>1. CASE m = n
      BY <1>2, <2>1, <3>1
    <3>2. CASE m # n
      <4>1. m + 1 \in 1..n /\ m < m + 1 /\ above = g[m + 1]
        BY <1>1, <3>2
      <4> QED
        BY <2>1, <4>1
    <3> QED
      BY <3>1, <3>2
  <2>3. above > bottom
    BY <1>1, <1>2, <1>3, <2>1, <2>2
  <2>4. PICK p \in 1..n : p <= m /\ g[p] = above - 1
    BY <1>5, <2>3
  <2>5. ~(p < m)
    <3>1. SUFFICES ASSUME p < m PROVE FALSE
      OBVIOUS
    <3>2. g[p] < g[m]
      BY <2>1, <3>1
    <3> QED
      BY <1>2, <1>3, <2>1, <2>2, <2>4, <3>2
  <2>6. p = m
    BY <1>1, <2>4, <2>5
  <2> QED
    BY <1>3, <2>4, <2>6
<1>7. ASSUME m = K PROVE above = bottom
  <2>1. SUFFICES ASSUME above > bottom PROVE FALSE
    BY <1>1, <1>3
  <2>2. PICK p \in 1..n : p <= m /\ g[p] = above - 1
    BY <1>5, <2>1
  <2>3. g[p] < bottom
    BY <1>7, <2>2
  <2> QED
    BY <1>1, <1>2, <1>3, <2>1, <2>2, <2>3
<1> QED
  BY <1>6, <1>7

\* The last local variables, from the last one down.
Gone(F, bottom) == Reverse(SubSeq(F.locals, Kept(F, bottom) + 1, Len(F.locals)))
\* The local variables that leave, in the order they are freed: the last one first.
LEMMA GoneElements ==
  ASSUME NEW F \in Fun, NEW K \in 0..Len(F.locals)
  PROVE  LET gone == Reverse(SubSeq(F.locals, K + 1, Len(F.locals))) n == Len(F.locals)
         IN Len(gone) = n - K /\ \A i \in 1..(n - K) : gone[i] = F.locals[n - i + 1]
<1> DEFINE n == Len(F.locals)
           s == SubSeq(F.locals, K + 1, n)
<1>1. F.locals \in Seq(Local) /\ n \in Nat /\ K \in Nat /\ K <= n
  BY FunFields
<1>2. Len(s) = n - K /\ \A i \in 1..(n - K) : s[i] = F.locals[K + i]
  BY <1>1
<1>3. Reverse(s) = [i \in 1..Len(s) |-> s[(Len(s) - i) + 1]]
  BY DEF Reverse
<1> HIDE DEF s
<1>4. Len(Reverse(s)) = n - K
  BY <1>1, <1>2, <1>3
<1>5. ASSUME NEW i \in 1..(n - K) PROVE Reverse(s)[i] = F.locals[n - i + 1]
  <2>1. Reverse(s)[i] = s[(n - K - i) + 1]
    BY <1>1, <1>2, <1>3
  <2>2. (n - K - i) + 1 \in 1..(n - K) /\ K + ((n - K - i) + 1) = n - i + 1
    BY <1>1
  <2> QED
    BY <1>2, <2>1, <2>2
<1> QED
  BY <1>4, <1>5 DEF s

\* The same for the variables above the bottom of a block.
LEMMA GoneLocals ==
  ASSUME NEW F \in Fun, NEW bottom, Kept(F, bottom) \in 0..Len(F.locals)
  PROVE  /\ Len(Gone(F, bottom)) = Len(F.locals) - Kept(F, bottom)
         /\ \A i \in 1..(Len(F.locals) - Kept(F, bottom)) :
              Gone(F, bottom)[i] = F.locals[Len(F.locals) - i + 1]
<1> DEFINE K == Kept(F, bottom)
<1>1. K \in 0..Len(F.locals)
  OBVIOUS
<1>2. Gone(F, bottom) = Reverse(SubSeq(F.locals, K + 1, Len(F.locals)))
  BY DEF Gone
<1> HIDE DEF K
<1>3. LET gone == Reverse(SubSeq(F.locals, K + 1, Len(F.locals))) n == Len(F.locals)
      IN Len(gone) = n - K /\ \A i \in 1..(n - K) : gone[i] = F.locals[n - i + 1]
  BY <1>1, GoneElements
<1> QED
  BY <1>2, <1>3 DEF K

\* Freeing one register after the other from the top down.
Descending(ls, k, above) ==
  /\ k \in Nat /\ Len(ls) = k /\ above \in [0..k -> Nat]
  /\ \A i \in 1..k : ls[i].reg = above[i] /\ above[i] + 1 = above[i - 1]
Lowered(G, F, top) == \E a \in Alloc : Packed(a) /\ a.stack_top = top /\ G = [F EXCEPT !.alloc = a]
\* Freeing the topmost registers one by one keeps the rest packed.
LEMMA FreeAllDown ==
  ASSUME NEW F \in Fun, F.err = "none", Packed(F.alloc), NEW ls, NEW k, NEW above,
         Descending(ls, k, above), above[0] = F.alloc.stack_top, FreeAll(F, ls).err = "none"
  PROVE  Lowered(FreeAll(F, ls), F, above[k])
<1> USE DEF Descending
<1>1. F.alloc \in Alloc /\ DOMAIN F = Fields /\ HasErr(F) /\ F = [F EXCEPT !.alloc = F.alloc]
  BY FunFields, FunDomain, FunSelf
<1>0. PICK f : Freeing(F, ls, k, f)
  BY FreeAllSteps
<1>2. /\ f[0] = F /\ FreeAll(F, ls) = f[k]
      /\ \A i \in 1..k : f[i] = FreeReg(f[i - 1], ls[i].reg)
  BY <1>0 DEF Freeing
<1> DEFINE Freed(i) == \E a \in Alloc : Packed(a) /\ a.stack_top = above[i] /\ f[i] = [F EXCEPT !.alloc = a]
           Bad == {i \in Nat : i <= k /\ ~(HasErr(f[i]) /\ (f[i].err = "none" => Freed(i)))}
<1>3. 0 \notin Bad
  <2>1. Freed(0)
    BY <1>1, <1>2
  <2> HIDE DEF Freed
  <2> QED
    BY <1>1, <1>2, <2>1
<1>4. ASSUME NEW i \in Nat, i \notin Bad PROVE i + 1 \notin Bad
  <2> SUFFICES ASSUME i + 1 <= k
               PROVE HasErr(f[i + 1]) /\ (f[i + 1].err = "none" => Freed(i + 1))
    BY DEF Bad
  <2>1. HasErr(f[i]) /\ (f[i].err = "none" => Freed(i))
    <3> HIDE DEF Freed
    <3> QED
      BY <1>4 DEF Bad
  <2>2. i + 1 \in 1..k /\ (i + 1) - 1 = i
    OBVIOUS
  <2> DEFINE r == above[i + 1]
  <2>3. f[i + 1] = FreeReg(f[i], r) /\ r + 1 = above[i] /\ r \in Nat
    BY <1>2, <2>2
  <2>4. HasErr(f[i + 1]) /\ (f[i + 1].err = "none" => f[i].err = "none"
          /\ f[i + 1] = [f[i] EXCEPT !.alloc = Free(@, r)])
    <3> HIDE DEF r, Freed
    <3>1. /\ HasErr(FreeReg(f[i], r))
          /\ FreeReg(f[i], r).err = "none" => f[i].err = "none" /\ CanFree(f[i].alloc, r)
                /\ FreeReg(f[i], r) = [f[i] EXCEPT !.alloc = Free(@, r)]
      BY <2>1, FreeRegErr, Zenon
    <3> QED
      BY <2>3, <3>1
  <2>5. ASSUME f[i + 1].err = "none" PROVE Freed(i + 1)
    <3>1. PICK a \in Alloc : Packed(a) /\ a.stack_top = above[i] /\ f[i] = [F EXCEPT !.alloc = a]
      BY <2>1, <2>4, <2>5
    <3>2. Free(a, r) \in Alloc /\ Packed(Free(a, r)) /\ Free(a, r).stack_top = r
      <4> HIDE DEF r
      <4> QED
        BY <2>3, <3>1, FreeTop
    <3>3. f[i + 1] = [F EXCEPT !.alloc = Free(a, r)]
      <4>1. f[i].alloc = a
        BY <1>1, <3>1 DEF Fields
      <4> QED
        BY <2>4, <2>5, <3>1, <4>1
    <3> QED
      BY <3>2, <3>3
  <2> QED
    BY <2>4, <2>5
<1>5. Bad = {}
  <2>1. Bad \in SUBSET Nat
    BY DEF Bad
  <2>2. \A m \in Nat : m \notin Bad => m + 1 \notin Bad
    BY <1>4
  <2> HIDE DEF Bad
  <2> QED
    BY <1>3, <2>1, <2>2, Ascent
<1>6. f[k].err = "none" => Freed(k)
  <2>1. k \notin Bad
    BY <1>5
  <2> HIDE DEF Freed
  <2> QED
    BY <2>1 DEF Bad
<1> QED
  BY <1>2, <1>6 DEF Lowered


\* From the top down, every value of such a sequence is one less than the one above.
LEMMA Descent ==
  ASSUME NEW n, NEW top, NEW g, NEW bottom, NEW K, Increasing(g, n, top, bottom, K)
  PROVE  \E above \in [0..(n - K) -> Nat] :
           /\ above[0] = top /\ above[n - K] = bottom
           /\ \A i \in 1..(n - K) : g[n - i + 1] = above[i] /\ above[i] + 1 = above[i - 1]
<1> DEFINE k == n - K
<1> DEFINE above == [i \in 0..k |-> IF i = 0 THEN top ELSE g[n - i + 1]]
<1>1. K \in Nat /\ K <= n /\ k \in Nat /\ n \in Nat /\ top \in Nat
  BY DEF Increasing
<1>2. \A i \in 1..n : g[i] \in Nat
  BY DEF Increasing
<1> HIDE DEF k
<1>0. k = n - K
  BY DEF k
<1>3. ASSUME NEW i \in 0..k
      PROVE  /\ above[i] \in Nat
             /\ i # k => g[n - i] + 1 = above[i]
             /\ i = k => above[i] = bottom
             /\ i # 0 => g[n - i + 1] = above[i]
  <2> DEFINE m == n - i
             x == above[i]
  <2>1. m \in K..n /\ (m = n <=> i = 0) /\ (i = k <=> m = K) /\ (i # k <=> m > K)
        /\ m + 1 = n - i + 1 /\ (m # n => m + 1 \in 1..n)
    BY <1>0, <1>1
  <2>2. x = IF m = n THEN top ELSE g[m + 1]
    BY <2>1
  <2>3. x \in Nat
    BY <1>1, <1>2, <2>1, <2>2
  <2> HIDE DEF m, x, above
  <2>4. (m > K => g[m] + 1 = x) /\ (m = K => x = bottom)
    BY <2>1, <2>2, Contiguous
  <2>5. i # 0 => g[m + 1] = x
    BY <2>1, <2>2
  <2> QED
    BY <2>1, <2>3, <2>4, <2>5 DEF m, x
<1>4. above[0] = top /\ above \in [0..k -> Nat]
  <2>1. above = [i \in 0..k |-> above[i]] /\ 0 \in 0..k /\ above[0] = top
    BY <1>1
  <2> HIDE DEF above
  <2> QED
    BY <1>3, <2>1
<1> HIDE DEF above
<1>5. above[k] = bottom
  BY <1>1, <1>3
<1>6. ASSUME NEW i \in 1..k PROVE g[n - i + 1] = above[i] /\ above[i] + 1 = above[i - 1]
  <2>1. i \in 0..k /\ i # 0 /\ i - 1 \in 0..k /\ i - 1 # k /\ n - (i - 1) = n - i + 1
    BY <1>0, <1>1
  <2>2. g[n - i + 1] = above[i]
    BY <1>3, <2>1
  <2>3. g[n - (i - 1)] + 1 = above[i - 1]
    BY <1>3, <2>1
  <2> QED
    BY <2>1, <2>2, <2>3
<1> QED
  BY <1>4, <1>5, <1>6 DEF k

\* Freed from the last one down to a block's bottom, the local variables leave that
\* as the top.
LEMMA FreeLocalsDown ==
  ASSUME NEW F \in Fun, F.err = "none", Packed(F.alloc), NEW hidden, Layout(F, hidden),
         NEW bottom \in Nat, bottom <= F.alloc.stack_top, \A r \in hidden : r < bottom,
         FreeAll(F, Gone(F, bottom)).err = "none"
  PROVE  Lowered(FreeAll(F, Gone(F, bottom)), F, bottom)
<1> DEFINE n == Len(F.locals)
           K == Kept(F, bottom)
           top == F.alloc.stack_top
           gone == Gone(F, bottom)
           g == [i \in 1..n |-> F.locals[i].reg]
           k == n - K
<1>1. F.locals \in Seq(Local) /\ Ordered(F.locals) /\ n \in Nat /\ top \in Nat
  BY FunFields DEF Layout, LayoutTo
<1>2. K \in 0..n /\ \A i \in 1..n : F.locals[i].reg < bottom <=> i <= K
  BY <1>1, KeptPrefix
<1>3. Len(gone) = k /\ k \in Nat /\ \A i \in 1..k : gone[i] = F.locals[n - i + 1]
  <2>1. /\ Len(Gone(F, bottom)) = n - K
        /\ \A i \in 1..(n - K) : Gone(F, bottom)[i] = F.locals[n - i + 1]
    BY <1>2, GoneLocals
  <2>2. k \in Nat
    BY <1>1, <1>2
  <2> QED
    BY <2>1, <2>2
<1>4. g \in [1..n -> 0..(top - 1)]
  <2>1. ASSUME NEW i \in 1..n PROVE F.locals[i].reg \in 0..(top - 1)
    BY DEF LayoutTo, Layout, RegsOf
  <2> QED
    BY <2>1
<1>5. \A i, j \in 1..n : i < j => g[i] < g[j]
  BY <1>1 DEF Ordered
<1>6. \A r \in bottom..(top - 1) : \E p \in 1..n : g[p] = r
  <2>1. ASSUME NEW r \in bottom..(top - 1) PROVE \E p \in 1..n : F.locals[p].reg = r
    <3>1. r \notin hidden /\ r \in 0..(top - 1)
      BY <1>1
    <3>2. r \in RegsOf(F.locals)
      BY <3>1 DEF Layout, LayoutTo
    <3> QED
      BY <3>2 DEF RegsOf
  <2> QED
    BY <2>1
<1>7. \A i \in 1..n : g[i] < bottom <=> i <= K
  BY <1>2
<1>8. bottom \in 0..top
  BY <1>1
<1>9. PICK above \in [0..k -> Nat] :
           /\ above[0] = top /\ above[k] = bottom
           /\ \A i \in 1..k : g[n - i + 1] = above[i] /\ above[i] + 1 = above[i - 1]
  <2> HIDE DEF g, K, n, top
  <2>1. Increasing(g, n, top, bottom, K)
    BY <1>1, <1>2, <1>4, <1>5, <1>6, <1>7, <1>8 DEF Increasing
  <2> QED
    BY <2>1, Descent
<1>10. \A i \in 1..k : gone[i].reg = above[i] /\ above[i] + 1 = above[i - 1]
  <2>1. ASSUME NEW i \in 1..k PROVE gone[i].reg = above[i] /\ above[i] + 1 = above[i - 1]
    <3>1. n - i + 1 \in 1..n
      BY <1>1, <1>2, <1>3
    <3>2. gone[i].reg = g[n - i + 1]
      BY <1>3, <3>1
    <3>3. g[n - i + 1] = above[i] /\ above[i] + 1 = above[i - 1]
      BY <1>9
    <3> HIDE DEF g, k, n, gone
    <3> QED
      BY <3>2, <3>3
  <2> QED
    BY <2>1
<1> HIDE DEF k, g
<1>11. Descending(gone, k, above)
  BY <1>3, <1>9, <1>10 DEF Descending
<1> QED
  BY <1>9, <1>11, FreeAllDown

\* exit_block frees the registers of its variables and no others: its block's bottom is
\* the new stack top, and what is below, hidden registers included, keeps its place.
LEMMA FreeLocalsLeaves ==
  ASSUME NEW F \in Fun, Ready(F), NEW hidden, Layout(F, hidden),
         NEW bottom \in Nat, bottom <= F.alloc.stack_top, \A r \in hidden : r < bottom
  PROVE  LET G == FreeLocals(F, bottom)
         IN /\ HasErr(G)
            /\ G.err = "none" =>
                 /\ Ready(G) /\ Layout(G, hidden) /\ G.alloc.stack_top = bottom
                 /\ G.blocks = F.blocks /\ G.upvalues = F.upvalues /\ G.ctx = F.ctx
                 /\ G.params = F.params /\ G.ops = F.ops /\ G.targets = F.targets
<1> DEFINE K == Kept(F, bottom)
           gone == Gone(F, bottom)
           A == FreeAll(F, gone)
           G == FreeLocals(F, bottom)
           n == Len(F.locals)
<1>1. /\ F.err = "none" /\ Packed(F.alloc) /\ Coded(F) /\ HasErr(F) /\ F.locals \in Seq(Local)
      /\ n \in Nat /\ F.alloc.stack_top \in Nat /\ Ordered(F.locals)
  BY FunFields DEF Ready, Layout, LayoutTo
<1>2. G = [A EXCEPT !.locals = SubSeq(@, 1, K)]
  BY DEF FreeLocals, Kept, Gone
<1>3. K \in 0..n /\ \A i \in 1..n : F.locals[i].reg < bottom <=> i <= K
  BY <1>1, KeptPrefix
<1>4. Len(gone) \in Nat
  BY <1>1, <1>3, GoneLocals
<1>5. HasErr(A)
  <2> HIDE DEF gone
  <2> QED
    BY <1>1, <1>4, FreeAllErr
<1>6. HasErr(G) /\ G.err = A.err
  <2> HIDE DEF A, K, G
  <2> QED
    BY <1>2, <1>5 DEF HasErr
<1>7. ASSUME G.err = "none"
      PROVE  /\ Ready(G) /\ Layout(G, hidden) /\ G.alloc.stack_top = bottom
             /\ G.blocks = F.blocks /\ G.upvalues = F.upvalues /\ G.ctx = F.ctx
             /\ G.params = F.params /\ G.ops = F.ops /\ G.targets = F.targets
  <2>1. Lowered(A, F, bottom)
    BY <1>1, <1>6, <1>7, FreeLocalsDown
  <2>2. PICK a \in Alloc : Packed(a) /\ a.stack_top = bottom /\ A = [F EXCEPT !.alloc = a]
    BY <2>1 DEF Lowered
  <2> DEFINE ls == SubSeq(F.locals, 1, K)
  <2>3. ls \in Seq(Local) /\ Len(ls) = K /\ \A i \in 1..K : ls[i] = F.locals[i]
    BY <1>1, <1>3
  <2> HIDE DEF G, A, K, ls
  <2>4. A \in Fun /\ A.locals = F.locals
    BY <2>2, FunChange, FunDomain DEF Fields
  <2>5. G = [A EXCEPT !.locals = ls]
    BY <1>2, <2>4 DEF ls
  <2>6. G \in Fun
    BY <2>3, <2>4, <2>5, FunChange
  <2>7. G.locals = ls /\ G.alloc = a
    BY <2>2, <2>4, <2>5, FunDomain DEF Fields
  <2>8. /\ G.blocks = F.blocks /\ G.upvalues = F.upvalues /\ G.ctx = F.ctx
        /\ G.params = F.params /\ G.ops = F.ops /\ G.targets = F.targets
    BY <2>2, <2>4, <2>5, FunDomain DEF Fields
  <2>9. Ready(G)
    BY <1>1, <1>7, <2>2, <2>6, <2>7, <2>8 DEF Ready, Coded
  <2>10. Ordered(ls)
    BY <1>1, <1>3, <2>3 DEF Ordered
  <2>11. RegsOf(ls) = {r \in RegsOf(F.locals) : r < bottom}
    <3>1. ASSUME NEW r \in RegsOf(ls) PROVE r \in RegsOf(F.locals) /\ r < bottom
      <4>1. PICK i \in 1..K : r = F.locals[i].reg
        BY <2>3 DEF RegsOf
      <4>2. i \in 1..n /\ i <= K
        BY <1>1, <1>3
      <4> QED
        BY <1>3, <4>1, <4>2 DEF RegsOf
    <3>2. ASSUME NEW r \in RegsOf(F.locals), r < bottom PROVE r \in RegsOf(ls)
      <4>1. PICK i \in 1..n : r = F.locals[i].reg
        BY DEF RegsOf
      <4>2. i \in 1..K
        BY <1>1, <1>3, <3>2, <4>1
      <4> QED
        BY <2>3, <4>1, <4>2 DEF RegsOf
    <3> QED
      BY <3>1, <3>2
  <2>12. RegsOf(ls) \cap hidden = {} /\ RegsOf(ls) \cup hidden = 0..(bottom - 1)
    <3>1. RegsOf(F.locals) \cap hidden = {} /\ RegsOf(F.locals) \cup hidden = 0..(F.alloc.stack_top - 1)
      BY DEF Layout, LayoutTo
    <3> QED
      BY <1>1, <2>11, <3>1
  <2> QED
    BY <2>2, <2>7, <2>8, <2>9, <2>10, <2>12 DEF Layout, LayoutTo
<1> HIDE DEF G
<1> QED
  BY <1>6, <1>7 DEF G

\* The jumps that wait for a label.
LEMMA PendingFollows ==
  ASSUME NEW F, Given(F), NEW p, F.err = "none" => p \in Seq(Pending)
  PROVE  Follows([F EXCEPT !.pending = p], F)
<1> DEFINE G == [F EXCEPT !.pending = p]
<1>1. HasErr(G) /\ G.err = F.err
  BY DEF Given, HasErr
<1>2. ASSUME F.err = "none" PROVE Ready(G) /\ Same(G, F)
  <2>1. /\ F \in Fun /\ Packed(F.alloc) /\ Coded(F) /\ Len(F.ops) \in Nat
        /\ Len(F.targets) \in Nat
    BY <1>2, FunFields DEF Given, Ready
  <2>2. G \in Fun
    BY <1>2, <2>1, FunChange
  <2>3. /\ G.ops = F.ops /\ G.targets = F.targets /\ G.alloc = F.alloc /\ G.locals = F.locals
        /\ G.upvalues = F.upvalues /\ G.blocks = F.blocks /\ G.ctx = F.ctx /\ G.params = F.params
    BY <2>1, FunDomain DEF Fields
  <2> HIDE DEF G
  <2>4. Ready(G)
    BY <1>1, <1>2, <2>1, <2>2, <2>3 DEF Ready, Coded
  <2>5. Same(G, F)
    BY <1>2, <2>1, <2>3 DEF Same
  <2> QED
    BY <2>4, <2>5
<1> HIDE DEF G
<1> QED
  BY <1>1, <1>2 DEF Follows, Given, G

\* The labels that are placed.
LEMMA TargetsFollows ==
  ASSUME NEW F, Given(F), NEW ts,
         F.err = "none" => ts \in Seq(Target) /\ Len(F.targets) <= Len(ts)
                           /\ \A i \in 1..Len(ts) : ts[i].instruction <= Len(F.ops)
  PROVE  Follows([F EXCEPT !.targets = ts], F)
<1> DEFINE G == [F EXCEPT !.targets = ts]
<1>1. HasErr(G) /\ G.err = F.err
  BY DEF Given, HasErr
<1>2. ASSUME F.err = "none" PROVE Ready(G) /\ Same(G, F)
  <2>1. /\ F \in Fun /\ Packed(F.alloc) /\ Coded(F) /\ Len(F.ops) \in Nat
        /\ Len(F.targets) \in Nat
    BY <1>2, FunFields DEF Given, Ready
  <2>2. G \in Fun
    BY <1>2, <2>1, FunChange
  <2>3. /\ G.ops = F.ops /\ G.targets = ts /\ G.alloc = F.alloc /\ G.locals = F.locals
        /\ G.upvalues = F.upvalues /\ G.blocks = F.blocks /\ G.ctx = F.ctx /\ G.params = F.params
    BY <2>1, FunDomain DEF Fields
  <2> HIDE DEF G
  <2>4. Ready(G)
    BY <1>1, <1>2, <2>1, <2>2, <2>3 DEF Ready, Coded
  <2>5. Same(G, F)
    BY <1>2, <2>1, <2>3 DEF Same
  <2> QED
    BY <2>4, <2>5
<1> HIDE DEF G
<1> QED
  BY <1>1, <1>2 DEF Follows, Given, G

\* Jumps move out of the block that is left.
LEMMA MovedOutPending ==
  ASSUME NEW p \in Pending, NEW n \in Nat, NEW top \in Nat, NEW owned \in BOOLEAN
  PROVE  MovedOut(p, n, top, owned) \in Pending
<1>1. n - 1 \in Int /\ (p.close_upvalues \/ owned) \in BOOLEAN
  OBVIOUS
<1> QED
  BY <1>1, Zenon DEF Pending, MovedOut

\* Closing a block's upvalues and moving its pending jumps out keep registers and
\* variables.
LEMMA LeaveBlockFollows ==
  ASSUME NEW F, Given(F), NEW owned \in BOOLEAN
  PROVE  Follows(LeaveBlock(F, owned), F)
<1> DEFINE n == Len(F.blocks)
           top == F.alloc.stack_top
           first == SelectLastInSeq(F.pending, LAMBDA p : p.block_index < n) + 1
           ps == [i \in 1..Len(F.pending) |->
                    IF i < first THEN F.pending[i] ELSE MovedOut(F.pending[i], n, top, owned)]
<1>1. \/ LeaveBlock(F, owned) = F
      \/ LeaveBlock(F, owned) = Fail(F, "panic")
      \/ LeaveBlock(F, owned) = [F EXCEPT !.pending = ps]
  BY DEF LeaveBlock, SelectLastInSeq
<1>2. Follows(F, F)
  BY FunFields DEF Follows, Given, Ready, Same
<1>3. Follows(Fail(F, "panic"), F)
  BY FailFollows DEF Given, Errors
<1>4. Follows([F EXCEPT !.pending = ps], F)
  <2>1. ASSUME F.err = "none" PROVE ps \in Seq(Pending)
    <3>1. F.pending \in Seq(Pending) /\ n \in Nat /\ top \in Nat
      BY <2>1, FunFields DEF Given, Ready
    <3>2. ASSUME NEW i \in 1..Len(F.pending)
          PROVE  (IF i < first THEN F.pending[i] ELSE MovedOut(F.pending[i], n, top, owned)) \in Pending
      <4> HIDE DEF first, n, top
      <4>1. F.pending[i] \in Pending
        BY <3>1
      <4> QED
        BY <3>1, <4>1, MovedOutPending
    <3> HIDE DEF first, n, top
    <3> QED
      BY <3>1, <3>2
  <2> HIDE DEF ps
  <2> QED
    BY <2>1, PendingFollows
<1> HIDE DEF ps
<1> QED
  BY <1>1, <1>2, <1>3, <1>4

\* A block can be left when the hidden registers are below it; then its local
\* variables are gone and the registers are as they were when it was entered.
CanLeave(F, hidden) ==
  /\ F.blocks # << >> /\ Layout(F, hidden) /\ Nested(F)
  /\ \A r \in hidden : r < Top(F.blocks).stack_bottom
HasLeft(G, F, hidden) ==
  /\ G.blocks = Pop(F.blocks) /\ G.alloc.stack_top = Top(F.blocks).stack_bottom
  /\ G.upvalues = F.upvalues /\ G.ctx = F.ctx /\ G.params = F.params
  /\ Len(F.ops) <= Len(G.ops) /\ Layout(G, hidden) /\ Nested(G)

\* Dropping the labels of a block keeps the rest.
LEMMA ReadyTargets ==
  ASSUME NEW F, Ready(F), NEW n \in 0..Len(F.targets)
  PROVE  LET G == [F EXCEPT !.targets = SubSeq(F.targets, 1, n)]
         IN /\ Ready(G) /\ Len(G.targets) = n
            /\ G.ops = F.ops /\ G.alloc = F.alloc /\ G.locals = F.locals /\ G.upvalues = F.upvalues
            /\ G.blocks = F.blocks /\ G.ctx = F.ctx /\ G.params = F.params
<1> DEFINE ts == SubSeq(F.targets, 1, n)
           G == [F EXCEPT !.targets = ts]
<1>1. /\ F \in Fun /\ F.err = "none" /\ Packed(F.alloc) /\ Coded(F) /\ F.targets \in Seq(Target)
      /\ Len(F.targets) \in Nat
  BY FunFields DEF Ready
<1>2. ts \in Seq(Target) /\ Len(ts) = n /\ \A i \in 1..n : ts[i] = F.targets[i] /\ i \in 1..Len(F.targets)
  BY <1>1
<1> HIDE DEF ts
<1>3. G \in Fun
  BY <1>1, <1>2, FunChange
<1>4. /\ G.ops = F.ops /\ G.targets = ts /\ G.alloc = F.alloc /\ G.locals = F.locals
      /\ G.upvalues = F.upvalues /\ G.blocks = F.blocks /\ G.ctx = F.ctx /\ G.params = F.params
      /\ G.err = F.err
  BY <1>1, FunDomain DEF Fields
<1> HIDE DEF G
<1>5. Ready(G)
  BY <1>1, <1>2, <1>3, <1>4 DEF Ready, Coded
<1> QED
  BY <1>2, <1>4, <1>5 DEF G, ts

\* The list of blocks may be changed while a block is left.
LEMMA ReadyBlocks ==
  ASSUME NEW F, Ready(F), NEW bs \in Seq(Block)
  PROVE  LET G == [F EXCEPT !.blocks = bs]
         IN /\ Ready(G) /\ G.blocks = bs
            /\ G.ops = F.ops /\ G.alloc = F.alloc /\ G.locals = F.locals /\ G.upvalues = F.upvalues
            /\ G.targets = F.targets /\ G.ctx = F.ctx /\ G.params = F.params
<1> DEFINE G == [F EXCEPT !.blocks = bs]
<1>1. F \in Fun /\ F.err = "none" /\ Packed(F.alloc) /\ Coded(F)
  BY DEF Ready
<1>3. G \in Fun
  BY <1>1, FunChange
<1>4. /\ G.ops = F.ops /\ G.targets = F.targets /\ G.alloc = F.alloc /\ G.locals = F.locals
      /\ G.upvalues = F.upvalues /\ G.blocks = bs /\ G.ctx = F.ctx /\ G.params = F.params
      /\ G.err = F.err
  BY <1>1, FunDomain DEF Fields
<1> HIDE DEF G
<1>5. Ready(G)
  BY <1>1, <1>3, <1>4 DEF Ready, Coded
<1> QED
  BY <1>4, <1>5 DEF G

\* The jump that closes the upvalues of a block leads to the next instruction.
LEMMA CloseJump ==
  ASSUME NEW F, Given(F), NEW c \in Int
  PROVE  Follows(Emit(F, JumpOp(0, c)), F)
<1>1. JumpOp(0, c) \in Instr /\ JumpOp(0, c).offset = 0
  BY DEF JumpOp, Instr, JumpInstr
<1>2. F.err = "none" => Len(F.ops) + 1 + 0 \in 0..(Len(F.ops) + 1)
  BY FunFields DEF Given, Ready
<1> QED
  BY <1>1, <1>2, EmitFollows

\* The fields of a block have their types.
LEMMA BlockFields ==
  ASSUME NEW b \in Block
  PROVE  b.stack_bottom \in Nat /\ b.bottom_jump_target \in Nat /\ b.owns_upvalues \in BOOLEAN
  BY DEF Block

\* exit_block leaves one block: registers, variables, labels and blocks are those of the
\* block around it.
LEMMA ExitBlockLeaves ==
  ASSUME NEW F, Given(F), NEW hidden, F.err = "none" => CanLeave(F, hidden)
  PROVE  /\ Given(ExitBlock(F))
         /\ ExitBlock(F).err = "none" => F.err = "none" /\ HasLeft(ExitBlock(F), F, hidden)
<1>1. CASE F.err # "none"
  BY <1>1 DEF ExitBlock
<1>2. CASE F.err = "none"
  <2> DEFINE last == Top(F.blocks)
             bottom == last.stack_bottom
             A == [F EXCEPT !.blocks = Pop(F.blocks)]
             G == FreeLocals(A, bottom)
             H == [G EXCEPT !.targets = SubSeq(G.targets, 1, last.bottom_jump_target)]
             J == IF last.owns_upvalues /\ H.blocks # << >> THEN Emit(H, JumpOp(0, bottom)) ELSE H
             R == LeaveBlock(J, last.owns_upvalues)
  <2>1. ExitBlock(F) = R
    BY <1>2 DEF ExitBlock
  <2>2. Ready(F) /\ F \in Fun /\ F.blocks \in Seq(Block) /\ F.blocks # << >> /\ Layout(F, hidden)
        /\ Nested(F) /\ (\A r \in hidden : r < bottom)
    BY <1>2, FunFields DEF Given, Ready, CanLeave
  <2>3. /\ last \in Block /\ last = F.blocks[Len(F.blocks)] /\ Len(F.blocks) \in 1..Len(F.blocks)
        /\ Pop(F.blocks) \in Seq(Block) /\ Len(Pop(F.blocks)) = Len(F.blocks) - 1
        /\ Len(F.blocks) \in Nat
        /\ \A i \in 1..(Len(F.blocks) - 1) : Pop(F.blocks)[i] = F.blocks[i]
    BY <2>2, NonEmpty, PopElements DEF Top
  <2>4. bottom \in Nat /\ last.bottom_jump_target \in Nat /\ last.owns_upvalues \in BOOLEAN
    <3> HIDE DEF last
    <3> QED
      BY <2>3, BlockFields
  <2>5. bottom <= F.alloc.stack_top /\ last.bottom_jump_target <= Len(F.targets)
    <3>1. Within(F.blocks[Len(F.blocks)], F.alloc.stack_top, Len(F.targets))
      BY <2>2, <2>3 DEF Nested
    <3> QED
      BY <2>3, <3>1 DEF Within
  <2> HIDE DEF last, bottom
  <2>6. /\ Ready(A) /\ A.blocks = Pop(F.blocks) /\ A.alloc = F.alloc /\ A.locals = F.locals
        /\ A.upvalues = F.upvalues /\ A.ctx = F.ctx /\ A.params = F.params /\ A.ops = F.ops
        /\ A.targets = F.targets
    BY <2>2, <2>3, ReadyBlocks
  <2> HIDE DEF A
  <2>7. Layout(A, hidden) /\ bottom <= A.alloc.stack_top /\ A \in Fun
    BY <2>2, <2>5, <2>6 DEF LayoutTo, Layout, Ready
  <2>8. /\ HasErr(G)
        /\ G.err = "none" =>
             /\ Ready(G) /\ Layout(G, hidden) /\ G.alloc.stack_top = bottom
             /\ G.blocks = A.blocks /\ G.upvalues = A.upvalues /\ G.ctx = A.ctx
             /\ G.params = A.params /\ G.ops = A.ops /\ G.targets = A.targets
    BY <2>2, <2>4, <2>6, <2>7, FreeLocalsLeaves
  <2> HIDE DEF G
  <2>9. HasErr(H) /\ H.err = G.err
    BY <2>8 DEF HasErr
  <2>10. ASSUME G.err = "none"
         PROVE  /\ Ready(H) /\ Len(H.targets) = last.bottom_jump_target
                /\ H.ops = G.ops /\ H.alloc = G.alloc /\ H.locals = G.locals
                /\ H.upvalues = G.upvalues /\ H.blocks = G.blocks /\ H.ctx = G.ctx /\ H.params = G.params
    <3>1. Ready(G) /\ last.bottom_jump_target \in 0..Len(G.targets)
      <4>1. Len(F.targets) \in Nat
        BY <2>2, FunFields
      <4> QED
        BY <2>4, <2>5, <2>6, <2>8, <2>10, <4>1
    <3> QED
      BY <3>1, ReadyTargets
  <2> HIDE DEF H
  <2>11. Given(H)
    BY <2>9, <2>10 DEF Given
  <2>12. Follows(H, H)
    BY <2>11, FunFields DEF Follows, Given, Ready, Same
  <2>13. Follows(J, H)
    <3>1. bottom \in Int
      BY <2>4
    <3>2. Follows(Emit(H, JumpOp(0, bottom)), H)
      BY <2>11, <3>1, CloseJump
    <3> QED
      BY <2>12, <3>2
  <2> HIDE DEF J
  <2>14. Follows(R, J)
    BY <2>4, <2>13, LeaveBlockFollows DEF Follows
  <2> HIDE DEF R
  <2>15. Follows(R, H)
    BY <2>11, <2>13, <2>14, FollowsTrans
  <2>16. ASSUME R.err = "none" PROVE HasLeft(R, F, hidden)
    <3>1. H.err = "none" /\ Same(R, H) /\ G.err = "none"
      BY <2>9, <2>15, <2>16 DEF Follows
    <3>2. /\ R.blocks = Pop(F.blocks) /\ R.alloc.stack_top = bottom /\ R.upvalues = F.upvalues
          /\ R.ctx = F.ctx /\ R.params = F.params /\ Len(F.ops) <= Len(R.ops)
          /\ R.locals = G.locals /\ last.bottom_jump_target <= Len(R.targets)
      BY <2>6, <2>8, <2>10, <3>1 DEF Same
    <3>3. Layout(R, hidden)
      BY <2>8, <3>1, <3>2 DEF Layout, LayoutTo
    <3>4. Nested(R)
      <4>1. ASSUME NEW i \in 1..Len(R.blocks)
            PROVE  /\ R.blocks[i] = F.blocks[i] /\ i \in 1..Len(F.blocks)
                   /\ Within(R.blocks[i], R.alloc.stack_top, Len(R.targets))
        <5>1. R.blocks[i] = F.blocks[i] /\ i \in 1..Len(F.blocks) /\ i < Len(F.blocks)
          BY <2>3, <3>2
        <5>2. Within(F.blocks[i], F.blocks[Len(F.blocks)].stack_bottom,
                     F.blocks[Len(F.blocks)].bottom_jump_target)
          BY <2>2, <2>3, <5>1 DEF Nested
        <5>3. F.blocks[i].stack_bottom <= bottom /\ F.blocks[i].bottom_jump_target <= last.bottom_jump_target
          BY <2>3, <5>2 DEF Within, bottom
        <5>4. Len(R.targets) \in Nat
          BY <2>14, <2>16, FunFields DEF Follows, Given, Ready
        <5>5. F.blocks[i] \in Block
          BY <2>2, <5>1
        <5>6. F.blocks[i].bottom_jump_target \in Nat
          BY <5>5, BlockFields
        <5>7. R.alloc.stack_top = bottom /\ last.bottom_jump_target <= Len(R.targets)
          BY <3>2
        <5>8. F.blocks[i].bottom_jump_target <= Len(R.targets)
          BY <2>4, <5>3, <5>4, <5>6, <5>7
        <5> QED
          BY <5>1, <5>3, <5>7, <5>8 DEF Within
      <4> QED
        BY <2>2, <4>1 DEF Nested
    <3> QED
      BY <3>2, <3>3, <3>4 DEF HasLeft, bottom, last
  <2> QED
    BY <1>2, <2>1, <2>15, <2>16 DEF Follows
<1> QED
  BY <1>1, <1>2

-----------------------------------------------------------------------------
(* Jumps and labels. *)

\* The target of a jump is one of the labels, or none.
LEMMA LastTarget ==
  ASSUME NEW F, Len(F.targets) \in Nat, NEW label
  PROVE  TargetOf(F, label) \in 0..Len(F.targets)
<1> DEFINE T == {i \in 1..Len(F.targets) : F.targets[i].label = label}
<1>1. TargetOf(F, label) = IF T # {} THEN Max(T) ELSE 0
  BY DEF TargetOf, SelectLastInSeq
<1>2. T \subseteq 0..Len(F.targets)
  OBVIOUS
<1>3. T # {} => Max(T) \in T
  BY <1>2, Bounds
<1> QED
  BY <1>1, <1>2, <1>3

\* A jump to a label not yet seen is a pending jump of the right type.
LEMMA PendingJump ==
  ASSUME NEW F \in Fun, NEW label \in Label
  PROVE  [label |-> label, instruction |-> Len(F.ops), block_index |-> Len(F.blocks) - 1,
          stack_top |-> F.alloc.stack_top, close_upvalues |-> FALSE] \in Pending
<1>1. Len(F.ops) \in Nat /\ Len(F.blocks) - 1 \in Int /\ F.alloc.stack_top \in Nat
  BY FunFields
<1> QED
  BY <1>1 DEF Pending

\* A jump leads to a label in the code, or waits for one.
LEMMA JumpFollows ==
  ASSUME NEW F, Given(F), NEW label \in Label
  PROVE  Follows(Jump(F, label), F)
<1>1. CASE F.err # "none"
  <2>1. Jump(F, label) = F
    BY <1>1 DEF Jump
  <2> QED
    BY <1>1, <2>1 DEF Follows
<1>2. CASE F.err = "none"
  <2> DEFINE here == Len(F.ops)
             found == TargetOf(F, label)
             t == F.targets[found]
             new == [label |-> label, instruction |-> here, block_index |-> Len(F.blocks) - 1,
                     stack_top |-> F.alloc.stack_top, close_upvalues |-> FALSE]
             A == Emit(F, JumpOp(0, None))
  <2>1. /\ F \in Fun /\ Coded(F) /\ here \in Nat /\ F.alloc.stack_top \in Nat
        /\ F.targets \in Seq(Target) /\ Len(F.targets) \in Nat
    BY <1>2, FunFields DEF Given, Ready
  <2>2. found \in 0..Len(F.targets)
    BY <2>1, LastTarget
  <2>3. found = 0 => Jump(F, label) = [A EXCEPT !.pending = Append(@, new)]
    BY <1>2 DEF Jump, Here
  <2>4. found # 0 => \/ Jump(F, label) = Fail(F, "panic")
                     \/ \E c \in {t.stack_top, None} :
                          Jump(F, label) = Emit(F, JumpOp(jump_offset(here, t.instruction), c))
    <3> DEFINE needs_close == /\ t.stack_top < F.alloc.stack_top
                              /\ \E i \in t.block_index..(Len(F.blocks) - 1) : F.blocks[i + 1].owns_upvalues
               c == IF needs_close THEN t.stack_top ELSE None
    <3>1. c \in {t.stack_top, None}
      OBVIOUS
    <3>2. found # 0 => \/ Jump(F, label) = Fail(F, "panic")
                       \/ Jump(F, label) = Emit(F, JumpOp(jump_offset(here, t.instruction), c))
      BY <1>2 DEF Jump, Here
    <3> HIDE DEF c
    <3> QED
      BY <3>1, <3>2
  <2>5. CASE found = 0
    <3>1. Follows(A, F)
      BY CloseJump DEF None
    <3>2. A.pending = F.pending
      BY <2>1, FunDomain DEF Emit, Fields
    <3>3. new \in Pending
      BY <2>1, PendingJump
    <3> HIDE DEF A, new
    <3>4. Jump(F, label) = [A EXCEPT !.pending = Append(F.pending, new)]
      BY <2>3, <2>5, <3>2
    <3>5. Append(F.pending, new) \in Seq(Pending)
      BY <2>1, <3>3, FunFields
    <3>6. Follows([A EXCEPT !.pending = Append(F.pending, new)], A)
      BY <3>1, <3>5, PendingFollows DEF Follows
    <3> QED
      BY <3>1, <3>4, <3>6, FollowsTrans
  <2>6. CASE found # 0
    <3>1. t \in Target /\ t.instruction <= here
      BY <2>1, <2>2, <2>6 DEF Coded
    <3>2. t.instruction \in Nat /\ t.stack_top \in Nat
      BY <3>1 DEF Target
    <3> DEFINE off == jump_offset(here, t.instruction)
    <3> HIDE DEF t, here
    <3>3. here + 1 + off \in 0..(here + 1) /\ off \in Int
      <4>1. \A h, x \in Nat : x <= h => h + 1 + (x - (h + 1)) \in 0..(h + 1) /\ x - (h + 1) \in Int
        OBVIOUS
      <4> QED
        BY <2>1, <3>1, <3>2, <4>1 DEF jump_offset
    <3>4. ASSUME NEW c \in {t.stack_top, None}
          PROVE  Follows(Emit(F, JumpOp(off, c)), F)
      <4>1. c \in Int
        BY <3>2 DEF None
      <4> HIDE DEF off, t
      <4>2. JumpOp(off, c) \in Instr /\ JumpOp(off, c).offset = off
        BY <3>3, <4>1 DEF JumpOp, Instr, JumpInstr
      <4> QED
        BY <3>3, <4>2, EmitFollows DEF here
    <3>5. Follows(Fail(F, "panic"), F)
      BY FailFollows DEF Given, Errors
    <3> QED
      BY <2>4, <2>6, <3>4, <3>5 DEF here
  <2> QED
    BY <2>5, <2>6
<1> QED
  BY <1>1, <1>2

\* Unresolved picks the jumps that wait for another label, one after the other.
RestStep(F, label, f, i) ==
  IF i = 0 THEN << >>
  ELSE IF i \in Resolved(F, label) THEN f[i - 1] ELSE Append(f[i - 1], F.pending[i])
\* The recursive function of Unresolved exists.
LEMMA UnresolvedDefined ==
  ASSUME NEW F, NEW label, NEW n \in Nat
  PROVE  \E f : f = [i \in 0..n |-> RestStep(F, label, f, i)]
<1> DEFINE Bad == {m \in Nat : ~ \E f : f = [i \in 0..m |-> RestStep(F, label, f, i)]}
<1>1. 0 \notin Bad
  <2> DEFINE f == [i \in 0..0 |-> << >>]
  <2>1. f = [i \in 0..0 |-> RestStep(F, label, f, i)]
    BY DEF RestStep
  <2> QED
    BY <2>1
<1>2. ASSUME NEW m \in Nat, m \notin Bad PROVE m + 1 \notin Bad
  <2>1. PICK f : f = [i \in 0..m |-> RestStep(F, label, f, i)]
    BY <1>2
  <2> DEFINE last == IF m + 1 \in Resolved(F, label) THEN f[m] ELSE Append(f[m], F.pending[m + 1])
             g == [i \in 0..(m + 1) |-> IF i = m + 1 THEN last ELSE f[i]]
  <2>2. \A i \in 0..m : g[i] = f[i]
    OBVIOUS
  <2>3. g[m + 1] = last
    OBVIOUS
  <2>4. ASSUME NEW i \in 0..(m + 1) PROVE g[i] = RestStep(F, label, g, i)
    <3>1. CASE i = m + 1
      <4>1. (m + 1) - 1 = m /\ m \in 0..m /\ m + 1 # 0
        OBVIOUS
      <4> HIDE DEF g
      <4> QED
        BY <2>2, <2>3, <3>1, <4>1 DEF RestStep
    <3>2. CASE i # m + 1
      <4>1. i \in 0..m /\ (i # 0 => i - 1 \in 0..m)
        BY <3>2
      <4>2. f[i] = RestStep(F, label, f, i)
        BY <2>1, <4>1
      <4> HIDE DEF g
      <4> QED
        BY <2>2, <4>1, <4>2 DEF RestStep
    <3> QED
      BY <3>1, <3>2
  <2>5. g = [i \in 0..(m + 1) |-> g[i]]
    OBVIOUS
  <2> HIDE DEF g
  <2>6. g = [i \in 0..(m + 1) |-> RestStep(F, label, g, i)]
    BY <2>4, <2>5
  <2> QED
    BY <2>6
<1>3. Bad = {}
  <2>1. Bad \in SUBSET Nat
    OBVIOUS
  <2>2. \A m \in Nat : m \notin Bad => m + 1 \notin Bad
    BY <1>2
  <2> HIDE DEF Bad
  <2> QED
    BY <1>1, <2>1, <2>2, Ascent
<1> QED
  BY <1>3

\* The pending jumps that a label leaves are pending jumps.
LEMMA UnresolvedTyped ==
  ASSUME NEW F \in Fun, NEW label
  PROVE  Unresolved(F, label) \in Seq(Pending)
<1> DEFINE n == Len(F.pending)
           f == CHOOSE f : f = [i \in 0..n |-> RestStep(F, label, f, i)]
<1>1. Unresolved(F, label) = f[n]
  BY DEF Unresolved, RestStep
<1>2. n \in Nat /\ F.pending \in Seq(Pending)
  BY FunFields
<1>3. f = [i \in 0..n |-> RestStep(F, label, f, i)]
  <2> HIDE DEF n
  <2> QED
    BY <1>2, UnresolvedDefined
<1> HIDE DEF f
<1> DEFINE Bad == {i \in Nat : i <= n /\ f[i] \notin Seq(Pending)}
<1>4. 0 \notin Bad
  <2>1. f[0] = << >>
    BY <1>2, <1>3 DEF RestStep
  <2>2. << >> \in Seq(Pending)
    OBVIOUS
  <2>3. f[0] \in Seq(Pending)
    BY <2>1, <2>2, Zenon
  <2> QED
    BY <2>3
<1>5. ASSUME NEW i \in Nat, i \notin Bad PROVE i + 1 \notin Bad
  <2> SUFFICES ASSUME i + 1 <= n PROVE f[i + 1] \in Seq(Pending)
    OBVIOUS
  <2>1. f[i] \in Seq(Pending) /\ i + 1 \in 0..n /\ i + 1 \in 1..n /\ (i + 1) - 1 = i /\ i + 1 # 0
    BY <1>2, <1>5
  <2>2. f[i + 1] = RestStep(F, label, f, i + 1)
    BY <1>3, <2>1
  <2>3. f[i + 1] = f[i] \/ f[i + 1] = Append(f[i], F.pending[i + 1])
    <3>1. ASSUME NEW m, m # 0, m - 1 = i, f[m] = RestStep(F, label, f, m)
          PROVE  f[m] = f[i] \/ f[m] = Append(f[i], F.pending[m])
      BY <3>1, Zenon DEF RestStep
    <3> QED
      BY <2>1, <2>2, <3>1
  <2>4. F.pending[i + 1] \in Pending
    BY <1>2, <2>1
  <2>5. Append(f[i], F.pending[i + 1]) \in Seq(Pending)
    BY <2>1, <2>4
  <2> QED
    BY <2>1, <2>3, <2>5
<1>6. Bad = {}
  <2>1. Bad \in SUBSET Nat
    OBVIOUS
  <2>2. \A m \in Nat : m \notin Bad => m + 1 \notin Bad
    BY <1>5
  <2> HIDE DEF Bad
  <2> QED
    BY <1>4, <2>1, <2>2, Ascent
<1>7. f[n] \in Seq(Pending)
  BY <1>2, <1>6
<1> QED
  BY <1>1, <1>7

\* The jumps that are resolved lead to the end of the code.
LEMMA PatchedOps ==
  ASSUME NEW F \in Fun, NEW label
  PROVE  LET ops == Patched(F, label)
         IN /\ ops \in Seq(Instr) /\ Len(ops) = Len(F.ops)
            /\ \A n \in 1..Len(F.ops) : ops[n] = F.ops[n] \/ n + ops[n].offset = Len(F.ops)
<1> DEFINE len == Len(F.ops)
           Waits(n) == \E i \in Resolved(F, label) : F.pending[i].instruction = n - 1
           p(n) == F.pending[CHOOSE i \in Resolved(F, label) : F.pending[i].instruction = n - 1]
           new(n) == JumpOp(jump_offset(n - 1, len), IF p(n).close_upvalues THEN F.alloc.stack_top ELSE None)
           ops == Patched(F, label)
<1>1. F.ops \in Seq(Instr) /\ len \in Nat /\ F.alloc.stack_top \in Nat
  BY FunFields
<1>2. ops = [n \in 1..len |-> IF Waits(n) THEN new(n) ELSE F.ops[n]]
  BY DEF Patched, Here
<1>3. ASSUME NEW n \in 1..len PROVE new(n) \in Instr /\ n + new(n).offset = len
  <2> DEFINE c == IF p(n).close_upvalues THEN F.alloc.stack_top ELSE None
             off == jump_offset(n - 1, len)
  <2>1. c \in Int
    BY <1>1 DEF None
  <2>2. off \in Int /\ n + off = len
    <3> HIDE DEF len
    <3> QED
      BY <1>1 DEF jump_offset
  <2> HIDE DEF c, off
  <2>3. JumpOp(off, c) \in Instr /\ JumpOp(off, c).offset = off
    BY <2>1, <2>2 DEF JumpOp, Instr, JumpInstr
  <2> QED
    BY <2>2, <2>3 DEF c, off
<1> HIDE DEF ops, Waits, new, len
<1>4. ASSUME NEW n \in 1..len PROVE ops[n] \in Instr /\ (ops[n] = F.ops[n] \/ n + ops[n].offset = len)
  <2>1. ops[n] = IF Waits(n) THEN new(n) ELSE F.ops[n]
    BY <1>2
  <2>2. F.ops[n] \in Instr
    BY <1>1 DEF len
  <2> QED
    BY <1>3, <2>1, <2>2
<1>5. ops = [n \in 1..len |-> ops[n]]
  BY <1>2
<1>6. ops \in Seq(Instr) /\ Len(ops) = len
  BY <1>1, <1>4, <1>5
<1> QED
  BY <1>4, <1>6 DEF ops, len

\* Patching jumps keeps the invariant's parts if none of them leads out of the code.
LEMMA OpsFollows ==
  ASSUME NEW F, Given(F), NEW ops,
         F.err = "none" => ops \in Seq(Instr) /\ Len(ops) = Len(F.ops)
                           /\ \A n \in 1..Len(F.ops) : n + ops[n].offset \in 0..Len(F.ops)
  PROVE  Follows([F EXCEPT !.ops = ops], F)
<1> DEFINE G == [F EXCEPT !.ops = ops]
<1>1. HasErr(G) /\ G.err = F.err
  BY DEF Given, HasErr
<1>2. ASSUME F.err = "none" PROVE Ready(G) /\ Same(G, F)
  <2>1. /\ F \in Fun /\ Packed(F.alloc) /\ Coded(F) /\ Len(F.ops) \in Nat
        /\ Len(F.targets) \in Nat
    BY <1>2, FunFields DEF Given, Ready
  <2>2. G \in Fun
    BY <1>2, <2>1, FunChange
  <2>3. /\ G.ops = ops /\ G.targets = F.targets /\ G.alloc = F.alloc /\ G.locals = F.locals
        /\ G.upvalues = F.upvalues /\ G.blocks = F.blocks /\ G.ctx = F.ctx /\ G.params = F.params
    BY <2>1, FunDomain DEF Fields
  <2> HIDE DEF G
  <2>4. Ready(G)
    BY <1>1, <1>2, <2>1, <2>2, <2>3 DEF Ready, Coded
  <2>5. Same(G, F)
    BY <1>2, <2>1, <2>3 DEF Same
  <2> QED
    BY <2>4, <2>5
<1> HIDE DEF G
<1> QED
  BY <1>1, <1>2 DEF Follows, Given, G

\* A new label is a label of the right type, at the end of the code.
LEMMA NewTarget ==
  ASSUME NEW F \in Fun, NEW label \in Label
  PROVE  [label |-> label, instruction |-> Len(F.ops), stack_top |-> F.alloc.stack_top,
          block_index |-> Len(F.blocks) - 1] \in Target
<1>1. Len(F.ops) \in Nat /\ Len(F.blocks) - 1 \in Int /\ F.alloc.stack_top \in Nat
  BY FunFields
<1> QED
  BY <1>1 DEF Target

\* A label is placed at the end of the code, and jumps that waited for it lead there.
LEMMA JumpTargetFollows ==
  ASSUME NEW F, Given(F), NEW label \in Label
  PROVE  Follows(JumpTarget(F, label), F)
<1>1. CASE F.err # "none"
  <2>1. JumpTarget(F, label) = F
    BY <1>1 DEF JumpTarget
  <2> QED
    BY <1>1, <2>1 DEF Follows
<1>2. CASE F.err = "none"
  <2> DEFINE t == [label |-> label, instruction |-> Len(F.ops), stack_top |-> F.alloc.stack_top,
                   block_index |-> Len(F.blocks) - 1]
             ts == Append(F.targets, t)
             A == [F EXCEPT !.targets = ts]
             B == [A EXCEPT !.ops = Patched(F, label)]
             D == [B EXCEPT !.pending = Unresolved(F, label)]
  <2>1. /\ F \in Fun /\ Coded(F) /\ Len(F.ops) \in Nat
        /\ F.targets \in Seq(Target) /\ Len(F.targets) \in Nat
    BY <1>2, FunFields DEF Given, Ready
  <2>2. \/ JumpTarget(F, label) = Fail(F, "DuplicateLabel")
        \/ JumpTarget(F, label) = Fail(F, "panic")
        \/ JumpTarget(F, label) = Fail(F, "JumpLocal")
        \/ JumpTarget(F, label) = D
    BY <1>2 DEF JumpTarget, Here
  <2>3. ASSUME NEW e \in {"DuplicateLabel", "panic", "JumpLocal"} PROVE Follows(Fail(F, e), F)
    BY FailFollows DEF Given, Errors
  <2>4. t \in Target /\ t.instruction = Len(F.ops)
    BY <2>1, NewTarget
  <2> HIDE DEF t
  <2>5. /\ ts \in Seq(Target) /\ Len(ts) = Len(F.targets) + 1
        /\ \A i \in 1..Len(ts) : ts[i] = t \/ (i \in 1..Len(F.targets) /\ ts[i] = F.targets[i])
    BY <2>1, <2>4
  <2> HIDE DEF ts
  <2>6. Follows(A, F)
    <3>1. ASSUME NEW i \in 1..Len(ts) PROVE ts[i].instruction <= Len(F.ops)
      BY <2>1, <2>4, <2>5 DEF Coded
    <3>2. Len(F.targets) <= Len(ts)
      BY <2>1, <2>5
    <3> QED
      BY <2>5, <3>1, <3>2, TargetsFollows
  <2>7. A.ops = F.ops
    BY <2>1, FunDomain DEF Fields
  <2> HIDE DEF A
  <2>8. Follows(B, A)
    <3> DEFINE ops == Patched(F, label)
    <3>1. /\ ops \in Seq(Instr) /\ Len(ops) = Len(F.ops)
          /\ \A n \in 1..Len(F.ops) : ops[n] = F.ops[n] \/ n + ops[n].offset = Len(F.ops)
      BY <2>1, PatchedOps, Zenon
    <3> HIDE DEF ops
    <3>2. ASSUME NEW n \in 1..Len(F.ops) PROVE n + ops[n].offset \in 0..Len(F.ops)
      <4>1. CASE ops[n] = F.ops[n]
        BY <2>1, <4>1 DEF Coded
      <4>2. CASE n + ops[n].offset = Len(F.ops)
        BY <2>1, <4>2
      <4> QED
        BY <3>1, <4>1, <4>2
    <3>3. Given(A)
      BY <2>6 DEF Follows
    <3> QED
      BY <2>7, <3>1, <3>2, <3>3, OpsFollows DEF ops
  <2> HIDE DEF B
  <2>9. Follows(D, B)
    <3>1. Unresolved(F, label) \in Seq(Pending)
      BY <2>1, UnresolvedTyped
    <3> QED
      BY <2>8, <3>1, PendingFollows DEF Follows
  <2> HIDE DEF D
  <2>10. Follows(D, F)
    <3>1. Follows(B, F)
      BY <2>6, <2>8, FollowsTrans
    <3> QED
      BY <2>9, <3>1, FollowsTrans
  <2> QED
    BY <2>2, <2>3, <2>10
<1> QED
  BY <1>1, <1>2

-----------------------------------------------------------------------------
(* Where a function stands after some operations: its blocks from the first to the
   m-th are as they were, and every register below the top is a local variable's or
   hidden. *)

From(G, F) ==
  /\ G.upvalues = F.upvalues /\ G.ctx = F.ctx /\ G.params = F.params /\ Len(F.ops) <= Len(G.ops)
Stands(G, F, m) ==
  /\ F.err = "none" /\ From(G, F) /\ Len(G.blocks) = m /\ Nested(G)
  /\ \A i \in 1..Len(F.blocks) : i <= m => G.blocks[i] = F.blocks[i]
Stage(G, F, hidden, m) == Given(G) /\ (G.err = "none" => Stands(G, F, m) /\ Layout(G, hidden))
\* A register was pushed that is nobody's yet.
Raised(G, F, hidden, m, r) ==
  /\ Given(G)
  /\ G.err = "none" =>
       /\ Stands(G, F, m) /\ LayoutTo(G, hidden, r) /\ r \in Regs /\ G.alloc.stack_top = r + 1

\* A function is at the stage of its own blocks.
LEMMA StageStart ==
  ASSUME NEW F, Ready(F), NEW hidden, Layout(F, hidden), Nested(F)
  PROVE  Stage(F, F, hidden, Len(F.blocks))
<1>1. F \in Fun /\ HasErr(F) /\ Len(F.ops) \in Nat /\ Len(F.blocks) \in Nat
  BY FunFields DEF Ready
<1> QED
  BY <1>1 DEF Stage, Stands, From, Given, Ready

\* Blocks stay nested when blocks, stack top and labels are the same.
LEMMA NestedFollows ==
  ASSUME NEW F \in Fun, NEW G \in Fun, Same(G, F), Nested(F)
  PROVE  Nested(G)
<1>1. /\ F.blocks \in Seq(Block) /\ Len(F.targets) \in Nat /\ Len(G.targets) \in Nat
      /\ Len(F.targets) <= Len(G.targets) /\ G.blocks = F.blocks
      /\ G.alloc.stack_top = F.alloc.stack_top
  BY FunFields DEF Same
<1>2. ASSUME NEW i \in 1..Len(F.blocks)
      PROVE  Within(F.blocks[i], G.alloc.stack_top, Len(G.targets))
  <2>1. Within(F.blocks[i], F.alloc.stack_top, Len(F.targets))
    BY DEF Nested
  <2>2. F.blocks[i] \in Block
    BY <1>1
  <2>3. F.blocks[i].bottom_jump_target \in Nat
    BY <2>2, BlockFields
  <2> QED
    BY <1>1, <2>1, <2>3 DEF Within
<1> QED
  BY <1>1, <1>2 DEF Nested

\* Growing from a function is transitive.
LEMMA FromTrans ==
  ASSUME NEW F \in Fun, NEW G \in Fun, NEW H \in Fun, From(G, F), From(H, G)
  PROVE  From(H, F)
<1>1. Len(F.ops) \in Nat /\ Len(G.ops) \in Nat /\ Len(H.ops) \in Nat
  BY FunFields
<1> QED
  BY <1>1 DEF From

\* A function that stands on the first m blocks still does after steps that keep its
\* blocks.
LEMMA StandsFollows ==
  ASSUME NEW F \in Fun, NEW G, NEW m, Given(G), Stands(G, F, m), NEW H, Follows(H, G), H.err = "none"
  PROVE  Stands(H, F, m) /\ H.locals = G.locals /\ H.alloc.stack_top = G.alloc.stack_top
<1>1. G.err = "none" /\ Same(H, G) /\ G \in Fun /\ H \in Fun
  BY DEF Follows, Given, Ready
<1>2. Nested(H)
  BY <1>1, NestedFollows DEF Stands
<1>3. From(H, F)
  <2>1. From(H, G)
    BY <1>1 DEF Same, From
  <2> QED
    BY <1>1, <2>1, FromTrans DEF Stands
<1> QED
  BY <1>1, <1>2, <1>3 DEF Stands, Same

\* The stage of a function is kept by steps that keep its registers, variables and
\* blocks.
LEMMA StageFollows ==
  ASSUME NEW F \in Fun, NEW G, NEW hidden, NEW m, Stage(G, F, hidden, m), NEW H, Follows(H, G)
  PROVE  Stage(H, F, hidden, m)
<1>1. ASSUME H.err = "none" PROVE Stands(H, F, m) /\ Layout(H, hidden)
  <2>1. G.err = "none" /\ Given(G) /\ Stands(G, F, m) /\ Layout(G, hidden)
    BY <1>1 DEF Follows, Stage
  <2>2. Stands(H, F, m) /\ H.locals = G.locals /\ H.alloc.stack_top = G.alloc.stack_top
    BY <1>1, <2>1, StandsFollows
  <2> QED
    BY <2>1, <2>2 DEF Layout, LayoutTo
<1> QED
  BY <1>1 DEF Stage, Follows

\* So is a register pushed above that stage.
LEMMA RaisedFollows ==
  ASSUME NEW F \in Fun, NEW G, NEW hidden, NEW m, NEW r, Raised(G, F, hidden, m, r),
         NEW H, Follows(H, G)
  PROVE  Raised(H, F, hidden, m, r)
<1>1. ASSUME H.err = "none"
      PROVE  /\ Stands(H, F, m) /\ LayoutTo(H, hidden, r) /\ r \in Regs
             /\ H.alloc.stack_top = r + 1
  <2>1. /\ G.err = "none" /\ Given(G) /\ Stands(G, F, m) /\ LayoutTo(G, hidden, r) /\ r \in Regs
        /\ G.alloc.stack_top = r + 1
    BY <1>1 DEF Follows, Raised
  <2>2. Stands(H, F, m) /\ H.locals = G.locals /\ H.alloc.stack_top = G.alloc.stack_top
    BY <1>1, <2>1, StandsFollows
  <2> QED
    BY <2>1, <2>2 DEF LayoutTo
<1> QED
  BY <1>1 DEF Raised, Follows

\* exit_block takes a function from the stage of m blocks to that of m - 1.
LEMMA StageExit ==
  ASSUME NEW F \in Fun, NEW G, NEW hidden, NEW m \in Nat, m > 0, m <= Len(F.blocks),
         Stage(G, F, hidden, m), \A r \in hidden : r < F.blocks[m].stack_bottom
  PROVE  /\ Stage(ExitBlock(G), F, hidden, m - 1)
         /\ ExitBlock(G).err = "none" => ExitBlock(G).alloc.stack_top = F.blocks[m].stack_bottom
<1> DEFINE H == ExitBlock(G)
<1>1. ASSUME G.err = "none"
      PROVE  CanLeave(G, hidden) /\ G.blocks \in Seq(Block) /\ Top(G.blocks) = F.blocks[m] /\ G \in Fun
  <2>1. Stands(G, F, m) /\ Layout(G, hidden) /\ G \in Fun /\ G.blocks \in Seq(Block)
    BY <1>1, FunFields DEF Stage, Given, Ready
  <2>2. m \in 1..Len(F.blocks)
    BY FunFields
  <2>3. Top(G.blocks) = F.blocks[m] /\ G.blocks # << >>
    BY <2>1, <2>2 DEF Stands, Top
  <2> QED
    BY <2>1, <2>3 DEF CanLeave, Stands
<1>2. Given(H) /\ (H.err = "none" => G.err = "none" /\ HasLeft(H, G, hidden))
  BY <1>1, ExitBlockLeaves DEF Stage
<1> HIDE DEF H
<1>3. ASSUME H.err = "none"
      PROVE  Stands(H, F, m - 1) /\ Layout(H, hidden) /\ H.alloc.stack_top = F.blocks[m].stack_bottom
  <2>1. /\ G.err = "none" /\ HasLeft(H, G, hidden) /\ G \in Fun /\ H \in Fun /\ Stands(G, F, m)
        /\ G.blocks \in Seq(Block) /\ G.blocks # << >> /\ Top(G.blocks) = F.blocks[m]
    BY <1>1, <1>2, <1>3 DEF Given, Ready, Stage, CanLeave
  <2>2. /\ Len(Pop(G.blocks)) = m - 1 /\ \A i \in 1..(m - 1) : Pop(G.blocks)[i] = G.blocks[i]
    BY <2>1, PopElements DEF Stands
  <2>3. \A i \in 1..Len(F.blocks) : i <= m - 1 => H.blocks[i] = F.blocks[i]
    <3>1. ASSUME NEW i \in 1..Len(F.blocks), i <= m - 1 PROVE H.blocks[i] = F.blocks[i]
      <4>1. i \in 1..(m - 1) /\ i <= m
        BY <3>1, FunFields
      <4>2. H.blocks = Pop(G.blocks)
        BY <2>1 DEF HasLeft
      <4>3. H.blocks[i] = G.blocks[i]
        BY <2>2, <4>1, <4>2
      <4>4. G.blocks[i] = F.blocks[i]
        BY <2>1, <4>1 DEF Stands
      <4> QED
        BY <4>3, <4>4
    <3> QED
      BY <3>1
  <2>4. From(H, F)
    <3>1. From(H, G)
      BY <2>1 DEF HasLeft, From
    <3> QED
      BY <2>1, <3>1, FromTrans DEF Stands
  <2> QED
    BY <2>1, <2>2, <2>3, <2>4 DEF Stands, HasLeft
<1> QED
  BY <1>2, <1>3 DEF Stage, H

\* enter_block takes a function from the stage of m blocks to that of m + 1.
LEMMA StageEnter ==
  ASSUME NEW F \in Fun, NEW G, NEW hidden, NEW m \in Nat, m >= Len(F.blocks), Stage(G, F, hidden, m)
  PROVE  /\ Stage(EnterBlock(G), F, hidden, m + 1)
         /\ EnterBlock(G).err = G.err
         /\ EnterBlock(G).err = "none" =>
              /\ EnterBlock(G).blocks[m + 1].stack_bottom = G.alloc.stack_top
              /\ \A i \in 1..m : EnterBlock(G).blocks[i] = G.blocks[i]
              /\ EnterBlock(G).alloc = G.alloc /\ EnterBlock(G).ops = G.ops
<1> DEFINE H == EnterBlock(G)
<1>1. /\ Given(H) /\ H.err = G.err
      /\ G.err = "none" =>
           /\ \E b \in Block : /\ b.stack_bottom = G.alloc.stack_top
                               /\ b.bottom_jump_target = Len(G.targets)
                               /\ H.blocks = Append(G.blocks, b)
           /\ H.locals = G.locals /\ H.upvalues = G.upvalues /\ H.ctx = G.ctx
           /\ H.params = G.params /\ H.alloc = G.alloc /\ H.ops = G.ops /\ H.targets = G.targets
  BY EnterBlockAdds DEF Stage
<1> HIDE DEF H
<1>2. ASSUME H.err = "none"
      PROVE  /\ Stands(H, F, m + 1) /\ Layout(H, hidden)
             /\ H.blocks[m + 1].stack_bottom = G.alloc.stack_top
             /\ \A i \in 1..m : H.blocks[i] = G.blocks[i]
             /\ H.alloc = G.alloc /\ H.ops = G.ops
  <2>1. /\ G.err = "none" /\ Stands(G, F, m) /\ Layout(G, hidden) /\ G \in Fun
        /\ G.blocks \in Seq(Block) /\ Len(G.blocks) = m /\ Nested(G)
        /\ Len(G.targets) \in Nat /\ G.alloc.stack_top \in Nat
    BY <1>1, <1>2, FunFields DEF Stage, Given, Ready, Stands
  <2>2. PICK b \in Block : /\ b.stack_bottom = G.alloc.stack_top
                           /\ b.bottom_jump_target = Len(G.targets)
                           /\ H.blocks = Append(G.blocks, b)
    BY <1>1, <2>1
  <2>3. /\ Len(H.blocks) = m + 1 /\ H.blocks[m + 1] = b /\ \A i \in 1..m : H.blocks[i] = G.blocks[i]
    BY <2>1, <2>2
  <2>4. Nested(H)
    <3>1. ASSUME NEW i \in 1..(m + 1), NEW j \in 1..(m + 1), i < j
          PROVE  Within(H.blocks[i], H.blocks[j].stack_bottom, H.blocks[j].bottom_jump_target)
      <4>1. i \in 1..m /\ (j \in 1..m \/ j = m + 1) /\ H.blocks[i] = G.blocks[i]
        BY <2>3, <3>1
      <4>2. CASE j \in 1..m
        BY <2>1, <2>3, <3>1, <4>1, <4>2 DEF Nested
      <4>3. CASE j = m + 1
        BY <2>1, <2>2, <2>3, <4>1, <4>3 DEF Nested
      <4> QED
        BY <4>1, <4>2, <4>3
    <3>2. ASSUME NEW i \in 1..(m + 1)
          PROVE  Within(H.blocks[i], H.alloc.stack_top, Len(H.targets))
      <4>1. H.alloc.stack_top = G.alloc.stack_top /\ Len(H.targets) = Len(G.targets)
        BY <1>1, <2>1
      <4>2. CASE i = m + 1
        BY <2>1, <2>2, <2>3, <4>1, <4>2 DEF Within
      <4>3. CASE i # m + 1
        <5>1. i \in 1..m
          BY <4>3
        <5> QED
          BY <2>1, <2>3, <4>1, <5>1 DEF Nested
      <4> QED
        BY <4>2, <4>3
    <3> QED
      BY <2>3, <3>1, <3>2 DEF Nested
  <2>5. From(H, F) /\ \A i \in 1..Len(F.blocks) : i <= m + 1 => H.blocks[i] = F.blocks[i]
    <3>1. From(H, F)
      BY <1>1, <2>1 DEF Stands, From
    <3>2. ASSUME NEW i \in 1..Len(F.blocks) PROVE H.blocks[i] = F.blocks[i]
      <4>1. i \in 1..m /\ i <= m
        BY FunFields
      <4> QED
        BY <2>1, <2>3, <4>1 DEF Stands
    <3> QED
      BY <3>1, <3>2
  <2> QED
    BY <1>1, <2>1, <2>2, <2>3, <2>4, <2>5 DEF Stands, Layout, LayoutTo
<1> QED
  BY <1>1, <1>2 DEF Stage, H

\* Pushing registers keeps the first m blocks where they are.
LEMMA AboveStands ==
  ASSUME NEW F \in Fun, NEW G, NEW m, Given(G), Stands(G, F, m), NEW n \in Nat, NEW H, Above(H, G, n),
         H.err = "none"
  PROVE  Stands(H, F, m)
<1>1. /\ G.err = "none" /\ G \in Fun /\ H \in Fun /\ H.upvalues = G.upvalues /\ H.blocks = G.blocks
      /\ H.ctx = G.ctx /\ H.params = G.params /\ H.ops = G.ops /\ H.targets = G.targets
      /\ H.alloc.stack_top = G.alloc.stack_top + n /\ Nested(G) /\ G.blocks \in Seq(Block)
      /\ G.alloc.stack_top \in Nat
  BY FunFields DEF Above, Given, Ready, Stands
<1>2. ASSUME NEW i \in 1..Len(G.blocks)
      PROVE  Within(G.blocks[i], H.alloc.stack_top, Len(H.targets))
  <2>1. Within(G.blocks[i], G.alloc.stack_top, Len(G.targets))
    BY <1>1 DEF Nested
  <2>2. G.blocks[i] \in Block
    BY <1>1
  <2>3. G.blocks[i].stack_bottom \in Nat
    BY <2>2, BlockFields
  <2>4. G.blocks[i].stack_bottom <= G.alloc.stack_top + n
    BY <1>1, <2>1, <2>3 DEF Within
  <2> QED
    BY <1>1, <2>1, <2>4 DEF Within
<1>3. Nested(H)
  BY <1>1, <1>2 DEF Nested
<1> QED
  BY <1>1, <1>3 DEF Stands, From

\* One register is pushed above a stage.
LEMMA RaisedPush ==
  ASSUME NEW F \in Fun, NEW G, NEW hidden, NEW m, Stage(G, F, hidden, m), NEW r,
         G.err = "none" => r = G.alloc.stack_top
  PROVE  /\ Raised(PushRegs(G, 1), F, hidden, m, r)
         /\ PushRegs(G, 1).err = "none" => PushRegs(G, 1).blocks = G.blocks /\ PushRegs(G, 1).ops = G.ops
<1> DEFINE H == PushRegs(G, 1)
<1>1. Above(H, G, 1)
  BY PushRegsAbove DEF Stage
<1> HIDE DEF H
<1>2. ASSUME H.err = "none"
      PROVE  /\ Stands(H, F, m) /\ LayoutTo(H, hidden, r) /\ r \in Regs /\ H.alloc.stack_top = r + 1
             /\ H.blocks = G.blocks /\ H.ops = G.ops
  <2>1. /\ G.err = "none" /\ Given(G) /\ Stands(G, F, m) /\ Layout(G, hidden)
        /\ H.locals = G.locals /\ H.alloc.stack_top = G.alloc.stack_top + 1
        /\ H.blocks = G.blocks /\ H.ops = G.ops
        /\ G.alloc.stack_top + 1 <= NumRegs /\ r = G.alloc.stack_top /\ G \in Fun
    BY <1>1, <1>2 DEF Above, Stage, Given, Ready
  <2>2. r \in Regs
    <3>1. G.alloc.stack_top \in Nat
      BY <2>1, FunFields
    <3> QED
      BY <2>1, <3>1, NumRegsAssumption DEF Regs
  <2>3. Stands(H, F, m)
    BY <1>1, <1>2, <2>1, AboveStands
  <2> QED
    BY <2>1, <2>2, <2>3 DEF Layout, LayoutTo
<1>3. Given(H)
  BY <1>1 DEF Above
<1> QED
  BY <1>2, <1>3 DEF Raised, H

\* The pushed register becomes that of a new local variable.
LEMMA RaisedAdd ==
  ASSUME NEW F \in Fun, NEW G, NEW hidden, NEW m, NEW r, Raised(G, F, hidden, m, r),
         NEW name \in Names, NEW attr \in {"none", "const"}, NEW var,
         G.err = "none" => var \in Variable
  PROVE  LET H == AddLocal(G, name, attr, r, var)
         IN /\ Stage(H, F, hidden, m) /\ H.err = G.err
            /\ H.err = "none" => /\ r \in RegsOf(H.locals) /\ H.blocks = G.blocks /\ H.ops = G.ops
                                 /\ H.alloc = G.alloc
<1> DEFINE H == AddLocal(G, name, attr, r, var)
           l == [name |-> name, reg |-> r, attr |-> attr, var |-> var]
<1>1. /\ Given(H) /\ H.err = G.err
      /\ G.err = "none" =>
           /\ H.locals = Append(G.locals, l)
           /\ H.upvalues = G.upvalues /\ H.blocks = G.blocks /\ H.ctx = G.ctx
           /\ H.params = G.params /\ H.alloc = G.alloc /\ H.ops = G.ops /\ H.targets = G.targets
  BY AddLocalAdds DEF Raised
<1>0. l.reg = r
  OBVIOUS
<1> HIDE DEF H, l
<1>2. ASSUME H.err = "none"
      PROVE  /\ Stands(H, F, m) /\ Layout(H, hidden) /\ r \in RegsOf(H.locals) /\ H.blocks = G.blocks
             /\ H.ops = G.ops /\ H.alloc = G.alloc
  <2>1. /\ G.err = "none" /\ G \in Fun /\ Stands(G, F, m) /\ LayoutTo(G, hidden, r) /\ r \in Regs
        /\ G.alloc.stack_top = r + 1 /\ G.locals \in Seq(Local)
    BY <1>1, <1>2, FunFields DEF Raised, Given, Ready
  <2> DEFINE n == Len(G.locals)
  <2>2. r \in Nat
    BY <2>1, NumRegsAssumption DEF Regs
  <2>3. /\ H.locals = Append(G.locals, l) /\ Len(H.locals) = n + 1 /\ n \in Nat
        /\ H.locals[n + 1] = l /\ \A i \in 1..n : H.locals[i] = G.locals[i]
    BY <1>1, <2>1
  <2>4. \A i \in 1..n : G.locals[i].reg \in 0..(r - 1)
    BY <2>1 DEF LayoutTo, RegsOf
  <2>5. Ordered(H.locals)
    <3>1. ASSUME NEW i \in 1..(n + 1), NEW j \in 1..(n + 1), i < j
          PROVE  H.locals[i].reg < H.locals[j].reg
      <4>1. i \in 1..n /\ (j \in 1..n \/ j = n + 1) /\ H.locals[i].reg = G.locals[i].reg
        BY <2>3, <3>1
      <4>2. CASE j \in 1..n
        BY <2>1, <2>3, <3>1, <4>1, <4>2 DEF LayoutTo, Ordered
      <4>3. CASE j = n + 1
        <5>1. H.locals[j].reg = r
          BY <1>0, <2>3, <4>3
        <5>2. G.locals[i].reg < r
          BY <2>2, <2>4, <4>1
        <5> QED
          BY <4>1, <5>1, <5>2
      <4> QED
        BY <4>1, <4>2, <4>3
    <3> QED
      BY <2>3, <3>1 DEF Ordered
  <2>6. RegsOf(H.locals) = RegsOf(G.locals) \cup {r}
    <3>1. ASSUME NEW x \in RegsOf(H.locals) PROVE x \in RegsOf(G.locals) \cup {r}
      <4>1. PICK i \in 1..(n + 1) : x = H.locals[i].reg
        BY <2>3 DEF RegsOf
      <4>2. CASE i = n + 1
        BY <1>0, <2>3, <4>1, <4>2
      <4>3. CASE i # n + 1
        <5>1. i \in 1..n
          BY <2>3, <4>3
        <5> QED
          BY <2>3, <4>1, <5>1 DEF RegsOf
      <4> QED
        BY <4>2, <4>3
    <3>2. ASSUME NEW x \in RegsOf(G.locals) PROVE x \in RegsOf(H.locals)
      <4>1. PICK i \in 1..n : x = G.locals[i].reg
        BY DEF RegsOf
      <4>2. i \in 1..(n + 1)
        BY <2>3
      <4> QED
        BY <2>3, <4>1, <4>2 DEF RegsOf
    <3>3. r \in RegsOf(H.locals)
      <4>1. n + 1 \in 1..(n + 1)
        BY <2>3
      <4> QED
        BY <1>0, <2>3, <4>1 DEF RegsOf
    <3> QED
      BY <3>1, <3>2, <3>3
  <2>7. Layout(H, hidden)
    <3>1. RegsOf(G.locals) \cap hidden = {} /\ RegsOf(G.locals) \cup hidden = 0..(r - 1)
      BY <2>1 DEF LayoutTo
    <3>2. H.alloc.stack_top = r + 1
      BY <1>1, <2>1
    <3>3. (RegsOf(G.locals) \cup {r}) \cap hidden = {}
      BY <2>2, <3>1
    <3>4. (RegsOf(G.locals) \cup {r}) \cup hidden = 0..r
      BY <2>2, <3>1
    <3>5. (r + 1) - 1 = r
      BY <2>2
    <3> QED
      BY <2>5, <2>6, <3>2, <3>3, <3>4, <3>5 DEF Layout, LayoutTo
  <2>8. Stands(H, F, m)
    <3>1. From(H, F)
      BY <1>1, <2>1 DEF Stands, From
    <3>2. Nested(H)
      BY <1>1, <2>1 DEF Stands, Nested
    <3> QED
      BY <1>1, <2>1, <3>1, <3>2 DEF Stands
  <2> QED
    BY <1>1, <2>1, <2>6, <2>7, <2>8
<1> QED
  BY <1>1, <1>2 DEF Stage, H

\* The pushed register is freed again.
LEMMA RaisedFree ==
  ASSUME NEW F \in Fun, NEW G, NEW hidden, NEW r, Raised(G, F, hidden, Len(F.blocks), r),
         \A i \in 1..Len(F.blocks) : F.blocks[i].stack_bottom <= r
  PROVE  Stage(FreeReg(G, r), F, hidden, Len(F.blocks))
<1> DEFINE H == FreeReg(G, r)
<1>1. /\ HasErr(H)
      /\ H.err = "none" => G.err = "none" /\ CanFree(G.alloc, r) /\ H = [G EXCEPT !.alloc = Free(G.alloc, r)]
  BY FreeRegErr DEF Raised, Given
<1> HIDE DEF H
<1>2. ASSUME H.err = "none"
      PROVE  Ready(H) /\ Stands(H, F, Len(F.blocks)) /\ Layout(H, hidden)
  <2>1. /\ G.err = "none" /\ Ready(G) /\ G \in Fun /\ Stands(G, F, Len(F.blocks)) /\ LayoutTo(G, hidden, r)
        /\ r \in Regs /\ G.alloc.stack_top = r + 1 /\ G.alloc \in Alloc /\ Packed(G.alloc)
        /\ H = [G EXCEPT !.alloc = Free(G.alloc, r)] /\ Coded(G)
    BY <1>1, <1>2, FunFields DEF Raised, Given, Ready
  <2>2. r \in Nat
    BY <2>1, NumRegsAssumption DEF Regs
  <2>3. Free(G.alloc, r) \in Alloc /\ Packed(Free(G.alloc, r)) /\ Free(G.alloc, r).stack_top = r
    BY <2>1, <2>2, FreeTop
  <2> DEFINE a == Free(G.alloc, r)
  <2> HIDE DEF a
  <2>4. H \in Fun
    BY <2>1, <2>3, FunChange
  <2>5. /\ H.ops = G.ops /\ H.targets = G.targets /\ H.alloc = a /\ H.locals = G.locals
        /\ H.upvalues = G.upvalues /\ H.blocks = G.blocks /\ H.ctx = G.ctx /\ H.params = G.params
    BY <2>1, FunDomain DEF Fields, a
  <2>6. Ready(H)
    BY <1>2, <2>1, <2>3, <2>4, <2>5 DEF Ready, Coded, a
  <2>7. Layout(H, hidden)
    BY <2>1, <2>3, <2>5 DEF Layout, LayoutTo, a
  <2>8. Nested(H)
    <3>1. Nested(G) /\ Len(G.blocks) = Len(F.blocks)
      BY <2>1 DEF Stands
    <3>2. ASSUME NEW i \in 1..Len(H.blocks) PROVE Within(H.blocks[i], H.alloc.stack_top, Len(H.targets))
      <4>1. i \in 1..Len(F.blocks) /\ i <= Len(F.blocks) /\ H.blocks[i] = G.blocks[i] /\ H.alloc.stack_top = r
        BY <2>3, <2>5, <3>1, FunFields DEF a
      <4>2. H.blocks[i] = F.blocks[i]
        BY <2>1, <4>1 DEF Stands
      <4>3. Within(G.blocks[i], G.alloc.stack_top, Len(G.targets))
        BY <3>1, <4>1 DEF Nested
      <4> QED
        BY <2>5, <4>1, <4>2, <4>3 DEF Within
    <3> QED
      BY <2>5, <3>1, <3>2 DEF Nested
  <2>9. From(H, F)
    BY <2>1, <2>5 DEF Stands, From
  <2>10. Stands(H, F, Len(F.blocks))
    BY <2>1, <2>5, <2>8, <2>9 DEF Stands
  <2> QED
    BY <2>6, <2>7, <2>10
<1> QED
  BY <1>1, <1>2 DEF Stage, Given, H

\* The registers of a loop are pushed, and popped.
LEMMA StagePushLoop ==
  ASSUME NEW F \in Fun, NEW G, NEW hidden, NEW m, Stage(G, F, hidden, m), NEW base,
         G.err = "none" => base = G.alloc.stack_top /\ base + 3 < NumRegs
  PROVE  /\ Stage(PushRegs(G, 3), F, hidden \cup base..(base + 2), m)
         /\ PushRegs(G, 3).err = "none" =>
              /\ PushRegs(G, 3).alloc.stack_top = base + 3
              /\ PushRegs(G, 3).blocks = G.blocks /\ PushRegs(G, 3).ops = G.ops
<1> DEFINE H == PushRegs(G, 3)
<1>1. Above(H, G, 3)
  BY PushRegsAbove DEF Stage
<1> HIDE DEF H
<1>2. ASSUME H.err = "none"
      PROVE  /\ Stands(H, F, m) /\ Layout(H, hidden \cup base..(base + 2))
             /\ H.alloc.stack_top = base + 3 /\ H.blocks = G.blocks /\ H.ops = G.ops
  <2>1. /\ G.err = "none" /\ Given(G) /\ Stands(G, F, m) /\ Layout(G, hidden)
        /\ H.locals = G.locals /\ H.alloc.stack_top = G.alloc.stack_top + 3
        /\ H.blocks = G.blocks /\ H.ops = G.ops /\ base = G.alloc.stack_top /\ G \in Fun
    BY <1>1, <1>2 DEF Above, Stage, Given, Ready
  <2>2. base \in Nat
    BY <2>1, FunFields
  <2>3. Stands(H, F, m)
    BY <1>1, <1>2, <2>1, AboveStands
  <2>4. /\ RegsOf(G.locals) \cap hidden = {} /\ RegsOf(G.locals) \cup hidden = 0..(base - 1)
        /\ Ordered(G.locals)
    BY <2>1 DEF Layout, LayoutTo
  <2>5. /\ RegsOf(G.locals) \cap (hidden \cup base..(base + 2)) = {}
        /\ RegsOf(G.locals) \cup (hidden \cup base..(base + 2)) = 0..(base + 2)
    BY <2>2, <2>4
  <2>6. (base + 3) - 1 = base + 2
    BY <2>2
  <2> QED
    BY <2>1, <2>3, <2>4, <2>5, <2>6 DEF Layout, LayoutTo
<1>3. Given(H)
  BY <1>1 DEF Above
<1> QED
  BY <1>2, <1>3 DEF Stage, H

\* When a loop ends, its three hidden registers are the topmost and are popped.
LEMMA StagePopLoop ==
  ASSUME NEW F \in Fun, NEW base \in Nat, NEW hidden, \A r \in hidden : r < base,
         NEW m, NEW G, Stage(G, F, hidden \cup base..(base + 2), m),
         G.err = "none" => /\ G.alloc.stack_top = base + 3
                           /\ \A i \in 1..m : G.blocks[i].stack_bottom <= base
  PROVE  Stage([G EXCEPT !.alloc = PopTo(@, base)], F, hidden, m)
<1> DEFINE H == [G EXCEPT !.alloc = PopTo(G.alloc, base)]
<1>1. HasErr(H) /\ H.err = G.err
  BY DEF Stage, Given, HasErr
<1>2. ASSUME G.err = "none"
      PROVE  Ready(H) /\ Stands(H, F, m) /\ Layout(H, hidden)
  <2>1. /\ Ready(G) /\ G \in Fun /\ Stands(G, F, m) /\ G.alloc.stack_top = base + 3
        /\ G.alloc \in Alloc /\ Packed(G.alloc) /\ Coded(G) /\ Layout(G, hidden \cup base..(base + 2))
    BY <1>2, FunFields DEF Stage, Given, Ready
  <2>2. /\ NumRegs \in Nat /\ base + 3 <= NumRegs /\ G.alloc.first_free = base + 3
        /\ G.alloc.registers = (0..(base + 2)) \ {NumRegs - 1}
        /\ G.alloc.stack_size \in G.alloc.stack_top..NumRegs
    <3>1. (base + 3) - 1 = base + 2
      OBVIOUS
    <3> QED
      BY <2>1, <3>1, PackedFacts, NumRegsAssumption
  <2> DEFINE a == PopTo(G.alloc, base)
  <2>3. a \in Alloc /\ Packed(a) /\ a.stack_top = base
    <3>1. /\ base < G.alloc.stack_top /\ G.alloc.stack_top <= NumRegs /\ base <= G.alloc.first_free
          /\ 0..(base - 1) \subseteq G.alloc.registers
      BY <2>1, <2>2
    <3> QED
      BY <2>1, <2>2, <3>1, PopToPacked
  <2> HIDE DEF a
  <2>4. H \in Fun
    BY <2>1, <2>3, FunChange DEF a
  <2>5. /\ H.ops = G.ops /\ H.targets = G.targets /\ H.alloc = a /\ H.locals = G.locals
        /\ H.upvalues = G.upvalues /\ H.blocks = G.blocks /\ H.ctx = G.ctx /\ H.params = G.params
    BY <2>1, FunDomain DEF Fields, a
  <2> HIDE DEF H
  <2>6. Ready(H)
    BY <1>1, <1>2, <2>1, <2>3, <2>4, <2>5 DEF Ready, Coded
  <2>7. Layout(H, hidden)
    <3>1. /\ RegsOf(G.locals) \cap (hidden \cup base..(base + 2)) = {} /\ Ordered(G.locals)
          /\ RegsOf(G.locals) \cup (hidden \cup base..(base + 2)) = 0..((base + 3) - 1)
      BY <2>1 DEF Layout, LayoutTo
    <3>2. RegsOf(G.locals) \cap hidden = {}
      BY <3>1
    <3>3. RegsOf(G.locals) \cup hidden = 0..(base - 1)
      BY <3>1
    <3> QED
      BY <2>3, <2>5, <3>1, <3>2, <3>3 DEF Layout, LayoutTo
  <2>8. Nested(H)
    <3>1. Nested(G) /\ Len(G.blocks) = m
      BY <2>1 DEF Stands
    <3>2. ASSUME NEW i \in 1..Len(H.blocks) PROVE Within(H.blocks[i], H.alloc.stack_top, Len(H.targets))
      <4>1. i \in 1..m /\ H.blocks[i] = G.blocks[i] /\ H.alloc.stack_top = base
        BY <2>3, <2>5, <3>1
      <4>2. Within(G.blocks[i], G.alloc.stack_top, Len(G.targets))
        BY <3>1, <4>1 DEF Nested
      <4> QED
        BY <1>2, <2>5, <4>1, <4>2 DEF Within
    <3> QED
      BY <2>5, <3>1, <3>2 DEF Nested
  <2>9. From(H, F)
    BY <2>1, <2>5 DEF Stands, From
  <2>10. Stands(H, F, m)
    BY <2>1, <2>5, <2>8, <2>9 DEF Stands
  <2> QED
    BY <2>6, <2>7, <2>10
<1> QED
  BY <1>1, <1>2 DEF Stage, Given

-----------------------------------------------------------------------------
(* Constructs and their blocks. *)

\* A construct has one to three blocks open.
LEMMA BlocksOfRange ==
  ASSUME NEW c
  PROVE  BlocksOf(c) \in 1..3
  BY DEF BlocksOf

\* The constructs further in have the blocks further in.
LEMMA Depths ==
  ASSUME NEW ctx, Len(ctx) \in Nat, NEW blocks, Len(blocks) \in Nat,
         NEW d \in [0..Len(ctx) -> 0..Len(blocks)], Shape(ctx, blocks, d)
  PROVE  /\ \A i, j \in 0..Len(ctx) : i <= j => d[i] <= d[j]
         /\ \A i \in 1..Len(ctx) : d[i - 1] + 1 <= d[i]
<1> DEFINE n == Len(ctx)
           Bad == {j \in Nat : j <= n /\ ~ \A i \in 0..j : d[i] <= d[j]}
<1>1. \A i \in 0..n : d[i] \in Nat
  OBVIOUS
<1>2. ASSUME NEW i \in 1..n PROVE d[i - 1] + 1 <= d[i] /\ i - 1 \in 0..n
  <2>1. d[i] = d[i - 1] + BlocksOf(ctx[i]) /\ i - 1 \in 0..n
    BY DEF Shape
  <2>2. BlocksOf(ctx[i]) \in 1..3
    BY BlocksOfRange
  <2>3. \A x \in Nat, b \in 1..3 : x + 1 <= x + b
    OBVIOUS
  <2>4. d[i - 1] \in Nat
    BY <1>1, <2>1
  <2> QED
    BY <2>1, <2>2, <2>3, <2>4
<1>3. 0 \notin Bad
  BY <1>1
<1>4. ASSUME NEW j \in Nat, j \notin Bad PROVE j + 1 \notin Bad
  <2> SUFFICES ASSUME j + 1 <= n, NEW i \in 0..(j + 1) PROVE d[i] <= d[j + 1]
    OBVIOUS
  <2>1. j + 1 \in 1..n /\ (j + 1) - 1 = j /\ j \in 0..n /\ j + 1 \in 0..n /\ j <= n
    OBVIOUS
  <2>2. d[j] + 1 <= d[j + 1]
    BY <1>2, <2>1
  <2>3. CASE i = j + 1
    BY <1>1, <2>1, <2>3
  <2>4. CASE i # j + 1
    <3>1. i \in 0..j /\ i \in 0..n
      BY <2>1, <2>4
    <3>2. d[i] <= d[j]
      BY <1>4, <2>1, <3>1
    <3>3. d[i] \in Nat /\ d[j] \in Nat /\ d[j + 1] \in Nat
      BY <1>1, <2>1, <3>1
    <3> QED
      BY <2>2, <3>2, <3>3
  <2> QED
    BY <2>3, <2>4
<1>5. Bad = {}
  <2>1. Bad \in SUBSET Nat
    OBVIOUS
  <2>2. \A m \in Nat : m \notin Bad => m + 1 \notin Bad
    BY <1>4
  <2> HIDE DEF Bad
  <2> QED
    BY <1>3, <2>1, <2>2, Ascent
<1>6. \A i, j \in 0..n : i <= j => d[i] <= d[j]
  <2>1. ASSUME NEW i \in 0..n, NEW j \in 0..n, i <= j PROVE d[i] <= d[j]
    <3>1. j \in Nat /\ j <= n /\ j \notin Bad /\ i \in 0..j
      BY <1>5, <2>1
    <3> QED
      BY <3>1
  <2> QED
    BY <2>1
<1> QED
  BY <1>2, <1>6

\* The blocks that belong to the constructs around the innermost one.
Outer(ctx, blocks) == Len(blocks) - BlocksOf(Top(ctx))

\* Without its innermost construct a function has the blocks of the others.
LEMMA ShapePop ==
  ASSUME NEW ctx \in Seq(Context), ctx # << >>, NEW blocks \in Seq(Block), Shaped(ctx, blocks),
         NEW m, m = Outer(ctx, blocks)
  PROVE  /\ m \in Nat /\ m < Len(blocks)
         /\ \A bs \in Seq(Block) :
              Len(bs) = m /\ (\A i \in 1..m : bs[i] = blocks[i]) => Shaped(Pop(ctx), bs)
         /\ Top(ctx).k \in Loops =>
              /\ blocks[m + 1].stack_bottom = Top(ctx).base + 3
              /\ \A j \in 1..m : blocks[j].stack_bottom <= Top(ctx).base
<1> DEFINE n == Len(ctx)
<1>1. /\ n \in Nat /\ n > 0 /\ Len(blocks) \in Nat /\ Top(ctx) = ctx[n]
      /\ Len(Pop(ctx)) = n - 1 /\ \A i \in 1..(n - 1) : Pop(ctx)[i] = ctx[i]
  BY NonEmpty, PopElements DEF Top
<1>2. PICK d \in [0..n -> 0..Len(blocks)] : Shape(ctx, blocks, d)
  BY DEF Shaped
<1> HIDE DEF n
<1>3. n = Len(ctx)
  BY DEF n
<1>4. \A i \in 0..n : d[i] \in Nat /\ d[i] <= Len(blocks)
  BY <1>1
<1>5. /\ d[0] = 0 /\ d[n] = Len(blocks)
      /\ \A i \in 1..n :
           /\ d[i] = d[i - 1] + BlocksOf(ctx[i])
           /\ ctx[i].k \in Loops =>
                /\ blocks[d[i - 1] + 1].stack_bottom = ctx[i].base + 3
                /\ \A j \in 1..d[i - 1] : blocks[j].stack_bottom <= ctx[i].base
  BY <1>2, <1>3 DEF Shape
<1>6. m = d[n - 1] /\ m \in Nat /\ m < Len(blocks)
  <2>1. BlocksOf(ctx[n]) \in 1..3 /\ n \in 1..n /\ n - 1 \in 0..n
    BY <1>1, BlocksOfRange
  <2>2. d[n - 1] \in Nat /\ Len(blocks) = d[n - 1] + BlocksOf(ctx[n])
    BY <1>4, <1>5, <2>1
  <2>3. m = Len(blocks) - BlocksOf(ctx[n])
    BY <1>1 DEF Outer
  <2>4. \A x \in Nat, b \in 1..3 : (x + b) - b = x /\ x < x + b
    OBVIOUS
  <2> QED
    BY <2>1, <2>2, <2>3, <2>4
<1>7. /\ \A i, j \in 0..n : i <= j => d[i] <= d[j]
      /\ \A i \in 1..n : d[i - 1] + 1 <= d[i]
  BY <1>1, <1>2, <1>3, Depths
<1>8. ASSUME NEW bs \in Seq(Block), Len(bs) = m, \A i \in 1..m : bs[i] = blocks[i]
      PROVE  Shaped(Pop(ctx), bs)
  <2> DEFINE e == [i \in 0..(n - 1) |-> d[i]]
  <2>1. ASSUME NEW i \in 0..(n - 1) PROVE d[i] \in 0..m /\ e[i] = d[i]
    <3>1. i \in 0..n /\ n - 1 \in 0..n /\ i <= n - 1
      BY <1>1
    <3>2. d[i] <= d[n - 1] /\ d[i] \in Nat
      BY <1>4, <1>7, <3>1
    <3> QED
      BY <1>6, <3>2
  <2>2. e \in [0..Len(Pop(ctx)) -> 0..Len(bs)]
    BY <1>1, <1>8, <2>1
  <2> HIDE DEF e
  <2>3. e[0] = 0 /\ e[Len(Pop(ctx))] = Len(bs)
    <3>1. 0 \in 0..(n - 1) /\ n - 1 \in 0..(n - 1)
      BY <1>1
    <3> QED
      BY <1>1, <1>5, <1>6, <1>8, <2>1, <3>1
  <2>4. ASSUME NEW i \in 1..Len(Pop(ctx))
        PROVE  /\ e[i] = e[i - 1] + BlocksOf(Pop(ctx)[i])
               /\ Pop(ctx)[i].k \in Loops =>
                    /\ bs[e[i - 1] + 1].stack_bottom = Pop(ctx)[i].base + 3
                    /\ \A j \in 1..e[i - 1] : bs[j].stack_bottom <= Pop(ctx)[i].base
    <3>1. /\ i \in 1..n /\ i \in 1..(n - 1) /\ i \in 0..(n - 1) /\ i - 1 \in 0..(n - 1)
          /\ Pop(ctx)[i] = ctx[i]
      BY <1>1
    <3>2. e[i] = d[i] /\ e[i - 1] = d[i - 1] /\ d[i] \in 0..m /\ d[i - 1] \in 0..m
      BY <2>1, <3>1
    <3>3. e[i] = e[i - 1] + BlocksOf(Pop(ctx)[i])
      BY <1>5, <3>1, <3>2
    <3>4. ASSUME Pop(ctx)[i].k \in Loops
          PROVE  /\ bs[e[i - 1] + 1].stack_bottom = Pop(ctx)[i].base + 3
                 /\ \A j \in 1..e[i - 1] : bs[j].stack_bottom <= Pop(ctx)[i].base
      <4>1. /\ blocks[d[i - 1] + 1].stack_bottom = ctx[i].base + 3
            /\ \A j \in 1..d[i - 1] : blocks[j].stack_bottom <= ctx[i].base
        BY <1>5, <3>1, <3>4
      <4>2. d[i - 1] + 1 \in 1..m
        <5>1. d[i - 1] + 1 <= d[i]
          BY <1>7, <3>1
        <5> QED
          BY <1>6, <3>2, <5>1, SMTT(30)
      <4>3. bs[d[i - 1] + 1] = blocks[d[i - 1] + 1]
        BY <1>8, <4>2
      <4>4. \A j \in 1..d[i - 1] : j \in 1..m /\ bs[j] = blocks[j]
        BY <1>6, <1>8, <3>2
      <4> QED
        BY <3>1, <3>2, <4>1, <4>3, <4>4
    <3> QED
      BY <3>3, <3>4
  <2>5. Shape(Pop(ctx), bs, e)
    BY <2>3, <2>4 DEF Shape
  <2> QED
    BY <2>2, <2>5 DEF Shaped
<1>9. ASSUME Top(ctx).k \in Loops
      PROVE  /\ blocks[m + 1].stack_bottom = Top(ctx).base + 3
             /\ \A j \in 1..m : blocks[j].stack_bottom <= Top(ctx).base
  <2>1. n \in 1..n
    BY <1>1
  <2> QED
    BY <1>1, <1>5, <1>6, <1>9, <2>1
<1> QED
  BY <1>6, <1>8, <1>9

\* A construct that is opened adds its own blocks to those of the others.
LEMMA ShapePush ==
  ASSUME NEW ctx \in Seq(Context), NEW blocks \in Seq(Block), Shaped(ctx, blocks),
         NEW c \in Context, NEW bs \in Seq(Block), Len(bs) = Len(blocks) + BlocksOf(c),
         \A i \in 1..Len(blocks) : bs[i] = blocks[i],
         c.k \in Loops => /\ bs[Len(blocks) + 1].stack_bottom = c.base + 3
                          /\ \A i \in 1..Len(blocks) : blocks[i].stack_bottom <= c.base
  PROVE  Shaped(Append(ctx, c), bs)
<1> DEFINE n == Len(ctx)
           m == Len(blocks)
           more == Append(ctx, c)
<1>1. /\ n \in Nat /\ m \in Nat /\ Len(more) = n + 1 /\ more[n + 1] = c
      /\ \A i \in 1..n : more[i] = ctx[i]
  OBVIOUS
<1>2. PICK d \in [0..n -> 0..m] : Shape(ctx, blocks, d)
  BY DEF Shaped
<1>3. /\ \A i, j \in 0..n : i <= j => d[i] <= d[j]
      /\ \A i \in 1..n : d[i - 1] + 1 <= d[i]
  BY <1>1, <1>2, Depths
<1>4. m + BlocksOf(c) \in Nat /\ m <= m + BlocksOf(c)
  <2>1. \A x \in Nat, b \in 1..3 : x + b \in Nat /\ x <= x + b
    OBVIOUS
  <2> QED
    BY <1>1, <2>1, BlocksOfRange
<1> DEFINE e == [i \in 0..(n + 1) |-> IF i = n + 1 THEN Len(bs) ELSE d[i]]
<1>5. ASSUME NEW i \in 0..n PROVE e[i] = d[i] /\ d[i] \in 0..m /\ d[i] \in Nat
  <2>1. i \in 0..(n + 1) /\ i # n + 1
    BY <1>1
  <2> QED
    BY <1>1, <2>1
<1>6. e[n + 1] = Len(bs) /\ Len(bs) = m + BlocksOf(c)
  BY <1>1
<1>7. e \in [0..Len(more) -> 0..Len(bs)]
  <2>1. ASSUME NEW i \in 0..(n + 1) PROVE (IF i = n + 1 THEN Len(bs) ELSE d[i]) \in 0..Len(bs)
    <3>1. CASE i = n + 1
      BY <1>4, <1>6, <3>1
    <3>2. CASE i # n + 1
      <4>1. i \in 0..n
        BY <1>1, <3>2
      <4>2. d[i] \in Nat /\ d[i] <= m
        BY <1>1, <1>5, <4>1
      <4>3. Len(bs) \in Nat /\ m <= Len(bs)
        BY <1>4, <1>6
      <4>4. d[i] \in 0..Len(bs)
        BY <1>1, <4>2, <4>3
      <4> QED
        BY <3>2, <4>4
    <3> QED
      BY <3>1, <3>2
  <2> QED
    BY <1>1, <2>1
<1> HIDE DEF e, more
<1>8. e[0] = 0 /\ e[Len(more)] = Len(bs)
  <2>1. 0 \in 0..n /\ d[0] = 0
    BY <1>1, <1>2 DEF Shape
  <2> QED
    BY <1>1, <1>5, <1>6, <2>1
<1>9. ASSUME NEW i \in 1..Len(more)
      PROVE  /\ e[i] = e[i - 1] + BlocksOf(more[i])
             /\ more[i].k \in Loops =>
                  /\ bs[e[i - 1] + 1].stack_bottom = more[i].base + 3
                  /\ \A j \in 1..e[i - 1] : bs[j].stack_bottom <= more[i].base
  <2>1. CASE i = n + 1
    <3>1. i - 1 = n /\ n \in 0..n /\ more[i] = c
      BY <1>1, <2>1
    <3>2. e[i - 1] = m
      BY <1>2, <1>5, <3>1 DEF Shape
    <3> QED
      BY <1>6, <2>1, <3>1, <3>2
  <2>2. CASE i # n + 1
    <3>1. i \in 1..n /\ i \in 0..n /\ i - 1 \in 0..n /\ more[i] = ctx[i]
      BY <1>1, <2>2
    <3>2. e[i] = d[i] /\ e[i - 1] = d[i - 1] /\ d[i] \in Nat /\ d[i - 1] \in Nat /\ d[i] <= m
      BY <1>1, <1>5, <3>1
    <3>3. /\ d[i] = d[i - 1] + BlocksOf(ctx[i])
          /\ ctx[i].k \in Loops =>
               /\ blocks[d[i - 1] + 1].stack_bottom = ctx[i].base + 3
               /\ \A j \in 1..d[i - 1] : blocks[j].stack_bottom <= ctx[i].base
      BY <1>2, <3>1 DEF Shape
    <3>4. d[i - 1] + 1 \in 1..m
      <4>1. d[i - 1] + 1 <= d[i]
        BY <1>3, <3>1
      <4> QED
        BY <1>1, <3>2, <4>1
    <3>5. \A j \in 1..d[i - 1] : j \in 1..m
      BY <1>1, <3>2, <3>4
    <3>6. \A j \in 1..m : bs[j] = blocks[j]
      OBVIOUS
    <3> HIDE DEF m
    <3> QED
      BY <3>1, <3>2, <3>3, <3>4, <3>5, <3>6
  <2> QED
    BY <2>1, <2>2
<1>10. Shape(more, bs, e)
  BY <1>8, <1>9 DEF Shape
<1> QED
  BY <1>7, <1>10 DEF Shaped, more

\* The hidden registers are below the blocks of the innermost construct; when that
\* is a loop, those of the others are below its own.
Rising(blocks) ==
  \A i, j \in 1..Len(blocks) : i < j => blocks[i].stack_bottom <= blocks[j].stack_bottom
\* Hidden registers lie below the blocks of the loops they belong to.
LEMMA HiddenBelow ==
  ASSUME NEW ctx \in Seq(Context), ctx # << >>, NEW blocks \in Seq(Block), Shaped(ctx, blocks),
         Rising(blocks), NEW m, m = Outer(ctx, blocks)
  PROVE  /\ HiddenIn(ctx) = HiddenIn(Pop(ctx)) \cup Hidden(Top(ctx))
         /\ \A r \in HiddenIn(ctx) : r \in Nat
         /\ \A r \in HiddenIn(ctx), j \in 1..Len(blocks) : j > m => r < blocks[j].stack_bottom
         /\ Top(ctx).k \in Loops => \A r \in HiddenIn(Pop(ctx)) : r < Top(ctx).base
<1> DEFINE n == Len(ctx)
<1>1. /\ n \in Nat /\ n > 0 /\ Len(blocks) \in Nat /\ Top(ctx) = ctx[n] /\ n \in 1..n
      /\ Len(Pop(ctx)) = n - 1 /\ \A i \in 1..(n - 1) : Pop(ctx)[i] = ctx[i]
  BY NonEmpty, PopElements DEF Top
<1>2. PICK d \in [0..n -> 0..Len(blocks)] : Shape(ctx, blocks, d)
  BY DEF Shaped
<1> HIDE DEF n
<1>3. n = Len(ctx)
  BY DEF n
<1>4. \A i \in 0..n : d[i] \in Nat /\ d[i] <= Len(blocks)
  BY <1>1
<1>5. /\ d[n] = Len(blocks)
      /\ \A i \in 1..n :
           /\ d[i] = d[i - 1] + BlocksOf(ctx[i])
           /\ ctx[i].k \in Loops =>
                /\ blocks[d[i - 1] + 1].stack_bottom = ctx[i].base + 3
                /\ \A j \in 1..d[i - 1] : blocks[j].stack_bottom <= ctx[i].base
  BY <1>2, <1>3 DEF Shape
<1>6. /\ \A i, j \in 0..n : i <= j => d[i] <= d[j]
      /\ \A i \in 1..n : d[i - 1] + 1 <= d[i]
  BY <1>1, <1>2, <1>3, Depths
<1>7. m = d[n - 1]
  <2>1. BlocksOf(ctx[n]) \in 1..3 /\ n - 1 \in 0..n
    BY <1>1, BlocksOfRange
  <2>2. d[n - 1] \in Nat /\ Len(blocks) = d[n - 1] + BlocksOf(ctx[n])
    BY <1>1, <1>4, <1>5, <2>1
  <2>3. m = Len(blocks) - BlocksOf(ctx[n])
    BY <1>1 DEF Outer
  <2>4. \A x \in Nat, b \in 1..3 : (x + b) - b = x
    OBVIOUS
  <2> QED
    BY <2>1, <2>2, <2>3, <2>4
<1>8. \A i \in 1..n : ctx[i].base \in Nat
  <2>1. \A c \in Context : c.base \in Nat
    BY Zenon DEF Context
  <2>2. \A i \in 1..n : ctx[i] \in Context
    BY <1>3
  <2> QED
    BY <2>1, <2>2
<1>9. HiddenIn(ctx) = HiddenIn(Pop(ctx)) \cup Hidden(Top(ctx))
  <2>1. ASSUME NEW r \in HiddenIn(ctx) PROVE r \in HiddenIn(Pop(ctx)) \cup Hidden(Top(ctx))
    <3>1. PICK i \in 1..n : r \in Hidden(ctx[i])
      BY <1>3 DEF HiddenIn
    <3>2. CASE i = n
      BY <1>1, <3>1, <3>2
    <3>3. CASE i # n
      <4>1. i \in 1..Len(Pop(ctx)) /\ Pop(ctx)[i] = ctx[i]
        BY <1>1, <3>3
      <4> QED
        BY <3>1, <4>1 DEF HiddenIn
    <3> QED
      BY <3>2, <3>3
  <2>2. ASSUME NEW r \in HiddenIn(Pop(ctx)) PROVE r \in HiddenIn(ctx)
    <3>1. PICK i \in 1..Len(Pop(ctx)) : r \in Hidden(Pop(ctx)[i])
      BY DEF HiddenIn
    <3>2. i \in 1..n /\ Pop(ctx)[i] = ctx[i]
      BY <1>1
    <3> QED
      BY <1>3, <3>1, <3>2 DEF HiddenIn
  <2>3. ASSUME NEW r \in Hidden(Top(ctx)) PROVE r \in HiddenIn(ctx)
    BY <1>1, <1>3 DEF HiddenIn
  <2> QED
    BY <2>1, <2>2, <2>3
\* A hidden register of the i-th construct.
<1>10. ASSUME NEW i \in 1..n, NEW r \in Hidden(ctx[i])
       PROVE  /\ ctx[i].k \in Loops /\ r \in Nat /\ r < ctx[i].base + 3
              /\ d[i - 1] + 1 \in 1..Len(blocks) /\ d[i - 1] + 1 <= d[i]
              /\ blocks[d[i - 1] + 1].stack_bottom = ctx[i].base + 3
  <2>1. ctx[i].k \in Loops /\ r \in ctx[i].base..(ctx[i].base + 2)
    BY DEF Hidden
  <2>2. r \in Nat /\ r < ctx[i].base + 3
    BY <1>8, <2>1
  <2>3. i - 1 \in 0..n /\ i \in 0..n /\ d[i - 1] + 1 <= d[i]
    BY <1>1, <1>6
  <2>4. d[i - 1] \in Nat /\ d[i] \in Nat /\ d[i] <= Len(blocks)
    BY <1>4, <2>3
  <2>5. d[i - 1] + 1 \in 1..Len(blocks)
    BY <1>1, <2>3, <2>4
  <2> QED
    BY <1>5, <2>1, <2>2, <2>3, <2>5
<1>11. ASSUME NEW r \in HiddenIn(ctx), NEW j \in 1..Len(blocks), j > m
       PROVE  r \in Nat /\ r < blocks[j].stack_bottom
  <2>1. PICK i \in 1..n : r \in Hidden(ctx[i])
    BY <1>3 DEF HiddenIn
  <2> DEFINE b == d[i - 1] + 1
  <2>2. /\ r \in Nat /\ r < ctx[i].base + 3 /\ b \in 1..Len(blocks)
        /\ blocks[b].stack_bottom = ctx[i].base + 3 /\ ctx[i].base \in Nat
    BY <1>8, <1>10, <2>1
  <2>3. b <= j
    <3>1. i - 1 \in 0..n /\ n - 1 \in 0..n /\ i - 1 <= n - 1
      BY <1>1
    <3>2. d[i - 1] <= m /\ d[i - 1] \in Nat /\ m \in Nat
      BY <1>4, <1>6, <1>7, <3>1
    <3>3. \A x, y, z \in Nat : x <= y /\ z > y => x + 1 <= z
      OBVIOUS
    <3>4. j \in Nat
      BY <1>1
    <3> QED
      BY <1>11, <3>2, <3>3, <3>4
  <2> HIDE DEF b
  <2>4. blocks[b].stack_bottom <= blocks[j].stack_bottom /\ blocks[j].stack_bottom \in Nat
    <3>1. blocks[b] \in Block /\ blocks[j] \in Block
      BY <2>2, <1>11
    <3>2. blocks[b].stack_bottom \in Nat /\ blocks[j].stack_bottom \in Nat
      BY <3>1, BlockFields
    <3>3. b = j \/ b < j
      BY <1>1, <2>2, <2>3
    <3> QED
      BY <2>2, <3>2, <3>3 DEF Rising
  <2> QED
    BY <2>2, <2>4
<1>12. ASSUME Top(ctx).k \in Loops, NEW r \in HiddenIn(Pop(ctx)) PROVE r < Top(ctx).base
  <2>1. PICK i \in 1..Len(Pop(ctx)) : r \in Hidden(Pop(ctx)[i])
    BY DEF HiddenIn
  <2>2. i \in 1..n /\ Pop(ctx)[i] = ctx[i] /\ i \in 1..(n - 1)
    BY <1>1, <2>1
  <2> DEFINE b == d[i - 1] + 1
  <2>3. /\ r \in Nat /\ r < ctx[i].base + 3 /\ b \in 1..Len(blocks) /\ b <= d[i]
        /\ blocks[b].stack_bottom = ctx[i].base + 3 /\ ctx[i].base \in Nat
    BY <1>8, <1>10, <2>1, <2>2
  <2>4. b \in 1..d[n - 1]
    <3>1. i \in 0..n /\ n - 1 \in 0..n /\ i <= n - 1
      BY <1>1, <2>2
    <3>2. d[i] <= d[n - 1] /\ d[n - 1] \in Nat /\ d[i] \in Nat
      BY <1>4, <1>6, <3>1
    <3> HIDE DEF b
    <3>3. b \in Nat /\ b >= 1
      BY <1>1, <2>3
    <3> QED
      BY <2>3, <3>2, <3>3
  <2> HIDE DEF b
  <2>5. blocks[b].stack_bottom <= ctx[n].base
    BY <1>1, <1>5, <1>12, <2>4
  <2>6. ctx[n].base \in Nat
    BY <1>1, <1>8
  <2>7. \A x, y, z \in Nat : x < y + 3 /\ y + 3 <= z => x < z
    OBVIOUS
  <2>8. ctx[i].base + 3 <= ctx[n].base
    BY <2>3, <2>5
  <2> QED
    BY <1>1, <2>3, <2>6, <2>7, <2>8
<1>13. \A r \in HiddenIn(ctx) : r \in Nat
  <2>1. ASSUME NEW r \in HiddenIn(ctx) PROVE r \in Nat
    <3>1. PICK i \in 1..n : r \in Hidden(ctx[i])
      BY <1>3 DEF HiddenIn
    <3> QED
      BY <1>10, <3>1
  <2> QED
    BY <2>1
<1> QED
  BY <1>9, <1>11, <1>12, <1>13

-----------------------------------------------------------------------------
(* From a sound function, by stages, to a sound function. *)

\* The first m blocks are those of the open constructs.
Fits(ctx, blocks, m) ==
  /\ m \in 0..Len(blocks)
  /\ \A bs \in Seq(Block) : Len(bs) = m /\ (\A i \in 1..m : bs[i] = blocks[i]) => Shaped(ctx, bs)

\* Sequences of the same length with the same elements are equal.
LEMMA SameElements ==
  ASSUME NEW S, NEW s \in Seq(S), NEW t \in Seq(S), Len(s) = Len(t),
         \A i \in 1..Len(s) : s[i] = t[i]
  PROVE  s = t
  OBVIOUS

\* Constructs fit all the blocks that are open.
LEMMA FitsWhole ==
  ASSUME NEW ctx, NEW blocks \in Seq(Block), Shaped(ctx, blocks)
  PROVE  Fits(ctx, blocks, Len(blocks))
<1>1. ASSUME NEW bs \in Seq(Block), Len(bs) = Len(blocks), \A i \in 1..Len(blocks) : bs[i] = blocks[i]
      PROVE  Shaped(ctx, bs)
  <2>1. bs = blocks
    BY <1>1, SameElements
  <2> QED
    BY <2>1
<1>2. Len(blocks) \in 0..Len(blocks)
  <2>1. Len(blocks) \in Nat
    OBVIOUS
  <2> QED
    BY <2>1
<1> QED
  BY <1>1, <1>2 DEF Fits

\* The constructs around the innermost one fit the blocks around it.
LEMMA FitsPop ==
  ASSUME NEW ctx \in Seq(Context), ctx # << >>, NEW blocks \in Seq(Block), Shaped(ctx, blocks)
  PROVE  Fits(Pop(ctx), blocks, Outer(ctx, blocks))
<1> DEFINE m == Outer(ctx, blocks)
<1>1. /\ m \in Nat /\ m < Len(blocks)
      /\ \A bs \in Seq(Block) :
           Len(bs) = m /\ (\A i \in 1..m : bs[i] = blocks[i]) => Shaped(Pop(ctx), bs)
  BY ShapePop
<1>2. m \in 0..Len(blocks)
  BY <1>1
<1> HIDE DEF m
<1>3. Fits(Pop(ctx), blocks, m)
  BY <1>1, <1>2 DEF Fits
<1> QED
  BY <1>3 DEF m

\* The blocks of a loop lie above its hidden registers.
LoopAt(c, bs, m) ==
  c.k \in Loops => /\ bs[m + 1].stack_bottom = c.base + 3
                   /\ \A i \in 1..m : bs[i].stack_bottom <= c.base
\* A construct put on constructs that fit m blocks has the blocks above those.
LEMMA FitsPush ==
  ASSUME NEW ctx \in Seq(Context), NEW blocks \in Seq(Block), NEW m, Fits(ctx, blocks, m),
         NEW c \in Context, NEW bs \in Seq(Block), Len(bs) = m + BlocksOf(c),
         \A i \in 1..m : bs[i] = blocks[i], LoopAt(c, bs, m)
  PROVE  Shaped(Append(ctx, c), bs)
<1> DEFINE low == SubSeq(bs, 1, m)
<1>1. m \in Nat /\ m <= Len(bs)
  <2>1. \A x \in Nat, b \in 1..3 : x <= x + b
    OBVIOUS
  <2>2. m \in Nat
    BY DEF Fits
  <2> QED
    BY <2>1, <2>2, BlocksOfRange
<1>2. low \in Seq(Block) /\ Len(low) = m /\ \A i \in 1..m : low[i] = bs[i]
  BY <1>1
<1> HIDE DEF low
<1>3. Shaped(ctx, low)
  BY <1>2 DEF Fits
<1>4. c.k \in Loops => /\ bs[Len(low) + 1].stack_bottom = c.base + 3
                       /\ \A i \in 1..Len(low) : low[i].stack_bottom <= c.base
  BY <1>2 DEF LoopAt
<1>5. Len(bs) = Len(low) + BlocksOf(c) /\ \A i \in 1..Len(low) : bs[i] = low[i]
  BY <1>2
<1> QED
  BY <1>2, <1>3, <1>4, <1>5, ShapePush

\* Another construct in the place of the innermost one.
LEMMA HiddenPush ==
  ASSUME NEW ctx \in Seq(Context), NEW c \in Context
  PROVE  HiddenIn(Append(ctx, c)) = HiddenIn(ctx) \cup Hidden(c)
<1> DEFINE n == Len(ctx)
           more == Append(ctx, c)
<1>1. n \in Nat /\ Len(more) = n + 1 /\ more[n + 1] = c /\ \A i \in 1..n : more[i] = ctx[i]
  OBVIOUS
<1> HIDE DEF more
<1>2. ASSUME NEW r \in HiddenIn(more) PROVE r \in HiddenIn(ctx) \cup Hidden(c)
  <2>1. PICK i \in 1..(n + 1) : r \in Hidden(more[i])
    BY <1>1 DEF HiddenIn
  <2>2. CASE i = n + 1
    BY <1>1, <2>1, <2>2
  <2>3. CASE i # n + 1
    <3>1. i \in 1..n
      BY <1>1, <2>3
    <3> QED
      BY <1>1, <2>1, <3>1 DEF HiddenIn
  <2> QED
    BY <2>2, <2>3
<1>3. ASSUME NEW r \in HiddenIn(ctx) PROVE r \in HiddenIn(more)
  <2>1. PICK i \in 1..n : r \in Hidden(ctx[i])
    BY DEF HiddenIn
  <2>2. i \in 1..(n + 1) /\ more[i] = ctx[i]
    BY <1>1
  <2> QED
    BY <1>1, <2>1, <2>2 DEF HiddenIn
<1>4. ASSUME NEW r \in Hidden(c) PROVE r \in HiddenIn(more)
  <2>1. n + 1 \in 1..(n + 1)
    BY <1>1
  <2> QED
    BY <1>1, <1>4, <2>1 DEF HiddenIn
<1>5. HiddenIn(more) = HiddenIn(ctx) \cup Hidden(c)
  BY <1>2, <1>3, <1>4
<1> QED
  BY <1>5 DEF more

\* Changing the constructs of a function changes nothing else.
LEMMA CtxFields ==
  ASSUME NEW F \in Fun, NEW ctx \in Seq(Context)
  PROVE  LET G == [F EXCEPT !.ctx = ctx]
         IN /\ G \in Fun /\ G.ctx = ctx /\ G.err = F.err /\ G.alloc = F.alloc /\ G.locals = F.locals
            /\ G.upvalues = F.upvalues /\ G.blocks = F.blocks /\ G.targets = F.targets
            /\ G.pending = F.pending /\ G.ops = F.ops /\ G.params = F.params
<1>1. [F EXCEPT !.ctx = ctx] \in Fun
  BY FunChange
<1> QED
  BY <1>1, FunDomain DEF Fields

\* Where an operation on a function starts.
Start(F, hidden, m) ==
  /\ Ready(F) /\ Layout(F, hidden) /\ Nested(F) /\ Looped(F) /\ Fits(F.ctx, F.blocks, m)
Heir(G, F) ==
  G.upvalues = F.upvalues /\ G.ctx[1].k = F.ctx[1].k /\ G.ctx[1].dest = F.ctx[1].dest

\* A sound function is a start for a statement.
LEMMA StartSound ==
  ASSUME NEW F, Sound(F)
  PROVE  Start(F, HiddenIn(F.ctx), Len(F.blocks)) /\ F.err = "none" /\ F \in Fun /\ F.ctx # << >>
<1>1. F \in Fun /\ F.blocks \in Seq(Block)
  BY FunFields DEF Sound, Placed
<1>2. Fits(F.ctx, F.blocks, Len(F.blocks))
  BY <1>1, FitsWhole DEF Sound
<1> QED
  BY <1>1, <1>2 DEF Start, Sound, Placed, Ready, Rooted

\* A function whose constructs were changed is a start if they fit its blocks.
LEMMA StartCtx ==
  ASSUME NEW F, Ready(F), NEW hidden, Layout(F, hidden), Nested(F), NEW ctx \in Seq(Context),
         NEW m, Fits(ctx, F.blocks, m),
         \A i \in 1..Len(ctx) : /\ ctx[i].prep <= Len(F.ops)
                                /\ ctx[i].k \in Loops => ctx[i].base + 3 \in Regs
  PROVE  Start([F EXCEPT !.ctx = ctx], hidden, m)
<1> DEFINE G == [F EXCEPT !.ctx = ctx]
<1>1. /\ G \in Fun /\ G.ctx = ctx /\ G.err = F.err /\ G.alloc = F.alloc /\ G.locals = F.locals
      /\ G.blocks = F.blocks /\ G.targets = F.targets /\ G.ops = F.ops
  BY CtxFields DEF Ready
<1> HIDE DEF G
<1>2. Ready(G)
  BY <1>1 DEF Ready, Coded
<1>3. Layout(G, hidden) /\ Nested(G)
  BY <1>1 DEF Layout, LayoutTo, Nested
<1>4. Looped(G)
  BY <1>1 DEF Looped
<1>5. Start(G, hidden, m)
  BY <1>1, <1>2, <1>3, <1>4 DEF Start
<1> QED
  BY <1>5 DEF G

\* The innermost construct changes, and may need fewer blocks.
LEMMA FitsRecast ==
  ASSUME NEW ctx \in Seq(Context), ctx # << >>, NEW blocks \in Seq(Block), Shaped(ctx, blocks),
         NEW c \in Context, c.k = Top(ctx).k, c.base = Top(ctx).base,
         BlocksOf(c) <= BlocksOf(Top(ctx))
  PROVE  /\ Fits(Append(Pop(ctx), c), blocks, Outer(ctx, blocks) + BlocksOf(c))
         /\ BlocksOf(c) = BlocksOf(Top(ctx)) => Outer(ctx, blocks) + BlocksOf(c) = Len(blocks)
<1> DEFINE m == Outer(ctx, blocks)
           n == m + BlocksOf(c)
<1>1. /\ m \in Nat /\ m < Len(blocks)
      /\ \A bs \in Seq(Block) :
           Len(bs) = m /\ (\A i \in 1..m : bs[i] = blocks[i]) => Shaped(Pop(ctx), bs)
      /\ Top(ctx).k \in Loops =>
           /\ blocks[m + 1].stack_bottom = Top(ctx).base + 3
           /\ \A j \in 1..m : blocks[j].stack_bottom <= Top(ctx).base
  BY ShapePop
<1>2. Fits(Pop(ctx), blocks, m)
  BY FitsPop
<1>3. Pop(ctx) \in Seq(Context)
  BY PopElements
<1>4. /\ Len(blocks) \in Nat /\ m = Len(blocks) - BlocksOf(Top(ctx))
      /\ BlocksOf(c) \in 1..3 /\ BlocksOf(Top(ctx)) \in 1..3
  BY BlocksOfRange DEF Outer
<1> HIDE DEF m
<1>5. /\ n \in 0..Len(blocks) /\ m + 1 <= n
      /\ BlocksOf(c) = BlocksOf(Top(ctx)) => n = Len(blocks)
  <2>1. \A l, x \in Nat, a, b \in 1..3 :
          x = l - b /\ a <= b => x + a \in 0..l /\ x + 1 <= x + a /\ (a = b => x + a = l)
    OBVIOUS
  <2> QED
    BY <1>1, <1>4, <2>1
<1>6. n = m + BlocksOf(c)
  OBVIOUS
<1> HIDE DEF n
<1>7. ASSUME NEW bs \in Seq(Block), Len(bs) = n, \A i \in 1..n : bs[i] = blocks[i]
      PROVE  Shaped(Append(Pop(ctx), c), bs)
  <2>1. \A i \in 1..m : i \in 1..n /\ bs[i] = blocks[i]
    BY <1>1, <1>5, <1>7
  <2>2. m + 1 \in 1..n /\ bs[m + 1] = blocks[m + 1]
    BY <1>1, <1>5, <1>7
  <2>3. LoopAt(c, bs, m)
    BY <1>1, <2>1, <2>2 DEF LoopAt
  <2> QED
    BY <1>2, <1>3, <1>6, <1>7, <2>1, <2>3, FitsPush
<1>8. Fits(Append(Pop(ctx), c), blocks, n)
  BY <1>5, <1>7 DEF Fits
<1> QED
  BY <1>5, <1>6, <1>8 DEF m

\* The innermost construct may change its phase, and with it how many blocks it has.
LEMMA StartRecast ==
  ASSUME NEW F, Sound(F), NEW c \in Context, c.k = Top(F.ctx).k, c.base = Top(F.ctx).base,
         c.prep = Top(F.ctx).prep, c.dest = Top(F.ctx).dest, BlocksOf(c) <= BlocksOf(Top(F.ctx))
  PROVE  LET G == SetC(F, c)
         IN /\ Start(G, HiddenIn(F.ctx), Outer(F.ctx, F.blocks) + BlocksOf(c))
            /\ HiddenIn(G.ctx) = HiddenIn(F.ctx) /\ Rooted(G) /\ Heir(G, F) /\ Top(G.ctx) = c
            /\ G.blocks = F.blocks /\ G.alloc = F.alloc /\ G.locals = F.locals /\ G.ops = F.ops
            /\ G.ctx = Append(Pop(F.ctx), c)
<1> DEFINE ctx == Append(Pop(F.ctx), c)
           G == [F EXCEPT !.ctx = ctx]
           n == Len(F.ctx)
<1>1. /\ F \in Fun /\ F.ctx \in Seq(Context) /\ F.blocks \in Seq(Block) /\ F.ctx # << >>
      /\ Shaped(F.ctx, F.blocks) /\ Rooted(F) /\ Looped(F) /\ Nested(F)
      /\ Ready(F) /\ Layout(F, HiddenIn(F.ctx))
  BY FunFields DEF Sound, Placed, Rooted, Ready
<1>2. /\ n \in Nat /\ n > 0 /\ Top(F.ctx) = F.ctx[n]
      /\ Pop(F.ctx) \in Seq(Context) /\ Len(Pop(F.ctx)) = n - 1
      /\ \A i \in 1..(n - 1) : Pop(F.ctx)[i] = F.ctx[i]
  BY <1>1, NonEmpty, PopElements DEF Top
<1>3. /\ ctx \in Seq(Context) /\ Len(ctx) = n /\ ctx[n] = c /\ ctx # << >>
      /\ \A i \in 1..(n - 1) : ctx[i] = F.ctx[i]
  BY <1>2
<1> HIDE DEF ctx
<1>4. ASSUME NEW i \in 1..n
      PROVE  /\ ctx[i].k = F.ctx[i].k /\ ctx[i].base = F.ctx[i].base
             /\ ctx[i].prep = F.ctx[i].prep /\ ctx[i].dest = F.ctx[i].dest
  <2>1. CASE i = n
    BY <1>2, <1>3, <2>1
  <2>2. CASE i # n
    <3>1. i \in 1..(n - 1)
      BY <1>2, <2>2
    <3> QED
      BY <1>3, <3>1
  <2> QED
    BY <2>1, <2>2
<1>5. Fits(ctx, F.blocks, Outer(F.ctx, F.blocks) + BlocksOf(c))
  BY <1>1, FitsRecast DEF ctx
<1>6. \A i \in 1..Len(ctx) : /\ ctx[i].prep <= Len(F.ops)
                             /\ ctx[i].k \in Loops => ctx[i].base + 3 \in Regs
  BY <1>1, <1>3, <1>4 DEF Looped
<1>7. Start(G, HiddenIn(F.ctx), Outer(F.ctx, F.blocks) + BlocksOf(c))
  BY <1>1, <1>3, <1>5, <1>6, StartCtx
<1>8. /\ G.ctx = ctx /\ G.blocks = F.blocks /\ G.alloc = F.alloc /\ G.locals = F.locals
      /\ G.ops = F.ops /\ G.upvalues = F.upvalues
  BY <1>1, <1>3, CtxFields
<1>9. SetC(F, c) = G
  BY DEF SetC, ctx
<1> HIDE DEF G
<1>10. Hidden(c) = Hidden(Top(F.ctx))
  BY DEF Hidden
<1>11. HiddenIn(ctx) = HiddenIn(F.ctx)
  <2>1. HiddenIn(ctx) = HiddenIn(Pop(F.ctx)) \cup Hidden(c)
    BY <1>2, HiddenPush DEF ctx
  <2>2. Pop(F.ctx) \in Seq(Context) /\ F.ctx = Append(Pop(F.ctx), Top(F.ctx)) /\ Top(F.ctx) \in Context
    <3>1. Top(F.ctx) \in Context
      BY <1>1, NonEmpty
    <3>2. Append(Pop(F.ctx), Top(F.ctx)) \in Seq(Context) /\ Len(Append(Pop(F.ctx), Top(F.ctx))) = n
      BY <1>2, <3>1
    <3>3. \A i \in 1..n : F.ctx[i] = Append(Pop(F.ctx), Top(F.ctx))[i]
      BY <1>2
    <3> QED
      BY <1>1, <1>2, <3>1, <3>2, <3>3, SameElements
  <2>3. HiddenIn(F.ctx) = HiddenIn(Pop(F.ctx)) \cup Hidden(Top(F.ctx))
    BY <2>2, HiddenPush
  <2> QED
    BY <1>10, <2>1, <2>3
<1>12. Rooted(G)
  BY <1>1, <1>3, <1>4, <1>8 DEF Rooted
<1>13. Heir(G, F)
  <2>1. 1 \in 1..n
    BY <1>2
  <2> QED
    BY <1>4, <1>8, <2>1 DEF Heir
<1>14. Top(G.ctx) = c
  BY <1>3, <1>8 DEF Top
<1> QED
  BY <1>7, <1>8, <1>9, <1>11, <1>12, <1>13, <1>14 DEF ctx

\* The innermost construct is done.
LEMMA StartPop ==
  ASSUME NEW F, Sound(F)
  PROVE  LET G == PopC(F) c == Top(F.ctx) m == Outer(F.ctx, F.blocks)
         IN /\ Start(G, HiddenIn(F.ctx), m) /\ m + BlocksOf(c) = Len(F.blocks) /\ m \in Nat
            /\ G.blocks = F.blocks /\ G.alloc = F.alloc /\ G.ops = F.ops /\ c \in Context
            /\ HiddenIn(F.ctx) = HiddenIn(G.ctx) \cup Hidden(c)
            /\ \A r \in HiddenIn(F.ctx) : r \in Nat
            /\ \A r \in HiddenIn(F.ctx), j \in 1..Len(F.blocks) : j > m => r < F.blocks[j].stack_bottom
            /\ c.k \in Loops =>
                 /\ \A r \in HiddenIn(G.ctx) : r < c.base
                 /\ F.blocks[m + 1].stack_bottom = c.base + 3
                 /\ \A j \in 1..m : F.blocks[j].stack_bottom <= c.base
                 /\ c.base + 3 \in Regs
            /\ c.prep <= Len(F.ops) /\ G.upvalues = F.upvalues
            /\ c.k \notin Roots => Rooted(G) /\ Heir(G, F)
<1> DEFINE ctx == Pop(F.ctx)
           G == [F EXCEPT !.ctx = ctx]
           n == Len(F.ctx)
           m == Outer(F.ctx, F.blocks)
<1>1. /\ F \in Fun /\ F.ctx \in Seq(Context) /\ F.blocks \in Seq(Block) /\ F.ctx # << >>
      /\ Shaped(F.ctx, F.blocks) /\ Rooted(F) /\ Looped(F) /\ Nested(F)
      /\ Ready(F) /\ Layout(F, HiddenIn(F.ctx))
  BY FunFields DEF Sound, Placed, Rooted, Ready
<1>2. /\ n \in Nat /\ n > 0 /\ n \in 1..n /\ Top(F.ctx) = F.ctx[n] /\ Top(F.ctx) \in Context
      /\ ctx \in Seq(Context) /\ Len(ctx) = n - 1
      /\ \A i \in 1..(n - 1) : ctx[i] = F.ctx[i]
  BY <1>1, NonEmpty, PopElements DEF Top
<1>3. /\ m \in Nat /\ m < Len(F.blocks)
      /\ Top(F.ctx).k \in Loops =>
           /\ F.blocks[m + 1].stack_bottom = Top(F.ctx).base + 3
           /\ \A j \in 1..m : F.blocks[j].stack_bottom <= Top(F.ctx).base
  BY <1>1, ShapePop
<1>4. Fits(ctx, F.blocks, m)
  BY <1>1, FitsPop
<1>5. m + BlocksOf(Top(F.ctx)) = Len(F.blocks)
  <2>1. \A l \in Nat, b \in 1..3 : (l - b) + b = l
    OBVIOUS
  <2>2. Len(F.blocks) \in Nat
    BY <1>1
  <2> QED
    BY <2>1, <2>2, BlocksOfRange DEF Outer
<1>6. Rising(F.blocks)
  BY <1>1 DEF Nested, Within, Rising
<1>7. /\ HiddenIn(F.ctx) = HiddenIn(ctx) \cup Hidden(Top(F.ctx))
      /\ \A r \in HiddenIn(F.ctx) : r \in Nat
      /\ \A r \in HiddenIn(F.ctx), j \in 1..Len(F.blocks) : j > m => r < F.blocks[j].stack_bottom
      /\ Top(F.ctx).k \in Loops => \A r \in HiddenIn(ctx) : r < Top(F.ctx).base
  BY <1>1, <1>6, HiddenBelow
<1> HIDE DEF m, ctx
<1>8. /\ Top(F.ctx).prep <= Len(F.ops)
      /\ Top(F.ctx).k \in Loops => Top(F.ctx).base + 3 \in Regs
  BY <1>1, <1>2 DEF Looped
<1>9. \A i \in 1..Len(ctx) : /\ i \in 1..n /\ ctx[i] = F.ctx[i] /\ ctx[i].prep <= Len(F.ops)
                             /\ ctx[i].k \in Loops => ctx[i].base + 3 \in Regs
  BY <1>1, <1>2 DEF Looped
<1>10. Start(G, HiddenIn(F.ctx), m)
  BY <1>1, <1>2, <1>4, <1>9, StartCtx
<1>11. /\ G.ctx = ctx /\ G.blocks = F.blocks /\ G.alloc = F.alloc /\ G.ops = F.ops
       /\ G.upvalues = F.upvalues
  BY <1>1, <1>2, CtxFields
<1>12. PopC(F) = G
  BY DEF PopC, ctx
<1> HIDE DEF G
<1>13. ASSUME Top(F.ctx).k \notin Roots PROVE Rooted(G) /\ Heir(G, F)
  <2>1. n # 1
    BY <1>1, <1>2, <1>13 DEF Rooted
  <2>2. 1 \in 1..(n - 1) /\ ctx # << >>
    <3>3. \A x \in Nat : x > 0 /\ x # 1 => x - 1 \in Nat /\ x - 1 >= 1
      OBVIOUS
    <3>1. n - 1 \in Nat /\ n - 1 >= 1
      BY <1>2, <2>1, <3>3
    <3>2. Len(ctx) # 0
      BY <1>2, <3>1
    <3> QED
      BY <3>1, <3>2
  <2>3. ctx[1] = F.ctx[1]
    BY <1>2, <2>2
  <2>4. Rooted(G)
    BY <1>1, <1>9, <1>11, <2>2 DEF Rooted
  <2> QED
    BY <1>11, <2>3, <2>4 DEF Heir
<1> QED
  BY <1>2, <1>3, <1>5, <1>7, <1>8, <1>10, <1>11, <1>12, <1>13 DEF m, ctx

\* A function that comes back to the stage it started from is sound.
LEMMA Settle ==
  ASSUME NEW F, NEW hidden, NEW m, Start(F, hidden, m), Rooted(F),
         NEW G, Stage(G, F, HiddenIn(F.ctx), m), G.err = "none"
  PROVE  Sound(G) /\ Heir(G, F)
<1>1. /\ Ready(G) /\ G \in Fun /\ F \in Fun /\ Stands(G, F, m) /\ Layout(G, HiddenIn(F.ctx))
      /\ G.blocks \in Seq(Block) /\ Len(F.ops) \in Nat /\ Len(G.ops) \in Nat /\ Len(F.blocks) \in Nat
      /\ F.ctx \in Seq(Context) /\ m \in 0..Len(F.blocks) /\ Looped(F)
  BY FunFields DEF Stage, Given, Ready, Start, Fits
<1>2. /\ G.ctx = F.ctx /\ G.upvalues = F.upvalues /\ Len(F.ops) <= Len(G.ops) /\ Len(G.blocks) = m
      /\ Nested(G) /\ \A i \in 1..m : G.blocks[i] = F.blocks[i]
  <2>1. \A i \in 1..m : i \in 1..Len(F.blocks) /\ i <= m
    BY <1>1
  <2> QED
    BY <1>1, <2>1 DEF Stands, From
<1>3. Shaped(G.ctx, G.blocks)
  BY <1>1, <1>2 DEF Start, Fits
<1>4. Looped(G)
  <2>1. ASSUME NEW i \in 1..Len(G.ctx)
        PROVE  G.ctx[i].prep <= Len(G.ops) /\ (G.ctx[i].k \in Loops => G.ctx[i].base + 3 \in Regs)
    <3>1. F.ctx[i] \in Context /\ G.ctx[i] = F.ctx[i]
      BY <1>1, <1>2
    <3>2. F.ctx[i].prep \in Nat
      <4>1. \A c \in Context : c.prep \in Nat
        BY Zenon DEF Context
      <4> QED
        BY <3>1, <4>1
    <3>3. F.ctx[i].prep <= Len(F.ops) /\ (F.ctx[i].k \in Loops => F.ctx[i].base + 3 \in Regs)
      BY <1>1, <1>2 DEF Looped
    <3>4. \A x, y, z \in Nat : x <= y /\ y <= z => x <= z
      OBVIOUS
    <3>5. F.ctx[i].prep <= Len(G.ops)
      BY <1>1, <1>2, <3>2, <3>3, <3>4
    <3> QED
      BY <3>1, <3>3, <3>5
  <2> QED
    BY <2>1 DEF Looped
<1>5. Rooted(G) /\ Heir(G, F)
  BY <1>2 DEF Rooted, Heir
<1>6. Placed(G, HiddenIn(G.ctx)) /\ Coded(G)
  BY <1>1, <1>2 DEF Placed, Ready
<1> QED
  BY <1>3, <1>4, <1>5, <1>6 DEF Sound

\* The same, with a construct that was opened, the function itself or one inside it.
CanHold(F, c) == IF F.ctx = << >> THEN c.k \in Roots ELSE Rooted(F) /\ c.k \notin Roots
\* A function in which a construct was opened, at the stage of its blocks, is sound.
LEMMA SettleOpen ==
  ASSUME NEW F, NEW hidden, NEW m, Start(F, hidden, m), NEW c \in Context, CanHold(F, c),
         NEW G, Stage(G, F, HiddenIn(F.ctx) \cup Hidden(c), m + BlocksOf(c)), G.err = "none",
         c.prep <= Len(G.ops), c.k \in Loops => c.base + 3 \in Regs, LoopAt(c, G.blocks, m)
  PROVE  /\ Sound(PushC(G, c)) /\ PushC(G, c).upvalues = F.upvalues
         /\ IF F.ctx = << >> THEN PushC(G, c).ctx = <<c>> ELSE Heir(PushC(G, c), F)
<1> DEFINE ctx == Append(F.ctx, c)
           H == [G EXCEPT !.ctx = ctx]
           n == Len(F.ctx)
<1>1. /\ Ready(G) /\ G \in Fun /\ F \in Fun /\ Stands(G, F, m + BlocksOf(c))
      /\ Layout(G, HiddenIn(F.ctx) \cup Hidden(c)) /\ G.blocks \in Seq(Block)
      /\ Len(F.ops) \in Nat /\ Len(G.ops) \in Nat /\ Len(F.blocks) \in Nat
      /\ F.ctx \in Seq(Context) /\ F.blocks \in Seq(Block) /\ m \in 0..Len(F.blocks)
      /\ Fits(F.ctx, F.blocks, m) /\ Looped(F)
  BY FunFields DEF Stage, Given, Ready, Start, Fits
<1>2. /\ G.ctx = F.ctx /\ G.upvalues = F.upvalues /\ Len(F.ops) <= Len(G.ops)
      /\ Len(G.blocks) = m + BlocksOf(c) /\ Nested(G) /\ \A i \in 1..m : G.blocks[i] = F.blocks[i]
  <2>1. \A x \in Nat, b \in 1..3 : \A i \in 1..x : i <= x + b
    OBVIOUS
  <2>2. \A i \in 1..m : i \in 1..Len(F.blocks) /\ i <= m + BlocksOf(c)
    BY <1>1, <2>1, BlocksOfRange
  <2> QED
    BY <1>1, <2>2 DEF Stands, From
<1>3. /\ ctx \in Seq(Context) /\ Len(ctx) = n + 1 /\ ctx[n + 1] = c /\ n \in Nat
      /\ \A i \in 1..n : ctx[i] = F.ctx[i]
  BY <1>1
<1>4. Shaped(ctx, G.blocks)
  BY <1>1, <1>2, FitsPush
<1>5. HiddenIn(ctx) = HiddenIn(F.ctx) \cup Hidden(c)
  BY <1>1, HiddenPush
<1> HIDE DEF ctx
<1>6. /\ H \in Fun /\ H.ctx = ctx /\ H.err = G.err /\ H.alloc = G.alloc /\ H.locals = G.locals
      /\ H.blocks = G.blocks /\ H.targets = G.targets /\ H.ops = G.ops /\ H.upvalues = G.upvalues
  BY <1>1, <1>3, CtxFields
<1>7. PushC(G, c) = H
  BY <1>2 DEF PushC, ctx
<1> HIDE DEF H
<1>8. Looped(H)
  <2>1. ASSUME NEW i \in 1..(n + 1)
        PROVE  ctx[i].prep <= Len(G.ops) /\ (ctx[i].k \in Loops => ctx[i].base + 3 \in Regs)
    <3>1. CASE i = n + 1
      BY <1>3, <3>1
    <3>2. CASE i # n + 1
      <4>1. i \in 1..n
        BY <1>3, <3>2
      <4>2. F.ctx[i] \in Context /\ ctx[i] = F.ctx[i]
        BY <1>1, <1>3, <4>1
      <4>3. F.ctx[i].prep \in Nat
        <5>1. \A x \in Context : x.prep \in Nat
          BY Zenon DEF Context
        <5> QED
          BY <4>2, <5>1
      <4>4. F.ctx[i].prep <= Len(F.ops) /\ (F.ctx[i].k \in Loops => F.ctx[i].base + 3 \in Regs)
        BY <1>1, <4>1 DEF Looped
      <4>5. \A x, y, z \in Nat : x <= y /\ y <= z => x <= z
        OBVIOUS
      <4>6. F.ctx[i].prep <= Len(G.ops)
        BY <1>1, <1>2, <4>3, <4>4, <4>5
      <4> QED
        BY <4>2, <4>4, <4>6
    <3> QED
      BY <3>1, <3>2
  <2> QED
    BY <1>3, <1>6, <2>1 DEF Looped
<1>12. ASSUME F.ctx = << >> PROVE ctx = <<c>> /\ Rooted(H)
  <2>1. ctx = <<c>>
    BY <1>12 DEF ctx
  <2>2. ctx # << >> /\ \A i \in 1..Len(ctx) : ctx[i].k \in Roots <=> i = 1
    BY <1>12, <2>1 DEF CanHold
  <2> QED
    BY <1>6, <2>1, <2>2 DEF Rooted
<1>9. ASSUME F.ctx # << >> PROVE Rooted(H) /\ Heir(H, F)
  <2>0. Rooted(F) /\ c.k \notin Roots
    BY <1>9 DEF CanHold
  <2>1. F.ctx # << >> /\ n > 0
    BY <1>1, <1>9, NonEmpty
  <2>2. ctx # << >> /\ ctx[1] = F.ctx[1]
    <3>1. 1 \in 1..n /\ Len(ctx) # 0
      BY <1>3, <2>1
    <3> QED
      BY <1>3, <3>1
  <2>3. ASSUME NEW i \in 1..(n + 1) PROVE ctx[i].k \in Roots <=> i = 1
    <3>1. CASE i = n + 1
      BY <1>3, <2>0, <2>1, <3>1
    <3>2. CASE i # n + 1
      <4>1. i \in 1..n
        BY <1>3, <3>2
      <4> QED
        BY <1>3, <2>0, <4>1 DEF Rooted
    <3> QED
      BY <3>1, <3>2
  <2>4. Rooted(H)
    BY <1>3, <1>6, <2>2, <2>3 DEF Rooted
  <2> QED
    BY <1>2, <1>6, <2>2, <2>4 DEF Heir
<1>10. Ready(H) /\ Layout(H, HiddenIn(H.ctx)) /\ Nested(H)
  <2>1. Ready(H)
    BY <1>1, <1>6 DEF Ready, Coded
  <2>2. Layout(H, HiddenIn(H.ctx))
    BY <1>1, <1>5, <1>6 DEF Layout, LayoutTo
  <2>3. Nested(H)
    BY <1>2, <1>6 DEF Nested
  <2> QED
    BY <2>1, <2>2, <2>3
<1>11. Sound(H)
  BY <1>4, <1>6, <1>8, <1>9, <1>10, <1>12 DEF Sound, Placed, Ready
<1> QED
  BY <1>2, <1>6, <1>7, <1>9, <1>11, <1>12

\* A function that is sound unless there was an error.
Settled(F) == Given(F) /\ (F.err = "none" => Sound(F))

\* Opening a construct reports no error.
LEMMA CtxErr ==
  ASSUME NEW F, HasErr(F), NEW c
  PROVE  HasErr(PushC(F, c)) /\ PushC(F, c).err = F.err
  BY DEF HasErr, PushC

\* A function that is sound unless it failed is settled.
LEMMA SoundSettled ==
  ASSUME NEW F, HasErr(F), F.err = "none" => Sound(F)
  PROVE  Settled(F)
  BY FunFields DEF Settled, Given, Sound, Placed, Ready

\* A construct's own blocks, without the one around its statements.
OwnBlocks(c) == IF c.k \in Loops \cup {"repeat"} THEN 2 ELSE 1

\* A construct is begun in a function.
OpenedWell(H, G, F, c) ==
  /\ Settled(H) /\ H.err = G.err
  /\ H.err = "none" => /\ H.upvalues = F.upvalues
                       /\ IF F.ctx = << >> THEN H.ctx = <<c>> ELSE Heir(H, F)

\* A construct's body is opened well: a block for it unless it ends in a return or a
\* repeat.
LEMMA Opened ==
  ASSUME NEW F, NEW hidden, NEW m, Start(F, hidden, m), m = Len(F.blocks),
         NEW c \in Context, c.phase = "body", CanHold(F, c),
         NEW G, Stage(G, F, HiddenIn(F.ctx) \cup Hidden(c), m + OwnBlocks(c)),
         G.err = "none" => /\ c.prep <= Len(G.ops) /\ LoopAt(c, G.blocks, m)
                           /\ c.k \in Loops => c.base + 3 \in Regs
  PROVE  HasErr(G) /\ OpenedWell(OpenBody(G, c), G, F, c)
<1> DEFINE body == c.ret \/ c.k = "repeat"
           H == IF body THEN G ELSE EnterBlock(G)
           all == HiddenIn(F.ctx) \cup Hidden(c)
           n == m + OwnBlocks(c)
<1>1. F \in Fun /\ m \in Nat /\ n \in Nat /\ n >= m /\ m + 1 <= n
  <2>1. OwnBlocks(c) \in {1, 2}
    BY DEF OwnBlocks
  <2>2. F \in Fun
    BY DEF Start, Ready
  <2> QED
    BY <2>1, <2>2, FunFields
<1>2. ASSUME ~body
      PROVE  /\ Stage(EnterBlock(G), F, all, n + 1) /\ EnterBlock(G).err = G.err
             /\ EnterBlock(G).err = "none" =>
                  /\ \A i \in 1..n : EnterBlock(G).blocks[i] = G.blocks[i]
                  /\ EnterBlock(G).ops = G.ops
  <2>1. n >= Len(F.blocks)
    BY <1>1
  <2> HIDE DEF n, all
  <2> QED
    BY <1>1, <2>1, StageEnter DEF n, all
<1>3. BlocksOf(c) = OwnBlocks(c) + (IF body THEN 0 ELSE 1) /\ c.ret \in BOOLEAN
  <2>1. c.ret \in BOOLEAN
    BY Zenon DEF Context
  <2> QED
    BY <2>1 DEF BlocksOf, OwnBlocks
<1>9. OwnBlocks(c) \in {1, 2} /\ \A x \in Nat, b \in {1, 2} : x + (b + 0) = x + b /\ x + (b + 1) = (x + b) + 1
  BY DEF OwnBlocks
<1>4. /\ Stage(H, F, all, m + BlocksOf(c)) /\ H.err = G.err
      /\ H.err = "none" => H.ops = G.ops /\ \A i \in 1..n : H.blocks[i] = G.blocks[i]
  <2>1. CASE body
    <3>1. m + BlocksOf(c) = n
      BY <1>1, <1>3, <1>9, <2>1
    <3> QED
      BY <2>1, <3>1
  <2>2. CASE ~body
    <3>1. m + BlocksOf(c) = n + 1
      BY <1>1, <1>3, <1>9, <2>2
    <3> QED
      BY <1>2, <2>2, <3>1
  <2> QED
    BY <2>1, <2>2
<1>5. OpenBody(G, c) = PushC(H, c)
  BY DEF OpenBody
<1> HIDE DEF H, n, body
<1>6. HasErr(H) /\ HasErr(G)
  BY <1>4 DEF Stage, Given
<1>7. HasErr(PushC(H, c)) /\ PushC(H, c).err = H.err
  BY <1>6, CtxErr
<1>8. ASSUME H.err = "none"
      PROVE  /\ Sound(PushC(H, c)) /\ PushC(H, c).upvalues = F.upvalues
             /\ IF F.ctx = << >> THEN PushC(H, c).ctx = <<c>> ELSE Heir(PushC(H, c), F)
  <2>1. LoopAt(c, H.blocks, m)
    <3>1. m + 1 \in 1..n /\ \A i \in 1..m : i \in 1..n
      BY <1>1
    <3> QED
      BY <1>4, <1>8, <3>1 DEF LoopAt
  <2>2. c.prep <= Len(H.ops) /\ (c.k \in Loops => c.base + 3 \in Regs)
    BY <1>4, <1>8
  <2> QED
    BY <1>4, <1>8, <2>1, <2>2, SettleOpen DEF all
<1> QED
  BY <1>4, <1>5, <1>6, <1>7, <1>8, SoundSettled DEF OpenedWell

-----------------------------------------------------------------------------
(* The functions being compiled. *)

\* The innermost function changes.
LEMMA Replaced ==
  ASSUME NEW fs, Compiling(fs), NEW G, Sound(G), Heir(G, Top(fs))
  PROVE  Compiling(Append(Pop(fs), G))
<1> DEFINE n == Len(fs)
           H == Append(Pop(fs), G)
<1>1. /\ fs \in Seq(Fun) /\ fs # << >> /\ n \in Nat /\ n > 0 /\ n \in 1..n /\ n \in 1..MaxFunctions
      /\ Top(fs) = fs[n]
  <2>1. fs \in Seq(Fun) /\ n \in 1..MaxFunctions
    BY DEF Compiling
  <2>2. fs # << >>
    BY <2>1
  <2>3. n \in Nat /\ n > 0
    BY <2>1, <2>2, NonEmpty
  <2> QED
    BY <2>1, <2>2, <2>3 DEF Top
<1>2. Pop(fs) \in Seq(Fun) /\ Len(Pop(fs)) = n - 1 /\ \A k \in 1..(n - 1) : Pop(fs)[k] = fs[k]
  BY <1>1, PopElements
<1>3. G \in Fun
  BY DEF Sound, Placed
<1>4. H \in Seq(Fun) /\ Len(H) = n /\ H[n] = G /\ \A k \in 1..(n - 1) : H[k] = fs[k]
  BY <1>1, <1>2, <1>3
<1> HIDE DEF H, n
<1>5. n = Len(fs)
  BY DEF n
<1>6. \A k \in 1..n : H[k] = IF k = n THEN G ELSE fs[k]
  <2>1. ASSUME NEW k \in 1..n, k # n PROVE H[k] = fs[k]
    <3>1. k \in 1..(n - 1)
      BY <1>1, <2>1
    <3> QED
      BY <1>4, <3>1
  <2> QED
    BY <1>4, <2>1
<1>7. \A k \in 1..n : /\ H[k].upvalues = fs[k].upvalues /\ H[k].ctx[1].k = fs[k].ctx[1].k
                      /\ H[k].ctx[1].dest = fs[k].ctx[1].dest
  BY <1>1, <1>6 DEF Heir
<1>8. \A k \in 1..n : Sound(H[k])
  BY <1>5, <1>6 DEF Compiling
<1>9. \A k \in 2..n : k \in 1..n /\ k - 1 \in 1..n /\ H[k - 1] = fs[k - 1]
  <2>1. ASSUME NEW k \in 2..n PROVE k \in 1..n /\ k - 1 \in 1..n /\ k - 1 # n
    BY <1>1
  <2> QED
    BY <1>6, <2>1
<1>10. Linked(H)
  <2>1. FirstLinks(H[1])
    <3>1. 1 \in 1..n /\ FirstLinks(fs[1])
      BY <1>1 DEF Compiling, Linked
    <3> QED
      BY <1>7, <3>1 DEF FirstLinks
  <2>2. ASSUME NEW k \in 2..n PROVE Links(H[k], H[k - 1])
    <3>1. Links(fs[k], fs[k - 1])
      BY <1>5 DEF Compiling, Linked
    <3>2. H[k].upvalues = fs[k].upvalues /\ H[k - 1] = fs[k - 1]
      BY <1>7, <1>9
    <3> QED
      BY <3>1, <3>2 DEF Links
  <2> QED
    BY <1>4, <2>1, <2>2 DEF Linked
<1>11. Dests(H)
  <2>1. H[1].ctx[1].k = "chunk"
    <3>1. 1 \in 1..n /\ fs[1].ctx[1].k = "chunk"
      BY <1>1 DEF Compiling, Dests
    <3> QED
      BY <1>7, <3>1
  <2>2. ASSUME NEW k \in 2..n, H[k].ctx[1].k = "localfunction"
        PROVE  H[k].ctx[1].dest \in RegsOf(H[k - 1].locals)
    <3>1. fs[k].ctx[1].k = "localfunction" => fs[k].ctx[1].dest \in RegsOf(fs[k - 1].locals)
      BY <1>5 DEF Compiling, Dests
    <3> QED
      BY <1>7, <1>9, <2>2, <3>1
  <2> QED
    BY <1>4, <2>1, <2>2 DEF Dests
<1>12. Compiling(H)
  BY <1>1, <1>4, <1>8, <1>10, <1>11 DEF Compiling
<1> QED
  BY <1>12 DEF H

\* What a step of the compiler may leave behind.
Keeps(fs, r) ==
  /\ r \in {"compiling", "ok"} \cup Errors /\ Len(fs) \in 0..MaxFunctions
  /\ r = "compiling" => Compiling(fs)
  /\ r = "ok" => DoneCode(fs[1].ops)

\* Replacing the innermost function by a settled heir keeps the invariant.
LEMMA CommitKeeps ==
  ASSUME NEW fs, Compiling(fs), result = "compiling", NEW G, Settled(G),
         G.err = "none" => Heir(G, Top(fs)), Commit(fs, G)
  PROVE  Keeps(fns', result')
<1>1. fs \in Seq(Fun) /\ Len(fs) \in 1..MaxFunctions /\ fs # << >> /\ G.err \in {"none"} \cup Errors
  BY DEF Compiling, Settled, Given, HasErr
<1>2. fns' = Append(Pop(fs), G) /\ result' = IF G.err = "none" THEN result ELSE G.err
  BY DEF Commit
<1>3. Len(Append(Pop(fs), G)) = Len(fs)
  <2>1. Pop(fs) \in Seq(Fun) /\ Len(Pop(fs)) = Len(fs) - 1 /\ Len(fs) \in Nat
    BY <1>1, PopElements
  <2>2. Len(Append(Pop(fs), G)) = Len(Pop(fs)) + 1
    BY <2>1
  <2> QED
    BY <2>1, <2>2
<1>4. Len(fns') \in 0..MaxFunctions
  BY <1>1, <1>2, <1>3, CompilerAssumption
<1>5. "compiling" \notin Errors /\ "ok" \notin Errors /\ "none" \notin Errors
  BY DEF Errors
<1>6. CASE G.err = "none"
  <2>1. Compiling(Append(Pop(fs), G))
    BY <1>6, Replaced DEF Settled
  <2> QED
    BY <1>2, <1>4, <1>6, <2>1 DEF Keeps
<1>7. CASE G.err # "none"
  BY <1>1, <1>2, <1>4, <1>5, <1>7 DEF Keeps
<1> QED
  BY <1>6, <1>7

-----------------------------------------------------------------------------
(* Simple statements. *)

\* The fields of a construct have their types.
LEMMA ContextFields ==
  ASSUME NEW c \in Context
  PROVE  /\ c.k \in {"do", "while", "repeat", "if", "else", "chunk"} \cup Loops \cup Functions
         /\ c.ret \in BOOLEAN /\ c.phase \in {"body", "labels", "closed"} /\ c.after_label \in BOOLEAN
         /\ c.a \in Label /\ c.b \in Label
         /\ c.base \in Nat /\ c.prep \in Nat /\ c.dest \in {None} \cup Regs
  BY DEF Context

\* Changing what statements may follow changes neither the kind nor the registers of a
\* construct.
LEMMA ContextChange ==
  ASSUME NEW c \in Context
  PROVE  /\ \A x \in BOOLEAN : LET d == [c EXCEPT !.after_label = x]
                               IN /\ d \in Context /\ d.k = c.k /\ d.base = c.base /\ d.prep = c.prep
                                  /\ d.dest = c.dest /\ d.ret = c.ret /\ d.phase = c.phase
         /\ \A x \in {"body", "labels", "closed"} :
              LET d == [c EXCEPT !.phase = x]
              IN /\ d \in Context /\ d.k = c.k /\ d.base = c.base /\ d.prep = c.prep
                 /\ d.dest = c.dest /\ d.ret = c.ret /\ d.phase = x
<1>1. ASSUME NEW x \in BOOLEAN
      PROVE  LET d == [c EXCEPT !.after_label = x]
             IN /\ d \in Context /\ d.k = c.k /\ d.base = c.base /\ d.prep = c.prep
                /\ d.dest = c.dest /\ d.ret = c.ret /\ d.phase = c.phase
  BY Zenon DEF Context
<1>2. ASSUME NEW x \in {"body", "labels", "closed"}
      PROVE  LET d == [c EXCEPT !.phase = x]
             IN /\ d \in Context /\ d.k = c.k /\ d.base = c.base /\ d.prep = c.prep
                /\ d.dest = c.dest /\ d.ret = c.ret /\ d.phase = x
  BY DEF Context
<1> QED
  BY <1>1, <1>2

\* An heir's heir is an heir.
LEMMA HeirTrans ==
  ASSUME NEW F, NEW G, NEW H, Heir(G, F), Heir(H, G)
  PROVE  Heir(H, F)
  BY DEF Heir

\* A sound function is at the stage of its own blocks.
LEMMA SoundStage ==
  ASSUME NEW F, Sound(F)
  PROVE  /\ Stage(F, F, HiddenIn(F.ctx), Len(F.blocks)) /\ Start(F, HiddenIn(F.ctx), Len(F.blocks))
         /\ Rooted(F) /\ F \in Fun /\ Given(F) /\ F.err = "none"
<1>1. Start(F, HiddenIn(F.ctx), Len(F.blocks)) /\ F.err = "none" /\ F \in Fun /\ Rooted(F)
  BY StartSound DEF Sound
<1>2. Stage(F, F, HiddenIn(F.ctx), Len(F.blocks))
  BY <1>1, StageStart DEF Start
<1> QED
  BY <1>1, <1>2 DEF Stage

\* Back at the stage where it started a function is settled.
LEMMA StageSettled ==
  ASSUME NEW F, NEW hidden, NEW m, Start(F, hidden, m), Rooted(F), NEW G, Stage(G, F, HiddenIn(F.ctx), m)
  PROVE  Settled(G) /\ (G.err = "none" => Sound(G) /\ Heir(G, F))
<1>1. G.err = "none" => Sound(G) /\ Heir(G, F)
  BY Settle
<1> QED
  BY <1>1 DEF Settled, Stage

\* Steps that keep registers, variables and blocks keep a function settled.
LEMMA FollowsSettled ==
  ASSUME NEW F, Settled(F), NEW G, Follows(G, F)
  PROVE  Settled(G) /\ (G.err = "none" => F.err = "none" /\ Heir(G, F))
<1>1. CASE F.err = "none"
  <2>1. Sound(F) /\ F \in Fun
    BY <1>1, SoundStage DEF Settled
  <2>2. Stage(G, F, HiddenIn(F.ctx), Len(F.blocks))
    BY <2>1, SoundStage, StageFollows
  <2>3. Settled(G) /\ (G.err = "none" => Heir(G, F))
    BY <2>1, <2>2, SoundStage, StageSettled
  <2> QED
    BY <1>1, <2>3
<1>2. CASE F.err # "none"
  BY <1>2 DEF Follows, Settled
<1> QED
  BY <1>1, <1>2

\* A construct changes without a change of its blocks.
LEMMA SetSound ==
  ASSUME NEW F, Sound(F), NEW c \in Context, c.k = Top(F.ctx).k, c.base = Top(F.ctx).base,
         c.prep = Top(F.ctx).prep, c.dest = Top(F.ctx).dest, BlocksOf(c) = BlocksOf(Top(F.ctx))
  PROVE  LET G == SetC(F, c)
         IN /\ Sound(G) /\ Heir(G, F) /\ G.blocks = F.blocks /\ G.alloc = F.alloc /\ G.ops = F.ops
            /\ G.locals = F.locals /\ HiddenIn(G.ctx) = HiddenIn(F.ctx)
<1> DEFINE G == SetC(F, c)
           m == Outer(F.ctx, F.blocks) + BlocksOf(c)
<1>1. /\ F.ctx \in Seq(Context) /\ F.ctx # << >> /\ F.blocks \in Seq(Block) /\ Shaped(F.ctx, F.blocks)
  BY FunFields DEF Sound, Placed, Rooted
<1>2. BlocksOf(c) <= BlocksOf(Top(F.ctx))
  BY BlocksOfRange
<1>3. /\ Start(G, HiddenIn(F.ctx), m) /\ HiddenIn(G.ctx) = HiddenIn(F.ctx) /\ Rooted(G) /\ Heir(G, F)
      /\ G.blocks = F.blocks /\ G.alloc = F.alloc /\ G.locals = F.locals /\ G.ops = F.ops
  BY <1>2, StartRecast
<1>4. m = Len(F.blocks)
  BY <1>1, <1>2, FitsRecast
<1> HIDE DEF G, m
<1>5. Stage(G, G, HiddenIn(G.ctx), Len(G.blocks)) /\ G.err = "none"
  <2>1. Ready(G) /\ Layout(G, HiddenIn(G.ctx)) /\ Nested(G)
    BY <1>3 DEF Start
  <2> QED
    BY <2>1, StageStart DEF Ready
<1>6. Sound(G)
  BY <1>3, <1>4, <1>5, Settle
<1> QED
  BY <1>3, <1>6 DEF G

\* A sound function is inside a construct.
LEMMA TopContext ==
  ASSUME NEW F, Sound(F)
  PROVE  Top(F.ctx) \in Context /\ F.ctx \in Seq(Context) /\ F.ctx # << >> /\ Top(F.ctx) = F.ctx[Len(F.ctx)]
<1>1. F.ctx \in Seq(Context) /\ F.ctx # << >>
  BY FunFields DEF Sound, Placed, Rooted
<1> QED
  BY <1>1, NonEmpty DEF Top

\* Ending a statement keeps a function sound.
LEMMA DoneSound ==
  ASSUME NEW F, Sound(F)
  PROVE  LET G == Done(F)
         IN /\ Sound(G) /\ Heir(G, F) /\ G.blocks = F.blocks /\ G.alloc = F.alloc /\ G.ops = F.ops
            /\ G.locals = F.locals /\ HiddenIn(G.ctx) = HiddenIn(F.ctx)
<1> DEFINE c == [Top(F.ctx) EXCEPT !.after_label = FALSE]
           n == Len(F.ctx)
<1>1. /\ F \in Fun /\ F.ctx \in Seq(Context) /\ F.ctx # << >> /\ Top(F.ctx) \in Context
      /\ Top(F.ctx) = F.ctx[n]
  BY TopContext DEF Sound, Placed
<1>2. /\ c \in Context /\ c.k = Top(F.ctx).k /\ c.base = Top(F.ctx).base /\ c.prep = Top(F.ctx).prep
      /\ c.dest = Top(F.ctx).dest /\ c.ret = Top(F.ctx).ret /\ c.phase = Top(F.ctx).phase
  BY <1>1, ContextChange
<1>3. Done(F) = SetC(F, c)
  <2>1. Done(F) = [F EXCEPT !.ctx = [F.ctx EXCEPT ![n] = c]]
    BY <1>1, FunDomain DEF Done, Fields
  <2> HIDE DEF c
  <2>2. [F.ctx EXCEPT ![n] = c] = Append(Pop(F.ctx), c)
    <3>1. /\ n \in Nat /\ n > 0 /\ n \in 1..n /\ Pop(F.ctx) \in Seq(Context) /\ Len(Pop(F.ctx)) = n - 1
          /\ \A i \in 1..(n - 1) : Pop(F.ctx)[i] = F.ctx[i]
      BY <1>1, NonEmpty, PopElements
    <3>2. [F.ctx EXCEPT ![n] = c] \in Seq(Context) /\ Len([F.ctx EXCEPT ![n] = c]) = n
      BY <1>1, <1>2, <3>1
    <3>3. /\ Append(Pop(F.ctx), c) \in Seq(Context) /\ Len(Append(Pop(F.ctx), c)) = n
          /\ Append(Pop(F.ctx), c)[n] = c
          /\ \A i \in 1..(n - 1) : Append(Pop(F.ctx), c)[i] = F.ctx[i]
      BY <1>2, <3>1
    <3>4. ASSUME NEW i \in 1..n PROVE [F.ctx EXCEPT ![n] = c][i] = Append(Pop(F.ctx), c)[i]
      <4>1. CASE i = n
        BY <1>1, <3>1, <3>3, <4>1
      <4>2. CASE i # n
        <5>1. i \in 1..(n - 1)
          BY <3>1, <4>2
        <5> QED
          BY <1>1, <3>3, <4>2, <5>1
      <4> QED
        BY <4>1, <4>2
    <3> QED
      BY <3>2, <3>3, <3>4, SameElements
  <2> QED
    BY <2>1, <2>2 DEF SetC
<1> HIDE DEF c
<1>4. BlocksOf(c) = BlocksOf(Top(F.ctx))
  BY <1>2 DEF BlocksOf
<1> QED
  BY <1>2, <1>3, <1>4, SetSound

\* What a step makes of a function.
Turns(G, F) == Settled(G) /\ (G.err = "none" => Heir(G, F))

\* A turn goes on with steps that keep registers, variables and blocks.
LEMMA FollowsTurns ==
  ASSUME NEW F, NEW E, Turns(E, F), NEW G, Follows(G, E)
  PROVE  Turns(G, F)
<1>1. Settled(G) /\ (G.err = "none" => E.err = "none" /\ Heir(G, E))
  BY FollowsSettled DEF Turns
<1> QED
  BY <1>1, HeirTrans DEF Turns

\* A sound heir is the result of a turn.
LEMMA SoundTurns ==
  ASSUME NEW F, NEW G, Sound(G), Heir(G, F)
  PROVE  Turns(G, F)
  BY SoundStage DEF Turns, Settled

RegOp(k, r) == [Op(k) EXCEPT !.reg = r]
VarOp(k, r, v) == [Op(k) EXCEPT !.reg = r, !.var = v]
\* The instructions on variables and registers have their types and stay where they are.
LEMMA OpsTyped ==
  ASSUME NEW k \in VarKinds, NEW r \in Regs, NEW v \in Variable
  PROVE  /\ VarOp(k, r, v) \in VarInstr /\ VarOp(k, r, v).offset = 0
         /\ RegOp(k, r) \in VarInstr /\ RegOp(k, r).offset = 0
<1>1. Op(k) \in VarInstr /\ Op(k).offset = 0
  BY OpInstr
<1> QED
  BY <1>1 DEF VarInstr, RegOp, VarOp

\* Emitting an instruction that is no jump keeps the invariant's parts.
LEMMA EmitPlain ==
  ASSUME NEW F, Given(F), NEW op, F.err = "none" => op \in VarInstr /\ op.offset = 0
  PROVE  Follows(Emit(F, op), F)
<1>1. CASE F.err = "none"
  BY <1>1, PlainFollows
<1>2. CASE F.err # "none"
  BY <1>2, EmitErr DEF Follows, Given
<1> QED
  BY <1>1, <1>2

\* The number of a register and of an instruction make a variable.
LEMMA VariableOf ==
  ASSUME NEW x \in Int, NEW y \in Int
  PROVE  <<x, y>> \in Variable
  BY DEF Variable

\* A variable is declared, in a register that is pushed for it.
LEMMA DeclTurns ==
  ASSUME NEW D, Sound(D), NEW name \in Names, NEW attr \in {"none", "const"},
         NEW r, r = D.alloc.stack_top, NEW x \in Int, NEW var, var = <<x, r>>
  PROVE  Turns(AddLocal(Emit(PushRegs(D, 1), VarOp("Decl", r, var)), name, attr, r, var), D)
<1> DEFINE P == PushRegs(D, 1)
           op == VarOp("Decl", r, var)
           G == AddLocal(Emit(P, op), name, attr, r, var)
           hidden == HiddenIn(D.ctx)
           m == Len(D.blocks)
<1>1. Stage(D, D, hidden, m) /\ Start(D, hidden, m) /\ Rooted(D) /\ D \in Fun
  BY SoundStage
<1>2. Raised(P, D, hidden, m, r)
  BY <1>1, RaisedPush
<1>3. var \in Variable
  <2>1. r \in Int
    BY <1>1, FunFields
  <2> QED
    BY <2>1, VariableOf
<1>4. Given(P) /\ (P.err = "none" => r \in Regs)
  BY <1>2 DEF Raised
<1>5. P.err = "none" => op \in VarInstr /\ op.offset = 0
  <2>1. "Decl" \in VarKinds
    BY DEF VarKinds
  <2>2. ASSUME r \in Regs PROVE op \in VarInstr /\ op.offset = 0
    BY <1>3, <2>1, <2>2, OpsTyped
  <2> QED
    BY <1>4, <2>2
<1> HIDE DEF P, op
<1>6. Follows(Emit(P, op), P)
  BY <1>4, <1>5, EmitPlain
<1>7. Raised(Emit(P, op), D, hidden, m, r)
  BY <1>1, <1>2, <1>6, RaisedFollows
<1>8. Stage(G, D, hidden, m)
  BY <1>1, <1>3, <1>7, RaisedAdd
<1> HIDE DEF G
<1>9. Settled(G) /\ (G.err = "none" => Heir(G, D))
  BY <1>1, <1>8, StageSettled
<1> QED
  BY <1>9 DEF Turns, G, P, op

\* A turn may start from an heir.
LEMMA TurnsTrans ==
  ASSUME NEW F, NEW D, Heir(D, F), NEW G, Turns(G, D)
  PROVE  Turns(G, F)
  BY HeirTrans DEF Turns

\* local name
LEMMA LocalTurns ==
  ASSUME NEW F, Sound(F), NEW name \in Names, NEW attr \in Attributes, NEW r, r = F.alloc.stack_top,
         NEW var, var = <<Here(F), r>>
  PROVE  Turns(AddLocal(Emit(PushRegs(Done(F), 1), VarOp("Decl", r, var)),
                        name, attr, r, var), F)
<1>1. Sound(Done(F)) /\ Heir(Done(F), F) /\ Done(F).alloc = F.alloc
  BY DoneSound
<1>2. Here(F) \in Int
  BY FunFields DEF Here, Sound, Placed
<1>3. attr \in {"none", "const"}
  BY CompilerAssumption
<1>4. Turns(AddLocal(Emit(PushRegs(Done(F), 1), VarOp("Decl", r, var)), name, attr, r, var), Done(F))
  BY <1>1, <1>2, <1>3, DeclTurns
<1>5. Turns(AddLocal(Emit(PushRegs(Done(F), 1), VarOp("Decl", r, var)), name, attr, r, var), F)
  BY <1>1, <1>4, TurnsTrans
<1> QED
  BY <1>5 DEF VarOp

\* A label, a jump, a return.
LEMMA LabelTurns ==
  ASSUME NEW F, Sound(F), NEW label \in Label
  PROVE  Turns(JumpTarget(SetC(F, [Top(F.ctx) EXCEPT !.after_label = TRUE]), label), F)
<1> DEFINE c == [Top(F.ctx) EXCEPT !.after_label = TRUE]
           E == SetC(F, c)
<1>1. /\ c \in Context /\ c.k = Top(F.ctx).k /\ c.base = Top(F.ctx).base /\ c.prep = Top(F.ctx).prep
      /\ c.dest = Top(F.ctx).dest /\ c.ret = Top(F.ctx).ret /\ c.phase = Top(F.ctx).phase
  BY TopContext, ContextChange
<1>2. BlocksOf(c) = BlocksOf(Top(F.ctx))
  BY <1>1 DEF BlocksOf
<1> HIDE DEF c
<1>3. Sound(E) /\ Heir(E, F)
  BY <1>1, <1>2, SetSound
<1> HIDE DEF E
<1>4. Turns(E, F) /\ Given(E)
  BY <1>3, SoundTurns, SoundStage
<1>5. Follows(JumpTarget(E, label), E)
  BY <1>4, JumpTargetFollows
<1> QED
  BY <1>4, <1>5, FollowsTurns DEF E, c

\* goto and break: a jump is emitted, or waits for its label.
LEMMA JumpTurns ==
  ASSUME NEW F, Sound(F), NEW label \in Label
  PROVE  Turns(Jump(Done(F), label), F)
<1>1. Turns(Done(F), F) /\ Given(Done(F))
  BY DoneSound, SoundTurns, SoundStage
<1>2. Follows(Jump(Done(F), label), Done(F))
  BY <1>1, JumpFollows
<1> QED
  BY <1>1, <1>2, FollowsTurns

\* return ends the statements of its block.
LEMMA ReturnTurns ==
  ASSUME NEW F, Sound(F), Top(F.ctx).ret
  PROVE  Turns(Emit(SetC(F, [Top(F.ctx) EXCEPT !.phase = "closed"]), Op("Return")), F)
<1> DEFINE c == [Top(F.ctx) EXCEPT !.phase = "closed"]
           E == SetC(F, c)
<1>1. /\ c \in Context /\ c.k = Top(F.ctx).k /\ c.base = Top(F.ctx).base /\ c.prep = Top(F.ctx).prep
      /\ c.dest = Top(F.ctx).dest /\ c.ret = Top(F.ctx).ret
  BY TopContext, ContextChange
<1>2. BlocksOf(c) = BlocksOf(Top(F.ctx))
  BY <1>1 DEF BlocksOf
<1> HIDE DEF c
<1>3. Sound(E) /\ Heir(E, F)
  BY <1>1, <1>2, SetSound
<1> HIDE DEF E
<1>4. Turns(E, F) /\ Given(E)
  BY <1>3, SoundTurns, SoundStage
<1>5. Follows(Emit(E, Op("Return")), E)
  <2>1. Op("Return") \in VarInstr /\ Op("Return").offset = 0
    BY OpInstr DEF VarKinds
  <2> QED
    BY <1>4, <2>1, PlainFollows
<1> QED
  BY <1>4, <1>5, FollowsTurns DEF E, c

\* The block around the statements of a construct ends.
LEMMA EndTurns ==
  ASSUME NEW F, Sound(F), Top(F.ctx).k # "repeat", ~Top(F.ctx).ret, Top(F.ctx).phase = "body"
  PROVE  Turns(ExitBlock(SetC(F, [Top(F.ctx) EXCEPT !.phase = "labels"])), F)
<1> DEFINE c == [Top(F.ctx) EXCEPT !.phase = "labels"]
           E == SetC(F, c)
           n == Len(F.blocks)
           m == Outer(F.ctx, F.blocks)
<1>1. /\ c \in Context /\ c.k = Top(F.ctx).k /\ c.base = Top(F.ctx).base /\ c.prep = Top(F.ctx).prep
      /\ c.dest = Top(F.ctx).dest /\ c.ret = Top(F.ctx).ret /\ c.phase = "labels"
  BY TopContext, ContextChange
<1>2. BlocksOf(Top(F.ctx)) = BlocksOf(c) + 1 /\ BlocksOf(c) \in 1..3
  <2>1. BlocksOf(c) \in 1..3
    BY BlocksOfRange
  <2> QED
    BY <1>1, <2>1 DEF BlocksOf
<1>3. /\ m \in Nat /\ m + BlocksOf(Top(F.ctx)) = n
      /\ \A r \in HiddenIn(F.ctx), j \in 1..n : j > m => r < F.blocks[j].stack_bottom
  BY StartPop
<1> HIDE DEF c, m, n
<1>4. m + BlocksOf(c) = n - 1 /\ n \in Nat /\ n > m /\ n > 0 /\ n \in 1..n
  BY <1>2, <1>3
<1>5. BlocksOf(c) <= BlocksOf(Top(F.ctx))
  BY <1>2
<1>6. /\ Start(E, HiddenIn(F.ctx), n - 1)
      /\ HiddenIn(E.ctx) = HiddenIn(F.ctx) /\ Rooted(E) /\ Heir(E, F) /\ E.blocks = F.blocks
  BY <1>1, <1>4, <1>5, StartRecast DEF m
<1> HIDE DEF E
<1>7. Stage(E, E, HiddenIn(E.ctx), n) /\ E \in Fun
  <2>1. Ready(E) /\ Layout(E, HiddenIn(E.ctx)) /\ Nested(E)
    BY <1>6 DEF Start
  <2> QED
    BY <1>6, <2>1, StageStart DEF Ready, n
<1>8. \A r \in HiddenIn(E.ctx) : r < E.blocks[n].stack_bottom
  BY <1>3, <1>4, <1>6
<1>9. Stage(ExitBlock(E), E, HiddenIn(E.ctx), n - 1)
  BY <1>4, <1>6, <1>7, <1>8, StageExit DEF n
<1>10. Settled(ExitBlock(E)) /\ (ExitBlock(E).err = "none" => Heir(ExitBlock(E), E))
  BY <1>6, <1>9, StageSettled
<1>11. Turns(ExitBlock(E), F)
  BY <1>6, <1>10, HeirTrans DEF Turns
<1> QED
  BY <1>11 DEF E, c

-----------------------------------------------------------------------------
(* Constructs are opened. *)

Kinds == {"do", "while", "repeat", "if", "else", "chunk"} \cup Loops \cup Functions

\* A new construct of a kind, with two labels.
LEMMA ConstructIn ==
  ASSUME NEW k \in Kinds, NEW ret \in BOOLEAN
  PROVE  LET c == Construct(k, ret)
         IN /\ c \in Context /\ c.k = k /\ c.ret = ret /\ c.phase = "body" /\ c.prep = 0 /\ c.base = 0
            /\ c.dest = None
<1>1. <<"none", 0>> \in Label
  BY DEF Label
<1> QED
  BY <1>1 DEF Construct, Context, Kinds

NewLabels(c, a, b) == [c EXCEPT !.a = a, !.b = b]
\* Giving a construct its two labels changes nothing else in it.
LEMMA LabelsIn ==
  ASSUME NEW c \in Context, NEW a \in Label, NEW b \in Label
  PROVE  LET d == NewLabels(c, a, b)
         IN /\ d \in Context /\ d.k = c.k /\ d.ret = c.ret /\ d.phase = c.phase /\ d.prep = c.prep
            /\ d.base = c.base /\ d.dest = c.dest
  BY DEF Context, NewLabels

NewLabel(c, a) == [c EXCEPT !.a = a]
\* Giving a construct its label changes nothing else in it.
LEMMA LabelIn ==
  ASSUME NEW c \in Context, NEW a \in Label
  PROVE  LET d == NewLabel(c, a)
         IN /\ d \in Context /\ d.k = c.k /\ d.ret = c.ret /\ d.phase = c.phase /\ d.prep = c.prep
            /\ d.base = c.base /\ d.dest = c.dest
  BY DEF Context, NewLabel

\* A unique label is a label.
LEMMA UniqueLabel ==
  ASSUME NEW F \in Fun
  PROVE  Unique(F) \in Label
<1>1. F.next_label \in Nat
  BY FunFields
<1> QED
  BY <1>1 DEF Unique, Label

\* enter_block reports no error.
LEMMA EnterErr ==
  ASSUME NEW F, HasErr(F)
  PROVE  HasErr(EnterBlock(F)) /\ EnterBlock(F).err = F.err
  BY DEF HasErr, EnterBlock

\* Opening a body reports no error.
LEMMA OpenBodyErr ==
  ASSUME NEW F, HasErr(F), NEW c
  PROVE  HasErr(OpenBody(F, c)) /\ OpenBody(F, c).err = F.err
<1>1. CASE c.ret \/ c.k = "repeat"
  BY <1>1, CtxErr DEF OpenBody
<1>2. CASE ~(c.ret \/ c.k = "repeat")
  <2>1. OpenBody(F, c) = PushC(EnterBlock(F), c)
    BY <1>2 DEF OpenBody
  <2> QED
    BY <2>1, EnterErr, CtxErr
<1> QED
  BY <1>1, <1>2

\* A function that stopped with an error.
LEMMA FailedTurns ==
  ASSUME NEW F, NEW G, HasErr(G), G.err # "none"
  PROVE  Turns(G, F)
  BY DEF Turns, Settled, Given

\* A construct with one block of its own.
LEMMA EnterTurns ==
  ASSUME NEW F, NEW E, Turns(E, F), NEW c,
         E.err = "none" => /\ c \in Context /\ c.phase = "body" /\ c.prep = 0
                           /\ c.k \notin Roots \cup Loops \cup {"repeat"}
  PROVE  Turns(OpenBody(EnterBlock(E), c), F)
<1> DEFINE G == EnterBlock(E)
           H == OpenBody(G, c)
<1>1. HasErr(E)
  BY DEF Turns, Settled, Given
<1>2. HasErr(G) /\ G.err = E.err
  BY <1>1, EnterErr
<1>3. HasErr(H) /\ H.err = E.err
  BY <1>2, OpenBodyErr
<1>4. CASE E.err = "none"
  <2> DEFINE m == Len(E.blocks)
  <2>1. Sound(E) /\ Heir(E, F)
    BY <1>4 DEF Turns, Settled
  <2>2. /\ Stage(E, E, HiddenIn(E.ctx), m) /\ Start(E, HiddenIn(E.ctx), m) /\ Rooted(E)
        /\ E \in Fun /\ m \in Nat /\ E.ctx # << >>
    BY <2>1, SoundStage, FunFields DEF Rooted
  <2>3. Stage(G, E, HiddenIn(E.ctx), m + 1) /\ Given(G)
    <3>1. m >= Len(E.blocks)
      BY <2>2
    <3> HIDE DEF m
    <3>2. Stage(G, E, HiddenIn(E.ctx), m + 1)
      BY <2>2, <3>1, StageEnter
    <3> QED
      BY <3>2 DEF Stage
  <2>4. Hidden(c) = {} /\ OwnBlocks(c) = 1 /\ CanHold(E, c) /\ LoopAt(c, G.blocks, m) /\ c.k \notin Loops
    BY <1>4, <2>2 DEF Hidden, OwnBlocks, CanHold, LoopAt
  <2>5. HiddenIn(E.ctx) \cup Hidden(c) = HiddenIn(E.ctx)
    BY <2>4
  <2>6. G.err = "none" => c.prep <= Len(G.ops)
    <3>1. ASSUME G.err = "none" PROVE Len(G.ops) \in Nat
      BY <2>3, <3>1, FunFields DEF Given, Ready
    <3>2. c.prep = 0
      BY <1>4
    <3> QED
      BY <3>1, <3>2
  <2>7. c \in Context /\ c.phase = "body"
    BY <1>4
  <2> HIDE DEF G, H
  <2>8. Stage(G, E, HiddenIn(E.ctx) \cup Hidden(c), m + OwnBlocks(c))
    BY <2>3, <2>4, <2>5
  <2>9. Settled(H) /\ (H.err = "none" => Heir(H, E))
    BY <2>2, <2>4, <2>6, <2>7, <2>8, Opened DEF H, OpenedWell
  <2> QED
    BY <2>1, <2>9, HeirTrans DEF Turns, H, G
<1>5. CASE E.err # "none"
  BY <1>3, <1>5, FailedTurns
<1> QED
  BY <1>4, <1>5

\* A label, a test and a jump.
LEMMA TestFollows ==
  ASSUME NEW F, Given(F)
  PROVE  Follows(Test(F), F)
<1>1. Op("Test") \in VarInstr /\ Op("Test").offset = 0
  BY OpInstr DEF VarKinds
<1> QED
  BY <1>1, TemporaryFollows DEF Test

\* A test that jumps past the body keeps the function sound.
LEMMA TestedTurns ==
  ASSUME NEW F, NEW E, Turns(E, F), NEW before, NEW next,
         E.err = "none" => before \in Label /\ next \in Label
  PROVE  Turns(Jump(Test(JumpTarget(E, before)), next), F)
<1> DEFINE A == JumpTarget(E, before)
           B == Test(A)
           D == Jump(B, next)
<1>1. Given(E) /\ HasErr(E)
  BY DEF Turns, Settled, Given
<1>2. CASE E.err = "none"
  <2>1. Follows(A, E)
    BY <1>1, <1>2, JumpTargetFollows
  <2>2. Turns(A, F) /\ Given(A)
    BY <2>1, FollowsTurns DEF Follows
  <2> HIDE DEF A
  <2>3. Follows(B, A)
    BY <2>2, TestFollows
  <2>4. Turns(B, F) /\ Given(B)
    BY <2>2, <2>3, FollowsTurns DEF Follows
  <2> HIDE DEF B
  <2>5. Follows(D, B)
    BY <1>2, <2>4, JumpFollows
  <2> QED
    BY <2>4, <2>5, FollowsTurns DEF B, A
<1>3. CASE E.err # "none"
  <2>1. A = E
    BY <1>3 DEF JumpTarget
  <2>2. Given(B) /\ (B.err = "none" => E.err = "none")
    BY <1>1, <2>1, TestFollows DEF Follows
  <2>3. HasErr(B) /\ B.err # "none"
    BY <1>3, <2>2 DEF Given
  <2> HIDE DEF B
  <2>4. D = B
    BY <2>3 DEF Jump
  <2> QED
    BY <2>3, <2>4, FailedTurns DEF B, A
<1> QED
  BY <1>2, <1>3

\* A part of an if: its test, and its body is opened.
LEMMA IfPartTurns ==
  ASSUME NEW F, NEW E, Turns(E, F), NEW before, NEW next, NEW c,
         E.err = "none" => /\ before \in Label /\ next \in Label
                           /\ c \in Context /\ c.phase = "body" /\ c.prep = 0
                           /\ c.k \notin Roots \cup Loops \cup {"repeat"}
  PROVE  Turns(IfPart(E, before, next, c), F)
<1> DEFINE G == Jump(Test(JumpTarget(E, before)), next)
<1>1. Turns(G, F)
  BY TestedTurns
<1>2. G.err = "none" => E.err = "none"
  <2>1. SUFFICES ASSUME E.err # "none" PROVE G.err # "none"
    OBVIOUS
  <2>2. JumpTarget(E, before) = E /\ Given(E)
    BY <2>1 DEF JumpTarget, Turns, Settled
  <2>3. Test(E).err # "none"
    BY <2>1, <2>2, TestFollows DEF Follows
  <2>4. G = Test(E)
    BY <2>2, <2>3 DEF Jump
  <2> QED
    BY <2>3, <2>4
<1> HIDE DEF G
<1>3. Turns(OpenBody(EnterBlock(G), c), F)
  BY <1>1, <1>2, EnterTurns
<1> QED
  BY <1>3 DEF IfPart, G

\* Labels are taken before anything else.
LEMMA TakeTurns ==
  ASSUME NEW F, NEW E, Turns(E, F)
  PROVE  Turns(TakeLabel(E), F) /\ TakeLabel(E).err = E.err
<1>1. Given(E)
  BY DEF Turns, Settled
<1>2. Follows(TakeLabel(E), E)
  BY <1>1, TakeLabelFollows
<1>3. TakeLabel(E).err = E.err
  BY <1>1 DEF TakeLabel, Given, HasErr
<1> QED
  BY <1>2, <1>3, FollowsTurns

\* In the middle of a turn, without an error, a function is sound.
LEMMA TurnsFun ==
  ASSUME NEW F, NEW E, Turns(E, F), E.err = "none"
  PROVE  E \in Fun /\ Sound(E) /\ Given(E) /\ Unique(E) \in Label
<1>1. Sound(E) /\ E \in Fun /\ Given(E)
  BY SoundStage DEF Turns, Settled
<1> QED
  BY <1>1, UniqueLabel

\* while
LEMMA WhileTurns ==
  ASSUME NEW F, Sound(F), NEW ret \in BOOLEAN
  PROVE  LET start == Unique(F)
             E == TakeLabel(Done(F))
             end == Unique(E)
             G == Jump(Test(JumpTarget(TakeLabel(E), start)), end)
         IN Turns(OpenBody(EnterBlock(G), NewLabels(Construct("while", ret), start, end)), F)
<1> DEFINE start == Unique(F)
           E == TakeLabel(Done(F))
           end == Unique(E)
           G == Jump(Test(JumpTarget(TakeLabel(E), start)), end)
           c == NewLabels(Construct("while", ret), start, end)
<1>1. Turns(Done(F), F) /\ Done(F).err = "none"
  BY DoneSound, SoundTurns, SoundStage
<1>2. Turns(E, F) /\ E.err = "none"
  BY <1>1, TakeTurns
<1>3. start \in Label /\ end \in Label
  BY <1>2, UniqueLabel, TurnsFun DEF Sound, Placed
<1> HIDE DEF start, end
<1>4. Turns(G, F)
  BY <1>2, <1>3, TakeTurns, TestedTurns
<1> HIDE DEF G
<1>5. /\ Construct("while", ret) \in Context /\ Construct("while", ret).k = "while"
      /\ Construct("while", ret).phase = "body" /\ Construct("while", ret).prep = 0
  BY ConstructIn DEF Kinds
<1>6. c \in Context /\ c.k = "while" /\ c.phase = "body" /\ c.prep = 0
  BY <1>3, <1>5, LabelsIn
<1> HIDE DEF c
<1>7. c.k \notin Roots \cup Loops \cup {"repeat"}
  BY <1>6 DEF Roots, Functions, Loops
<1>8. Turns(OpenBody(EnterBlock(G), c), F)
  BY <1>4, <1>6, <1>7, EnterTurns
<1> QED
  BY <1>8 DEF G, start, end, c, NewLabels

\* if
LEMMA IfTurns ==
  ASSUME NEW F, Sound(F), NEW ret \in BOOLEAN
  PROVE  LET end == Unique(F)
             E == TakeLabel(Done(F))
             before == Unique(E)
             G == TakeLabel(E)
             next == Unique(G)
         IN Turns(IfPart(TakeLabel(G), before, next,
                         NewLabels(Construct("if", ret), end, next)), F)
<1> DEFINE end == Unique(F)
           E == TakeLabel(Done(F))
           before == Unique(E)
           G == TakeLabel(E)
           next == Unique(G)
           c == NewLabels(Construct("if", ret), end, next)
<1>1. Turns(Done(F), F) /\ Done(F).err = "none"
  BY DoneSound, SoundTurns, SoundStage
<1>2. Turns(E, F) /\ E.err = "none"
  BY <1>1, TakeTurns
<1>3. Turns(G, F) /\ G.err = "none"
  BY <1>2, TakeTurns
<1>4. end \in Label /\ before \in Label /\ next \in Label
  BY <1>2, <1>3, UniqueLabel, TurnsFun DEF Sound, Placed
<1> HIDE DEF end, before, next, E, G
<1>5. Turns(TakeLabel(G), F)
  BY <1>3, TakeTurns
<1>6. /\ Construct("if", ret) \in Context /\ Construct("if", ret).k = "if"
      /\ Construct("if", ret).phase = "body" /\ Construct("if", ret).prep = 0
  BY ConstructIn DEF Kinds
<1>7. c \in Context /\ c.k = "if" /\ c.phase = "body" /\ c.prep = 0
  BY <1>4, <1>6, LabelsIn
<1> HIDE DEF c
<1>8. c.k \notin Roots \cup Loops \cup {"repeat"}
  BY <1>7 DEF Roots, Functions, Loops
<1>9. Turns(IfPart(TakeLabel(G), before, next, c), F)
  BY <1>4, <1>5, <1>7, <1>8, IfPartTurns
<1> QED
  BY <1>9 DEF end, before, next, E, G, c, NewLabels

\* do
LEMMA DoTurns ==
  ASSUME NEW F, Sound(F), NEW ret \in BOOLEAN
  PROVE  Turns(OpenBody(EnterBlock(Done(F)), Construct("do", ret)), F)
<1>1. Turns(Done(F), F)
  BY DoneSound, SoundTurns
<1>2. /\ Construct("do", ret) \in Context /\ Construct("do", ret).k = "do"
      /\ Construct("do", ret).phase = "body" /\ Construct("do", ret).prep = 0
  BY ConstructIn DEF Kinds
<1>3. Construct("do", ret).k \notin Roots \cup Loops \cup {"repeat"}
  BY <1>2 DEF Roots, Functions, Loops
<1> QED
  BY <1>1, <1>2, <1>3, EnterTurns

\* repeat
LEMMA RepeatTurns ==
  ASSUME NEW F, Sound(F), NEW ret \in BOOLEAN
  PROVE  LET start == Unique(F)
             E == EnterBlock(EnterBlock(TakeLabel(Done(F))))
         IN Turns(OpenBody(JumpTarget(E, start), [Construct("repeat", ret) EXCEPT !.a = start]), F)
<1> DEFINE start == Unique(F)
           D == TakeLabel(Done(F))
           A == EnterBlock(D)
           E == EnterBlock(A)
           G == JumpTarget(E, start)
           c == NewLabel(Construct("repeat", ret), start)
           m == Len(D.blocks)
           hidden == HiddenIn(D.ctx)
<1>1. Turns(Done(F), F) /\ Done(F).err = "none"
  BY DoneSound, SoundTurns, SoundStage
<1>2. Turns(D, F) /\ D.err = "none"
  BY <1>1, TakeTurns
<1>3. start \in Label /\ Sound(D) /\ Heir(D, F)
  BY <1>2, UniqueLabel, TurnsFun DEF Sound, Placed, Turns
<1> HIDE DEF start, D
<1>4. /\ Stage(D, D, hidden, m) /\ Start(D, hidden, m) /\ Rooted(D) /\ D \in Fun /\ m \in Nat
      /\ D.ctx # << >> /\ m = Len(D.blocks)
  BY <1>3, SoundStage, FunFields DEF Rooted
<1> HIDE DEF m, hidden
<1>5. Stage(A, D, hidden, m + 1)
  <2>1. m >= Len(D.blocks)
    BY <1>4
  <2> QED
    BY <1>4, <2>1, StageEnter
<1> HIDE DEF A
<1>6. Stage(E, D, hidden, m + 2)
  <2>1. m + 1 >= Len(D.blocks) /\ m + 1 \in Nat /\ (m + 1) + 1 = m + 2
    BY <1>4
  <2> QED
    BY <1>4, <1>5, <2>1, StageEnter
<1> HIDE DEF E
<1>7. Stage(G, D, hidden, m + 2)
  <2>1. Follows(G, E)
    BY <1>3, <1>6, JumpTargetFollows DEF Stage
  <2> QED
    BY <1>4, <1>6, <2>1, StageFollows
<1>8. /\ Construct("repeat", ret) \in Context /\ Construct("repeat", ret).k = "repeat"
      /\ Construct("repeat", ret).phase = "body" /\ Construct("repeat", ret).prep = 0
  BY ConstructIn DEF Kinds
<1>9. c \in Context /\ c.k = "repeat" /\ c.phase = "body" /\ c.prep = 0
  BY <1>3, <1>8, LabelIn
<1> HIDE DEF c, G
<1>10. /\ Hidden(c) = {} /\ OwnBlocks(c) = 2 /\ CanHold(D, c) /\ LoopAt(c, G.blocks, m)
       /\ c.k \notin Loops
  BY <1>4, <1>9 DEF Hidden, OwnBlocks, CanHold, LoopAt, Loops, Roots, Functions
<1>11. G.err = "none" => c.prep <= Len(G.ops)
  BY <1>7, <1>9, FunFields DEF Stage, Given, Ready
<1>12. hidden \cup Hidden(c) = hidden
  BY <1>10
<1>13. Stage(G, D, HiddenIn(D.ctx) \cup Hidden(c), m + OwnBlocks(c))
  BY <1>7, <1>10, <1>12 DEF hidden
<1>14. Settled(OpenBody(G, c)) /\ (OpenBody(G, c).err = "none" => Heir(OpenBody(G, c), D))
  BY <1>4, <1>9, <1>10, <1>11, <1>13, Opened DEF OpenedWell
<1>15. Turns(OpenBody(G, c), F)
  BY <1>3, <1>14, HeirTrans DEF Turns
<1> QED
  BY <1>15 DEF G, E, A, D, start, c, NewLabel

\* for
NewLoop(c, base, prep, a) == [c EXCEPT !.base = base, !.prep = prep, !.a = a]
\* Giving a loop its registers and label changes nothing else in it.
LEMMA LoopIn ==
  ASSUME NEW c \in Context, NEW base \in Nat, NEW prep \in Nat, NEW a \in Label
  PROVE  LET d == NewLoop(c, base, prep, a)
         IN /\ d \in Context /\ d.k = c.k /\ d.ret = c.ret /\ d.phase = c.phase /\ d.prep = prep
            /\ d.base = base
  BY DEF Context, NewLoop

\* A loop that is opened is a construct of the right type.
LEMMA LoopConstruct ==
  ASSUME NEW k \in Loops, NEW ret \in BOOLEAN, NEW base \in Nat, NEW prep \in Nat, NEW a \in Label
  PROVE  LET d == NewLoop(Construct(k, ret), base, prep, a)
         IN d \in Context /\ d.k = k /\ d.phase = "body" /\ d.prep = prep /\ d.base = base
<1> DEFINE new == Construct(k, ret)
<1>1. new \in Context /\ new.k = k /\ new.phase = "body"
  BY ConstructIn DEF Kinds
<1> HIDE DEF new
<1>2. LET d == NewLoop(new, base, prep, a)
      IN d \in Context /\ d.k = new.k /\ d.phase = new.phase /\ d.prep = prep /\ d.base = base
  BY <1>1, LoopIn
<1> QED
  BY <1>1, <1>2 DEF new

\* Declaring a variable reports no error.
LEMMA AddLocalErr ==
  ASSUME NEW F, HasErr(F), NEW name, NEW attr, NEW r, NEW var
  PROVE  HasErr(AddLocal(F, name, attr, r, var)) /\ AddLocal(F, name, attr, r, var).err = F.err
  BY DEF HasErr, AddLocal

\* Taking a label reports no error.
LEMMA TakeErr ==
  ASSUME NEW F, HasErr(F)
  PROVE  HasErr(TakeLabel(F)) /\ TakeLabel(F).err = F.err
  BY DEF HasErr, TakeLabel

\* Opening the blocks of a for keeps an error that was reported.
LEMMA ForBlocksErr ==
  ASSUME NEW F, HasErr(F)
  PROVE  HasErr(ForBlocks(F)) /\ (ForBlocks(F).err = "none" => F.err = "none")
<1>1. HasErr(EnterBlock(EnterBlock(F))) /\ EnterBlock(EnterBlock(F)).err = F.err
  BY EnterErr
<1> QED
  BY <1>1, PushRegsErr DEF ForBlocks

\* The three hidden registers and the variable's own do not fit.
LEMMA ForBlocksFull ==
  ASSUME NEW F, HasErr(F), F.alloc.stack_top \in Nat, NumRegs - F.alloc.stack_top < 1
  PROVE  HasErr(ForBlocks(F)) /\ ForBlocks(F).err # "none"
<1> DEFINE B == EnterBlock(EnterBlock(F))
<1>1. HasErr(B) /\ B.alloc = F.alloc
  <2>1. HasErr(B)
    BY EnterErr
  <2>2. B.alloc = F.alloc
    BY DEF EnterBlock
  <2> QED
    BY <2>1, <2>2
<1> HIDE DEF B
<1>2. ~(1 <= NumRegs - B.alloc.stack_top)
  BY <1>1, NumRegsAssumption
<1>3. ~CanPush(B.alloc, 1)
  BY <1>2 DEF CanPush
<1>4. PushRegs(B, 1) = Fail(B, "Registers") /\ "Registers" \in Errors
  BY <1>3 DEF PushRegs, Errors
<1>5. HasErr(PushRegs(B, 1)) /\ PushRegs(B, 1).err # "none"
  BY <1>1, <1>4, FailFollows
<1> QED
  BY <1>5 DEF ForBlocks, B

\* The start of a loop, until its variable is declared.
ForStart(k, P) == IF k = "for" THEN ForBlocks(Emit(P, Op("ForPrep"))) ELSE ForBlocks(TakeLabel(P))
ForEnd(k, G, name, base, prep, loop) ==
  LET H == AddLocal(G, name, "none", base + 3, <<prep, base + 3>>)
  IN IF k = "for" THEN H ELSE Jump(H, loop)

\* A for that runs out of registers fails.
LEMMA ForFails ==
  ASSUME NEW F, NEW G, HasErr(G), G.err # "none", NEW k, NEW name, NEW base, NEW prep, NEW loop, NEW c
  PROVE  Turns(OpenBody(ForEnd(k, G, name, base, prep, loop), c), F)
<1> DEFINE H == AddLocal(G, name, "none", base + 3, <<prep, base + 3>>)
           E == ForEnd(k, G, name, base, prep, loop)
<1>1. HasErr(H) /\ H.err # "none"
  BY AddLocalErr
<1>2. Jump(H, loop) = H
  BY <1>1 DEF Jump
<1>3. E = H
  BY <1>2 DEF ForEnd
<1>4. HasErr(OpenBody(E, c)) /\ OpenBody(E, c).err # "none"
  BY <1>1, <1>3, OpenBodyErr
<1> QED
  BY <1>4, FailedTurns

\* When the registers fit.
LEMMA ForSucceeds ==
  ASSUME NEW D, Sound(D), NEW k \in Loops, NEW name \in Names, NEW ret \in BOOLEAN,
         NEW base, base = D.alloc.stack_top, base + 3 < NumRegs,
         NEW P, P = PushRegs(D, 3), P.err = "none", NEW prep, prep = Here(P),
         NEW loop, loop = Unique(P)
  PROVE  Turns(OpenBody(ForEnd(k, ForStart(k, P), name, base, prep, loop),
                        NewLoop(Construct(k, ret), base, prep, loop)), D)
<1> DEFINE c == NewLoop(Construct(k, ret), base, prep, loop)
           Q == IF k = "for" THEN Emit(P, Op("ForPrep")) ELSE TakeLabel(P)
           A == EnterBlock(Q)
           B == EnterBlock(A)
           G == PushRegs(B, 1)
           var == <<prep, base + 3>>
           H == AddLocal(G, name, "none", base + 3, var)
           I1 == IF k = "for" THEN H ELSE Jump(H, loop)
           m == Len(D.blocks)
           hidden == HiddenIn(D.ctx) \cup base..(base + 2)
<1>1. /\ Stage(D, D, HiddenIn(D.ctx), m) /\ Start(D, HiddenIn(D.ctx), m) /\ Rooted(D) /\ D \in Fun
      /\ m \in Nat /\ D.ctx # << >> /\ m = Len(D.blocks) /\ D.err = "none" /\ base \in Nat
      /\ Nested(D) /\ D.blocks \in Seq(Block) /\ Len(D.ops) \in Nat
  BY SoundStage, FunFields DEF Rooted, Sound, Placed
<1>2. /\ Stage(P, D, hidden, m) /\ P.alloc.stack_top = base + 3 /\ P.blocks = D.blocks /\ P.ops = D.ops
  BY <1>1, StagePushLoop
<1> HIDE DEF m, hidden
<1>3. prep = Len(D.ops) /\ P \in Fun /\ Given(P) /\ loop \in Label /\ prep \in Nat
  <2>1. Given(P) /\ P \in Fun
    BY <1>2 DEF Stage, Given, Ready
  <2>2. loop \in Label
    BY <2>1, UniqueLabel
  <2>3. prep = Len(D.ops)
    BY <1>2 DEF Here
  <2> QED
    BY <1>1, <2>1, <2>2, <2>3
<1>4. base + 3 \in Regs
  BY <1>1, NumRegsAssumption DEF Regs
<1>5. Follows(Q, P)
  <2>1. Op("ForPrep") \in VarInstr /\ Op("ForPrep").offset = 0
    BY OpInstr DEF VarKinds
  <2> QED
    BY <1>3, <2>1, PlainFollows, TakeLabelFollows
<1> HIDE DEF Q
<1>6. Stage(Q, D, hidden, m) /\ (Q.err = "none" => Q.alloc.stack_top = base + 3)
  BY <1>1, <1>2, <1>5, StageFollows DEF Follows, Same
<1>7. /\ Stage(A, D, hidden, m + 1)
      /\ A.err = "none" => Q.err = "none" /\ A.blocks[m + 1].stack_bottom = base + 3 /\ A.alloc = Q.alloc
  <2>1. m >= Len(D.blocks)
    BY <1>1
  <2> QED
    BY <1>1, <1>6, <2>1, StageEnter
<1> HIDE DEF A
<1>8. /\ Stage(B, D, hidden, m + 2)
      /\ B.err = "none" => /\ A.err = "none" /\ B.blocks[m + 1].stack_bottom = base + 3
                           /\ B.alloc.stack_top = base + 3
  <2>1. m + 1 >= Len(D.blocks) /\ m + 1 \in Nat /\ (m + 1) + 1 = m + 2 /\ m + 1 \in 1..(m + 1)
    BY <1>1
  <2>2. /\ Stage(B, D, hidden, m + 2) /\ B.err = A.err
        /\ B.err = "none" => (\A i \in 1..(m + 1) : B.blocks[i] = A.blocks[i]) /\ B.alloc = A.alloc
    BY <1>1, <1>7, <2>1, StageEnter
  <2> HIDE DEF B
  <2> QED
    BY <1>6, <1>7, <2>1, <2>2
<1> HIDE DEF B
<1>9. /\ Raised(G, D, hidden, m + 2, base + 3)
      /\ G.err = "none" => G.blocks = B.blocks /\ B.err = "none"
  <2>1. B.err = "none" => base + 3 = B.alloc.stack_top
    BY <1>8
  <2>2. HasErr(B)
    BY <1>8 DEF Stage, Given
  <2> QED
    BY <1>1, <1>8, <2>1, <2>2, RaisedPush, PushRegsErr
<1>10. var \in Variable
  BY <1>1, <1>3, VariableOf
<1> HIDE DEF G, var
<1>11. Stage(H, D, hidden, m + 2) /\ (H.err = "none" => H.blocks = G.blocks /\ G.err = "none")
  <2>1. "none" \in {"none", "const"}
    OBVIOUS
  <2> QED
    BY <1>1, <1>9, <1>10, <2>1, RaisedAdd
<1> HIDE DEF H
<1>12. Stage(I1, D, hidden, m + 2) /\ (I1.err = "none" => H.err = "none" /\ I1.blocks = H.blocks)
  <2>1. Given(H)
    BY <1>11 DEF Stage
  <2>2. Follows(Jump(H, loop), H)
    BY <1>3, <2>1, JumpFollows
  <2>3. Stage(Jump(H, loop), D, hidden, m + 2)
    BY <1>1, <1>11, <2>2, StageFollows
  <2> QED
    BY <1>11, <2>2, <2>3 DEF Follows, Same
<1> HIDE DEF I1
<1>13. c \in Context /\ c.k = k /\ c.phase = "body" /\ c.prep = prep /\ c.base = base
  BY <1>1, <1>3, LoopConstruct
<1> HIDE DEF c
<1>14. CanHold(D, c) /\ Hidden(c) = base..(base + 2) /\ OwnBlocks(c) = 2
  BY <1>1, <1>13 DEF CanHold, Hidden, OwnBlocks, Loops, Roots, Functions
<1>15. ASSUME I1.err = "none"
       PROVE  c.prep <= Len(I1.ops) /\ LoopAt(c, I1.blocks, m) /\ c.base + 3 \in Regs
  <2>1. Stands(I1, D, m + 2) /\ I1.blocks[m + 1].stack_bottom = base + 3
    BY <1>8, <1>9, <1>11, <1>12, <1>15 DEF Stage
  <2>2. Len(D.ops) <= Len(I1.ops)
    BY <2>1 DEF Stands, From
  <2>3. ASSUME NEW i \in 1..m PROVE I1.blocks[i].stack_bottom <= base
    <3>1. i \in 1..Len(D.blocks) /\ i <= m + 2
      BY <1>1
    <3>2. I1.blocks[i] = D.blocks[i]
      BY <2>1, <3>1 DEF Stands
    <3>3. Within(D.blocks[i], D.alloc.stack_top, Len(D.targets))
      BY <1>1, <3>1 DEF Nested
    <3> QED
      BY <3>2, <3>3 DEF Within
  <2> QED
    BY <1>3, <1>4, <1>13, <2>1, <2>2, <2>3 DEF LoopAt
<1>16. Stage(I1, D, HiddenIn(D.ctx) \cup Hidden(c), m + OwnBlocks(c))
  BY <1>12, <1>14 DEF hidden
<1>17. Settled(OpenBody(I1, c)) /\ (OpenBody(I1, c).err = "none" => Heir(OpenBody(I1, c), D))
  BY <1>1, <1>13, <1>14, <1>15, <1>16, Opened DEF OpenedWell
<1>18. I1 = ForEnd(k, ForStart(k, P), name, base, prep, loop)
  BY DEF I1, H, G, B, A, Q, var, ForEnd, ForStart, ForBlocks
<1> QED
  BY <1>17, <1>18 DEF Turns, c

\* A for: three hidden registers, its variable above them, its blocks.
LEMMA ForTurns ==
  ASSUME NEW F, Sound(F), NEW k \in Loops, NEW name \in Names, NEW ret \in BOOLEAN
  PROVE  LET base == F.alloc.stack_top
             P == PushRegs(Done(F), 3)
             prep == Here(P)
             loop == Unique(P)
         IN Turns(OpenBody(ForEnd(k, ForStart(k, P), name, base, prep, loop),
                           NewLoop(Construct(k, ret), base, prep, loop)), F)
<1> DEFINE D == Done(F)
           base == F.alloc.stack_top
           P == PushRegs(D, 3)
           prep == Here(P)
           loop == Unique(P)
           G == ForStart(k, P)
           E == ForEnd(k, G, name, base, prep, loop)
           c == NewLoop(Construct(k, ret), base, prep, loop)
<1>1. /\ Sound(D) /\ Heir(D, F) /\ D.alloc = F.alloc /\ D \in Fun /\ HasErr(D) /\ D.err = "none"
      /\ base \in Nat
  BY DoneSound, SoundStage, FunFields DEF Given
<1>2. CASE P.err = "none" /\ base + 3 < NumRegs
  <2>1. Turns(OpenBody(E, c), D)
    BY <1>1, <1>2, ForSucceeds
  <2>2. Turns(OpenBody(E, c), F)
    BY <1>1, <2>1, HeirTrans DEF Turns
  <2> QED
    BY <2>2 DEF ForEnd, ForStart, NewLoop
<1>3. CASE P.err # "none" \/ ~(base + 3 < NumRegs)
  <2>1. HasErr(P)
    BY <1>1, PushRegsErr
  <2> DEFINE Q == IF k = "for" THEN Emit(P, Op("ForPrep")) ELSE TakeLabel(P)
  <2>2. HasErr(Q) /\ Q.err = P.err
    BY <2>1, EmitErr, TakeErr
  <2>3. G = ForBlocks(Q)
    BY DEF ForStart
  <2>4. HasErr(G) /\ G.err # "none"
    <3>1. CASE P.err # "none"
      <4> HIDE DEF Q, G
      <4> QED
        BY <2>2, <2>3, <3>1, ForBlocksErr
    <3>2. CASE P.err = "none"
      <4>1. ~(base + 3 < NumRegs) /\ CanPush(D.alloc, 3) /\ P = [D EXCEPT !.alloc = Push(@, 3)]
        BY <1>1, <1>3, <3>2, PushRegsErr
      <4>2. P.alloc.stack_top = base + 3 /\ base + 3 \in Nat
        BY <1>1, <4>1, FunDomain DEF Fields, Push
      <4>3. Q.alloc = P.alloc
        BY DEF Emit, TakeLabel
      <4>4. NumRegs - Q.alloc.stack_top < 1 /\ Q.alloc.stack_top \in Nat
        BY <1>1, <4>1, <4>2, <4>3, NumRegsAssumption
      <4> HIDE DEF Q, G
      <4> QED
        BY <2>2, <2>3, <4>4, ForBlocksFull
    <3> QED
      BY <3>1, <3>2
  <2> HIDE DEF G
  <2>5. Turns(OpenBody(E, c), F)
    BY <2>4, ForFails
  <2> QED
    BY <2>5 DEF ForEnd, G, ForStart, NewLoop
<1> QED
  BY <1>2, <1>3

-----------------------------------------------------------------------------
(* Constructs are closed. *)

\* The innermost construct is being closed, and n of its blocks are left.
Closing(G, F, n) == Stage(G, PopC(F), HiddenIn(F.ctx), Outer(F.ctx, F.blocks) + n)
Ending(c) == c.phase = IF c.ret THEN "closed" ELSE IF c.k = "repeat" THEN "body" ELSE "labels"

\* A construct that ends has just its own blocks left to leave.
LEMMA ClosingStart ==
  ASSUME NEW F, Sound(F), Ending(Top(F.ctx))
  PROVE  /\ Closing(PopC(F), F, OwnBlocks(Top(F.ctx)))
         /\ BlocksOf(Top(F.ctx)) = OwnBlocks(Top(F.ctx))
<1> DEFINE E == PopC(F)
           c == Top(F.ctx)
           m == Outer(F.ctx, F.blocks)
<1>1. Start(E, HiddenIn(F.ctx), m) /\ m + BlocksOf(c) = Len(F.blocks) /\ E.blocks = F.blocks /\ c \in Context
  BY StartPop
<1>2. BlocksOf(c) = OwnBlocks(c)
  <2>1. c.ret \in BOOLEAN
    BY <1>1, ContextFields
  <2> HIDE DEF c
  <2>2. ~(~c.ret /\ c.k # "repeat" /\ c.phase = "body")
    BY <1>1, <2>1 DEF Ending, c
  <2> QED
    BY <2>2 DEF BlocksOf, OwnBlocks
<1>3. Stage(E, E, HiddenIn(F.ctx), Len(E.blocks))
  BY <1>1, StageStart DEF Start
<1> QED
  BY <1>1, <1>2, <1>3 DEF Closing

\* Steps that keep registers, variables and blocks may come in between.
LEMMA ClosingFollows ==
  ASSUME NEW F, Sound(F), NEW n, NEW G, Closing(G, F, n), NEW H, Follows(H, G)
  PROVE  Closing(H, F, n)
<1>1. PopC(F) \in Fun
  BY StartPop DEF Start, Ready
<1> QED
  BY <1>1, StageFollows DEF Closing

\* A function whose construct is being closed is well formed, with no less code than
\* before.
LEMMA ClosingGiven ==
  ASSUME NEW F, NEW n, NEW G, Closing(G, F, n)
  PROVE  Given(G) /\ (G.err = "none" => G \in Fun /\ Len(PopC(F).ops) <= Len(G.ops))
  BY DEF Closing, Stage, Given, Ready, Stands, From

\* Each exit_block leaves one of the construct's blocks.
LEMMA ClosingExit ==
  ASSUME NEW F, Sound(F), NEW n \in 1..BlocksOf(Top(F.ctx)), NEW G, Closing(G, F, n)
  PROVE  /\ Closing(ExitBlock(G), F, n - 1)
         /\ ExitBlock(G).err = "none" =>
              ExitBlock(G).alloc.stack_top = F.blocks[Outer(F.ctx, F.blocks) + n].stack_bottom
<1> DEFINE E == PopC(F)
           c == Top(F.ctx)
           m == Outer(F.ctx, F.blocks)
           hidden == HiddenIn(F.ctx)
<1>1. /\ Start(E, hidden, m) /\ m + BlocksOf(c) = Len(F.blocks) /\ m \in Nat /\ E.blocks = F.blocks
      /\ \A r \in hidden, j \in 1..Len(F.blocks) : j > m => r < F.blocks[j].stack_bottom
  BY StartPop
<1>2. E \in Fun
  BY <1>1 DEF Start, Ready
<1>3. BlocksOf(c) \in 1..3
  BY BlocksOfRange
<1> HIDE DEF m, c, E, hidden
<1>4. m + n \in Nat /\ m + n > 0 /\ m + n <= Len(E.blocks) /\ (m + n) - 1 = m + (n - 1) /\ m + n > m
      /\ m + n \in 1..Len(F.blocks)
  BY <1>1, <1>3 DEF c
<1>5. \A r \in hidden : r < E.blocks[m + n].stack_bottom
  BY <1>1, <1>4
<1>6. Stage(G, E, hidden, m + n)
  BY DEF Closing, E, m, hidden
<1>7. /\ Stage(ExitBlock(G), E, hidden, (m + n) - 1)
      /\ ExitBlock(G).err = "none" => ExitBlock(G).alloc.stack_top = E.blocks[m + n].stack_bottom
  BY <1>2, <1>4, <1>5, <1>6, StageExit
<1> QED
  BY <1>1, <1>4, <1>7 DEF Closing, E, m, hidden

\* When all its blocks are left the construct is closed.
LEMMA ClosingEnd ==
  ASSUME NEW F, Sound(F), Top(F.ctx).k \notin Roots \cup Loops, NEW G, Closing(G, F, 0)
  PROVE  Turns(G, F)
<1> DEFINE E == PopC(F)
           m == Outer(F.ctx, F.blocks)
<1>1. /\ Start(E, HiddenIn(F.ctx), m) /\ m \in Nat /\ Rooted(E) /\ Heir(E, F)
      /\ HiddenIn(F.ctx) = HiddenIn(E.ctx) \cup Hidden(Top(F.ctx))
  BY StartPop
<1>2. Hidden(Top(F.ctx)) = {}
  BY DEF Hidden
<1>3. Stage(G, E, HiddenIn(E.ctx), m)
  BY <1>1, <1>2 DEF Closing
<1>4. Settled(G) /\ (G.err = "none" => Heir(G, E))
  BY <1>1, <1>3, StageSettled
<1> QED
  BY <1>1, <1>4, HeirTrans DEF Turns

\* A loop's registers are popped at the very end.
LEMMA ClosingLoop ==
  ASSUME NEW F, Sound(F), Top(F.ctx).k \in Loops, NEW G, Closing(G, F, 0),
         G.err = "none" => G.alloc.stack_top = F.blocks[Outer(F.ctx, F.blocks) + 1].stack_bottom
  PROVE  Turns([G EXCEPT !.alloc = PopTo(@, Top(F.ctx).base)], F)
<1> DEFINE E == PopC(F)
           c == Top(F.ctx)
           m == Outer(F.ctx, F.blocks)
           H == [G EXCEPT !.alloc = PopTo(@, c.base)]
<1>1. /\ Start(E, HiddenIn(F.ctx), m) /\ m \in Nat /\ m + BlocksOf(c) = Len(F.blocks) /\ E.blocks = F.blocks
      /\ HiddenIn(F.ctx) = HiddenIn(E.ctx) \cup Hidden(c) /\ c \in Context
      /\ \A r \in HiddenIn(E.ctx) : r < c.base
      /\ F.blocks[m + 1].stack_bottom = c.base + 3
      /\ \A j \in 1..m : F.blocks[j].stack_bottom <= c.base
  BY StartPop
<1>2. Rooted(E) /\ Heir(E, F)
  <2>1. c.k \notin Roots
    BY DEF Loops, Roots, Functions
  <2> QED
    BY <2>1, StartPop
<1>3. c.base \in Nat /\ BlocksOf(c) \in 1..3 /\ E \in Fun
  BY <1>1, ContextFields, BlocksOfRange DEF Start, Ready
<1>4. HiddenIn(F.ctx) = HiddenIn(E.ctx) \cup c.base..(c.base + 2)
  BY <1>1 DEF Hidden
<1>5. Stage(G, E, HiddenIn(E.ctx) \cup c.base..(c.base + 2), m)
  <2>1. m + 0 = m
    BY <1>1
  <2> QED
    BY <1>4, <2>1 DEF Closing
<1> HIDE DEF m, E, c
<1>6. ASSUME G.err = "none"
      PROVE  /\ G.alloc.stack_top = c.base + 3
             /\ \A i \in 1..m : G.blocks[i].stack_bottom <= c.base
  <2>1. G.alloc.stack_top = c.base + 3
    BY <1>1, <1>6 DEF m
  <2>2. ASSUME NEW i \in 1..m PROVE G.blocks[i].stack_bottom <= c.base
    <3>1. i \in 1..Len(E.blocks) /\ i <= m
      BY <1>1, <1>3
    <3>2. G.blocks[i] = E.blocks[i]
      BY <1>5, <1>6, <3>1 DEF Stage, Stands
    <3> QED
      BY <1>1, <3>2
  <2> QED
    BY <2>1, <2>2
<1>7. Stage(H, E, HiddenIn(E.ctx), m)
  BY <1>1, <1>3, <1>5, <1>6, StagePopLoop
<1> HIDE DEF H
<1>8. Settled(H) /\ (H.err = "none" => Heir(H, E))
  BY <1>1, <1>2, <1>7, StageSettled
<1> QED
  BY <1>2, <1>8, HeirTrans DEF Turns, H, c

\* A label, a jump or a test in between.
LEMMA ClosingLabel ==
  ASSUME NEW F, Sound(F), NEW n, NEW G, Closing(G, F, n), NEW label \in Label
  PROVE  Closing(JumpTarget(G, label), F, n) /\ Closing(Jump(G, label), F, n) /\ Closing(Test(G), F, n)
<1>1. Given(G)
  BY ClosingGiven
<1>2. Follows(JumpTarget(G, label), G) /\ Follows(Jump(G, label), G) /\ Follows(Test(G), G)
  BY <1>1, JumpTargetFollows, JumpFollows, TestFollows
<1> QED
  BY <1>2, ClosingFollows

\* The label of break is a label.
LEMMA BreakLabel == Break \in Label
  BY DEF Break, Label

\* do
LEMMA CloseDoTurns ==
  ASSUME NEW F, Sound(F), Ending(Top(F.ctx)), Top(F.ctx).k = "do"
  PROVE  Turns(ExitBlock(PopC(F)), F)
<1> DEFINE c == Top(F.ctx)
<1>1. OwnBlocks(c) = 1 /\ c.k \notin Roots \cup Loops
  BY DEF OwnBlocks, Roots, Loops, Functions
<1>2. Closing(PopC(F), F, 1) /\ BlocksOf(c) = 1
  BY <1>1, ClosingStart
<1>3. Closing(ExitBlock(PopC(F)), F, 0)
  <2>1. 1 \in 1..BlocksOf(c) /\ 1 - 1 = 0
    BY <1>2
  <2>2. Closing(ExitBlock(PopC(F)), F, 1 - 1)
    BY <1>2, <2>1, ClosingExit
  <2> QED
    BY <2>1, <2>2
<1> QED
  BY <1>1, <1>3, ClosingEnd

\* while
LEMMA CloseWhileTurns ==
  ASSUME NEW F, Sound(F), Ending(Top(F.ctx)), Top(F.ctx).k = "while"
  PROVE  Turns(CloseWhile(PopC(F), Top(F.ctx)), F)
<1> DEFINE c == Top(F.ctx)
           E == JumpTarget(Jump(PopC(F), c.a), Break)
<1>1. OwnBlocks(c) = 1 /\ c.k \notin Roots \cup Loops
  BY DEF OwnBlocks, Roots, Loops, Functions
<1>2. Closing(PopC(F), F, 1) /\ BlocksOf(c) = 1
  BY <1>1, ClosingStart
<1>3. c.a \in Label /\ c.b \in Label
  BY TopContext, ContextFields
<1> HIDE DEF c
<1>4. Closing(E, F, 1)
  BY <1>2, <1>3, ClosingLabel, BreakLabel
<1> HIDE DEF E
<1>5. Closing(ExitBlock(E), F, 0)
  <2>1. 1 \in 1..BlocksOf(Top(F.ctx)) /\ 1 - 1 = 0
    BY <1>2 DEF c
  <2>2. Closing(ExitBlock(E), F, 1 - 1)
    BY <1>4, <2>1, ClosingExit
  <2> QED
    BY <2>1, <2>2
<1>6. Closing(JumpTarget(ExitBlock(E), c.b), F, 0)
  BY <1>3, <1>5, ClosingLabel
<1>7. Turns(JumpTarget(ExitBlock(E), c.b), F)
  BY <1>1, <1>6, ClosingEnd DEF c
<1> QED
  BY <1>7 DEF CloseWhile, E, c

\* repeat
LEMMA CloseRepeatTurns ==
  ASSUME NEW F, Sound(F), Ending(Top(F.ctx)), Top(F.ctx).k = "repeat"
  PROVE  Turns(CloseRepeat(PopC(F), Top(F.ctx)), F)
<1> DEFINE c == Top(F.ctx)
           E == Jump(Test(PopC(F)), c.a)
           G == JumpTarget(ExitBlock(E), Break)
<1>1. OwnBlocks(c) = 2 /\ c.k \notin Roots \cup Loops
  BY DEF OwnBlocks, Roots, Loops, Functions
<1>2. Closing(PopC(F), F, 2) /\ BlocksOf(c) = 2
  BY <1>1, ClosingStart
<1>3. c.a \in Label
  BY TopContext, ContextFields
<1> HIDE DEF c
<1>4. Closing(E, F, 2)
  BY <1>2, <1>3, ClosingLabel
<1> HIDE DEF E
<1>5. 2 \in 1..BlocksOf(Top(F.ctx)) /\ 1 \in 1..BlocksOf(Top(F.ctx)) /\ 2 - 1 = 1 /\ 1 - 1 = 0
  BY <1>2 DEF c
<1>6. Closing(ExitBlock(E), F, 1)
  <2>1. Closing(ExitBlock(E), F, 2 - 1)
    BY <1>4, <1>5, ClosingExit
  <2> QED
    BY <1>5, <2>1
<1>7. Closing(G, F, 1)
  BY <1>6, ClosingLabel, BreakLabel
<1> HIDE DEF G
<1>8. Closing(ExitBlock(G), F, 0)
  <2>1. Closing(ExitBlock(G), F, 1 - 1)
    BY <1>7, <1>5, ClosingExit
  <2> QED
    BY <1>5, <2>1
<1>9. Turns(ExitBlock(G), F)
  BY <1>1, <1>8, ClosingEnd DEF c
<1> QED
  BY <1>9 DEF CloseRepeat, E, G, c

\* if and else
LEMMA CloseIfTurns ==
  ASSUME NEW F, Sound(F), Ending(Top(F.ctx)), Top(F.ctx).k \in {"if", "else"}
  PROVE  /\ Turns(CloseIf(PopC(F), Top(F.ctx)), F)
         /\ Turns(CloseElse(PopC(F), Top(F.ctx)), F)
<1> DEFINE c == Top(F.ctx)
           E == ExitBlock(PopC(F))
<1>1. OwnBlocks(c) = 1 /\ c.k \notin Roots \cup Loops
  BY DEF OwnBlocks, Roots, Loops, Functions
<1>2. Closing(PopC(F), F, 1) /\ BlocksOf(c) = 1
  BY <1>1, ClosingStart
<1>3. c.a \in Label /\ c.b \in Label
  BY TopContext, ContextFields
<1> HIDE DEF c
<1>4. Closing(E, F, 0)
  <2>1. 1 \in 1..BlocksOf(Top(F.ctx)) /\ 1 - 1 = 0
    BY <1>2 DEF c
  <2>2. Closing(E, F, 1 - 1)
    BY <1>2, <2>1, ClosingExit
  <2> QED
    BY <2>1, <2>2
<1> HIDE DEF E
<1>5. Closing(JumpTarget(JumpTarget(E, c.b), c.a), F, 0) /\ Closing(JumpTarget(E, c.a), F, 0)
  BY <1>3, <1>4, ClosingLabel
<1>6. Turns(JumpTarget(JumpTarget(E, c.b), c.a), F) /\ Turns(JumpTarget(E, c.a), F)
  BY <1>1, <1>5, ClosingEnd DEF c
<1> QED
  BY <1>6 DEF CloseIf, CloseElse, E, c

\* A part of an if statement that is not the last one.
LEMMA PartTurns ==
  ASSUME NEW F, Sound(F), Ending(Top(F.ctx)), Top(F.ctx).k = "if"
  PROVE  Turns(ExitBlock(Jump(PopC(F), Top(F.ctx).a)), F)
<1> DEFINE c == Top(F.ctx)
           E == Jump(PopC(F), c.a)
<1>1. OwnBlocks(c) = 1 /\ c.k \notin Roots \cup Loops
  BY DEF OwnBlocks, Roots, Loops, Functions
<1>2. Closing(PopC(F), F, 1) /\ BlocksOf(c) = 1
  BY <1>1, ClosingStart
<1>3. c.a \in Label
  BY TopContext, ContextFields
<1> HIDE DEF c
<1>4. Closing(E, F, 1)
  BY <1>2, <1>3, ClosingLabel
<1> HIDE DEF E
<1>5. Closing(ExitBlock(E), F, 0)
  <2>1. 1 \in 1..BlocksOf(Top(F.ctx)) /\ 1 - 1 = 0
    BY <1>2 DEF c
  <2>2. Closing(ExitBlock(E), F, 1 - 1)
    BY <1>4, <2>1, ClosingExit
  <2> QED
    BY <2>1, <2>2
<1>6. Turns(ExitBlock(E), F)
  BY <1>1, <1>5, ClosingEnd DEF c
<1> QED
  BY <1>6 DEF E, c
\* elseif and else: the part before is left, and the next one is opened.
LEMMA ElseifTurns ==
  ASSUME NEW F, Sound(F), Ending(Top(F.ctx)), Top(F.ctx).k = "if", NEW ret \in BOOLEAN
  PROVE  LET c == Top(F.ctx)
             E == ExitBlock(Jump(PopC(F), c.a))
             next == Unique(E)
         IN /\ Turns(IfPart(TakeLabel(E), c.b, next, NewLabels(Construct("if", ret), c.a, next)), F)
            /\ Turns(OpenBody(EnterBlock(JumpTarget(E, c.b)), NewLabel(Construct("else", ret), c.a)), F)
<1> DEFINE c == Top(F.ctx)
           E == ExitBlock(Jump(PopC(F), c.a))
           next == Unique(E)
           d == NewLabels(Construct("if", ret), c.a, next)
           e == NewLabel(Construct("else", ret), c.a)
<1>1. Turns(E, F)
  BY PartTurns
<1>2. c.a \in Label /\ c.b \in Label
  BY TopContext, ContextFields
<1> HIDE DEF c, E
<1>3. E.err = "none" => next \in Label
  BY <1>1, TurnsFun
<1> HIDE DEF next
<1>4. E.err = "none" => /\ d \in Context /\ d.k = "if" /\ d.phase = "body" /\ d.prep = 0
  <2>1. /\ Construct("if", ret) \in Context /\ Construct("if", ret).k = "if"
        /\ Construct("if", ret).phase = "body" /\ Construct("if", ret).prep = 0
    BY ConstructIn DEF Kinds
  <2> QED
    BY <1>2, <1>3, <2>1, LabelsIn
<1>5. /\ e \in Context /\ e.k = "else" /\ e.phase = "body" /\ e.prep = 0
  <2>1. /\ Construct("else", ret) \in Context /\ Construct("else", ret).k = "else"
        /\ Construct("else", ret).phase = "body" /\ Construct("else", ret).prep = 0
    BY ConstructIn DEF Kinds
  <2> QED
    BY <1>2, <2>1, LabelIn
<1> HIDE DEF d, e
<1>6. "if" \notin Roots \cup Loops \cup {"repeat"} /\ "else" \notin Roots \cup Loops \cup {"repeat"}
  BY DEF Roots, Loops, Functions
<1>7. Turns(TakeLabel(E), F) /\ TakeLabel(E).err = E.err
  BY <1>1, TakeTurns
<1>8. Turns(IfPart(TakeLabel(E), c.b, next, d), F)
  BY <1>2, <1>3, <1>4, <1>6, <1>7, IfPartTurns
<1>9. Turns(JumpTarget(E, c.b), F)
  <2>1. Follows(JumpTarget(E, c.b), E)
    BY <1>1, <1>2, JumpTargetFollows DEF Turns, Settled
  <2> QED
    BY <1>1, <2>1, FollowsTurns
<1>10. Turns(OpenBody(EnterBlock(JumpTarget(E, c.b)), e), F)
  BY <1>5, <1>6, <1>9, EnterTurns
<1> QED
  BY <1>8, <1>10 DEF d, e, NewLabels, NewLabel, next, E, c

\* The blocks of a loop, its last label, and its registers.
LEMMA LoopEnds ==
  ASSUME NEW F, Sound(F), Ending(Top(F.ctx)), Top(F.ctx).k \in Loops,
         NEW G, Closing(G, F, 1)
  PROVE  Turns([ExitBlock(JumpTarget(G, Break)) EXCEPT !.alloc = PopTo(@, Top(F.ctx).base)], F)
<1> DEFINE E == JumpTarget(G, Break)
<1>1. Closing(E, F, 1)
  BY ClosingLabel, BreakLabel
<1> HIDE DEF E
<1>2. 1 \in 1..BlocksOf(Top(F.ctx)) /\ 1 - 1 = 0
  BY BlocksOfRange
<1>3. /\ Closing(ExitBlock(E), F, 1 - 1)
      /\ ExitBlock(E).err = "none" =>
           ExitBlock(E).alloc.stack_top = F.blocks[Outer(F.ctx, F.blocks) + 1].stack_bottom
  BY <1>1, <1>2, ClosingExit
<1> QED
  BY <1>2, <1>3, ClosingLoop DEF E

\* When a loop ends the block of its body is left first; its registers are still there.
LEMMA LoopStarts ==
  ASSUME NEW F, Sound(F), Ending(Top(F.ctx)), Top(F.ctx).k \in Loops
  PROVE  LET c == Top(F.ctx)
         IN /\ Closing(ExitBlock(PopC(F)), F, 1)
            /\ c.prep \in Nat /\ c.base \in Nat /\ c.base + 3 \in Regs /\ c.a \in Label
            /\ c.prep <= Len(PopC(F).ops) /\ Len(PopC(F).ops) \in Nat
<1> DEFINE c == Top(F.ctx)
<1>1. OwnBlocks(c) = 2
  BY DEF OwnBlocks
<1>2. Closing(PopC(F), F, 2) /\ BlocksOf(c) = 2
  BY <1>1, ClosingStart
<1>3. c.prep \in Nat /\ c.base \in Nat /\ c.a \in Label
  BY TopContext, ContextFields
<1>4. c.base + 3 \in Regs /\ c.prep <= Len(PopC(F).ops) /\ PopC(F) \in Fun
  BY StartPop DEF Start, Ready
<1> HIDE DEF c
<1>5. Closing(ExitBlock(PopC(F)), F, 1)
  <2>1. 2 \in 1..BlocksOf(Top(F.ctx)) /\ 2 - 1 = 1
    BY <1>2 DEF c
  <2>2. Closing(ExitBlock(PopC(F)), F, 2 - 1)
    BY <1>2, <2>1, ClosingExit
  <2> QED
    BY <2>1, <2>2
<1> QED
  BY <1>3, <1>4, <1>5, FunFields DEF c

\* An instruction that leads back to the start of a loop.
LoopOp(k, r, v, o) == [Op(k) EXCEPT !.reg = r, !.var = v, !.offset = o]
BackOp(k, o) == [Op(k) EXCEPT !.offset = o]
\* The instructions of loops have their types and the offsets they are given.
LEMMA LoopOpsTyped ==
  ASSUME NEW k \in VarKinds, NEW r \in Regs, NEW v \in Variable, NEW o \in Int
  PROVE  /\ LoopOp(k, r, v, o) \in Instr /\ LoopOp(k, r, v, o).offset = o
         /\ BackOp(k, o) \in Instr /\ BackOp(k, o).offset = o
<1>1. Op(k) \in VarInstr
  BY OpInstr
<1>2. LoopOp(k, r, v, o) \in VarInstr /\ LoopOp(k, r, v, o).offset = o
  BY <1>1 DEF VarInstr, LoopOp
<1>3. BackOp(k, o) \in VarInstr /\ BackOp(k, o).offset = o
  BY <1>1 DEF VarInstr, BackOp
<1> QED
  BY <1>2, <1>3 DEF Instr

\* An instruction's offset is set.
SetOffset(G, n, o) == [G EXCEPT !.ops[n].offset = o]
OffsetSet(H, G, n, o) ==
  /\ H = [G EXCEPT !.ops = H.ops] /\ H.ops \in Seq(Instr) /\ Len(H.ops) = Len(G.ops)
  /\ \A i \in 1..Len(G.ops) : H.ops[i].offset = IF i = n THEN o ELSE G.ops[i].offset
\* Setting an offset changes that instruction only.
LEMMA OffsetOps ==
  ASSUME NEW G \in Fun, NEW n \in Nat, NEW o \in Int
  PROVE  OffsetSet(SetOffset(G, n, o), G, n, o)
<1> DEFINE s == G.ops
           t == [s EXCEPT ![n].offset = o]
<1>1. s \in Seq(Instr) /\ Len(s) \in Nat
  BY FunFields
<1>2. SetOffset(G, n, o).ops = t /\ SetOffset(G, n, o) = [G EXCEPT !.ops = t]
  BY FunDomain DEF SetOffset, Fields
<1> HIDE DEF s
<1>3. ASSUME NEW p \in Instr PROVE [p EXCEPT !.offset = o] \in Instr /\ [p EXCEPT !.offset = o].offset = o
  <2>1. CASE p \in JumpInstr
    <3>1. [p EXCEPT !.offset = o] \in JumpInstr /\ [p EXCEPT !.offset = o].offset = o
      BY <2>1 DEF JumpInstr
    <3> QED
      BY <3>1 DEF Instr
  <2>2. CASE p \in VarInstr
    <3>1. [p EXCEPT !.offset = o] \in VarInstr /\ [p EXCEPT !.offset = o].offset = o
      BY <2>2 DEF VarInstr
    <3> QED
      BY <3>1 DEF Instr
  <2> QED
    BY <2>1, <2>2 DEF Instr
<1>4. DOMAIN s = 1..Len(s) /\ s = [i \in 1..Len(s) |-> s[i]]
  BY <1>1
<1>5. t = [i \in 1..Len(s) |-> IF i = n THEN [s[n] EXCEPT !.offset = o] ELSE s[i]]
  BY <1>4
<1>6. \A i \in 1..Len(s) : s[i] \in Instr
  BY <1>1
<1> DEFINE g(i) == IF i = n THEN [s[n] EXCEPT !.offset = o] ELSE s[i]
<1>7. \A i \in 1..Len(s) : g(i) \in Instr /\ g(i).offset = IF i = n THEN o ELSE s[i].offset
  BY <1>3, <1>6
<1>8. t = [i \in 1..Len(s) |-> g(i)]
  BY <1>5
<1> HIDE DEF t, g
<1>9. t \in Seq(Instr) /\ Len(t) = Len(s) /\ \A i \in 1..Len(s) : t[i] = g(i)
  BY <1>1, <1>7, <1>8
<1>10. \A i \in 1..Len(s) : t[i].offset = IF i = n THEN o ELSE s[i].offset
  BY <1>7, <1>9
<1> QED
  BY <1>2, <1>9, <1>10 DEF s, OffsetSet

\* The preparation of a loop jumps to the loop instruction.
LEMMA PrepFollows ==
  ASSUME NEW G, Given(G), NEW prep \in Nat, G.err = "none" => prep <= Len(G.ops)
  PROVE  Follows(SetOffset(G, prep + 1, jump_offset(prep, Here(G))), G)
<1> DEFINE o == jump_offset(prep, Here(G))
           H == SetOffset(G, prep + 1, o)
<1>1. CASE G.err = "none"
  <2>1. G \in Fun /\ Coded(G) /\ Len(G.ops) \in Nat
    BY <1>1, FunFields DEF Given, Ready
  <2>2. o = Len(G.ops) - (prep + 1) /\ o \in Int /\ prep + 1 \in Nat
    BY <2>1 DEF jump_offset, Here
  <2> HIDE DEF o
  <2>3. /\ H = [G EXCEPT !.ops = H.ops] /\ H.ops \in Seq(Instr) /\ Len(H.ops) = Len(G.ops)
        /\ \A i \in 1..Len(G.ops) : H.ops[i].offset = IF i = prep + 1 THEN o ELSE G.ops[i].offset
    <3>1. OffsetSet(H, G, prep + 1, o)
      BY <2>1, <2>2, OffsetOps
    <3> QED
      BY <3>1 DEF OffsetSet
  <2> HIDE DEF H
  <2>4. ASSUME NEW n \in 1..Len(G.ops) PROVE n + H.ops[n].offset \in 0..Len(G.ops)
    <3>1. n + G.ops[n].offset \in 0..Len(G.ops)
      BY <2>1 DEF Coded
    <3>2. CASE n = prep + 1
      <4>1. H.ops[n].offset = Len(G.ops) - n
        BY <2>2, <2>3, <3>2
      <4>2. \A L \in Nat : \A i \in 1..L : i + (L - i) \in 0..L
        OBVIOUS
      <4> QED
        BY <2>1, <4>1, <4>2
    <3>3. CASE n # prep + 1
      BY <2>3, <3>1, <3>3
    <3> QED
      BY <3>2, <3>3
  <2>5. Follows([G EXCEPT !.ops = H.ops], G)
    BY <2>3, <2>4, OpsFollows
  <2> QED
    BY <2>3, <2>5 DEF H, o
<1>2. CASE G.err # "none"
  <2>1. HasErr(H) /\ H.err = G.err
    BY DEF Given, HasErr, SetOffset
  <2> QED
    BY <1>2, <2>1 DEF Follows, Given
<1> QED
  BY <1>1, <1>2

\* A jump back to where a loop began.
LEMMA BackFollows ==
  ASSUME NEW G, Given(G), NEW prep \in Nat, G.err = "none" => prep <= Len(G.ops),
         NEW op, G.err = "none" => op \in Instr /\ op.offset = jump_offset(Here(G), prep + 1)
  PROVE  Follows(Emit(G, op), G)
<1>1. CASE G.err = "none"
  <2>1. Len(G.ops) \in Nat /\ op \in Instr /\ op.offset = (prep + 1) - (Len(G.ops) + 1)
    BY <1>1, FunFields DEF Given, Ready, jump_offset, Here
  <2>2. Len(G.ops) + 1 + op.offset \in 0..(Len(G.ops) + 1)
    <3>1. \A L \in Nat : prep <= L => L + 1 + ((prep + 1) - (L + 1)) \in 0..(L + 1)
      OBVIOUS
    <3> QED
      BY <1>1, <2>1, <3>1
  <2> QED
    BY <2>1, <2>2, EmitFollows
<1>2. CASE G.err # "none"
  <2>1. HasErr(Emit(G, op)) /\ Emit(G, op).err = G.err
    BY EmitErr DEF Given
  <2> QED
    BY <1>2, <2>1 DEF Follows, Given
<1> QED
  BY <1>1, <1>2

\* for
LEMMA CloseForTurns ==
  ASSUME NEW F, Sound(F), Ending(Top(F.ctx)), Top(F.ctx).k = "for"
  PROVE  Turns(CloseFor(PopC(F), Top(F.ctx)), F)
<1> DEFINE c == Top(F.ctx)
           G == ExitBlock(PopC(F))
           loop == Here(G)
           E == SetOffset(G, c.prep + 1, jump_offset(c.prep, loop))
           var == <<c.prep, c.base + 3>>
           op == LoopOp("ForLoop", c.base + 3, var, jump_offset(loop, c.prep + 1))
           H == Emit(E, op)
<1>1. c.k \in Loops
  BY DEF Loops
<1>2. /\ Closing(G, F, 1) /\ c.prep \in Nat /\ c.base \in Nat /\ c.base + 3 \in Regs
      /\ c.prep <= Len(PopC(F).ops) /\ Len(PopC(F).ops) \in Nat
  BY <1>1, LoopStarts
<1>3. Given(G) /\ (G.err = "none" => G \in Fun /\ c.prep <= Len(G.ops) /\ Len(G.ops) \in Nat)
  <2> HIDE DEF c
  <2>1. Given(G) /\ (G.err = "none" => G \in Fun /\ Len(PopC(F).ops) <= Len(G.ops))
    BY <1>2, ClosingGiven
  <2>2. G.err = "none" => Len(G.ops) \in Nat
    BY <2>1, FunFields
  <2> HIDE DEF G
  <2> QED
    BY <1>2, <2>1, <2>2
<1> HIDE DEF c, G
<1>4. Follows(E, G)
  BY <1>2, <1>3, PrepFollows
<1>5. Given(E) /\ (E.err = "none" => G.err = "none" /\ Len(E.ops) = Len(G.ops))
  <2>1. Given(E) /\ (E.err = "none" => G.err = "none")
    BY <1>4 DEF Follows
  <2>2. ASSUME G.err = "none" PROVE Len(E.ops) = Len(G.ops)
    <3> DEFINE o == jump_offset(c.prep, loop)
    <3>1. o \in Int /\ c.prep + 1 \in Nat
      BY <1>2, <1>3, <2>2 DEF jump_offset, Here
    <3> HIDE DEF o
    <3>2. OffsetSet(SetOffset(G, c.prep + 1, o), G, c.prep + 1, o)
      BY <1>3, <2>2, <3>1, OffsetOps
    <3> QED
      BY <3>2 DEF OffsetSet, o
  <2> QED
    BY <2>1, <2>2
<1> HIDE DEF E
<1>6. E.err = "none" => op \in Instr /\ op.offset = jump_offset(Here(E), c.prep + 1)
  <2> SUFFICES ASSUME E.err = "none" PROVE op \in Instr /\ op.offset = jump_offset(Here(E), c.prep + 1)
    OBVIOUS
  <2>1. var \in Variable
    BY <1>2, VariableOf
  <2>2. jump_offset(loop, c.prep + 1) \in Int
    BY <1>2, <1>3, <1>5 DEF jump_offset, Here
  <2>3. "ForLoop" \in VarKinds
    BY DEF VarKinds
  <2>4. Here(E) = loop
    BY <1>5 DEF Here
  <2> HIDE DEF var, loop
  <2> QED
    BY <1>2, <2>1, <2>2, <2>3, <2>4, LoopOpsTyped
<1> HIDE DEF op
<1>7. Follows(H, E)
  <2>1. E.err = "none" => c.prep <= Len(E.ops)
    BY <1>3, <1>5
  <2> QED
    BY <1>2, <1>5, <1>6, <2>1, BackFollows
<1> HIDE DEF H
<1>8. Closing(H, F, 1)
  <2>1. Closing(E, F, 1)
    BY <1>2, <1>4, ClosingFollows
  <2> QED
    BY <1>7, <2>1, ClosingFollows
<1>9. Turns([ExitBlock(JumpTarget(H, Break)) EXCEPT !.alloc = PopTo(@, c.base)], F)
  BY <1>1, <1>8, LoopEnds DEF c
<1> QED
  BY <1>9 DEF CloseFor, H, E, op, var, loop, G, c, SetOffset, LoopOp

\* for in
LEMMA CloseForInTurns ==
  ASSUME NEW F, Sound(F), Ending(Top(F.ctx)), Top(F.ctx).k = "forin"
  PROVE  Turns(CloseForIn(PopC(F), Top(F.ctx)), F)
<1> DEFINE c == Top(F.ctx)
           D == ExitBlock(PopC(F))
           G == JumpTarget(D, c.a)
           call == VarOp("ForCall", c.base + 3, <<c.prep, c.base + 3>>)
           H == Emit(G, call)
           loop == Here(H)
           op == BackOp("ForTest", jump_offset(loop, c.prep + 1))
           E == Emit(H, op)
<1>1. c.k \in Loops
  BY DEF Loops
<1>2. /\ Closing(D, F, 1) /\ c.prep \in Nat /\ c.base \in Nat /\ c.base + 3 \in Regs /\ c.a \in Label
      /\ c.prep <= Len(PopC(F).ops) /\ Len(PopC(F).ops) \in Nat
  BY <1>1, LoopStarts
<1> HIDE DEF c, D
<1>3. Closing(G, F, 1)
  BY <1>2, ClosingLabel
<1> HIDE DEF G
<1>4. call \in VarInstr /\ call.offset = 0
  <2>1. <<c.prep, c.base + 3>> \in Variable /\ "ForCall" \in VarKinds
    BY <1>2, VariableOf DEF VarKinds
  <2> QED
    BY <1>2, <2>1, OpsTyped
<1> HIDE DEF call
<1>5. Follows(H, G)
  <2>1. Given(G)
    BY <1>3, ClosingGiven
  <2> QED
    BY <1>4, <2>1, PlainFollows
<1> HIDE DEF H
<1>6. Closing(H, F, 1)
  BY <1>3, <1>5, ClosingFollows
<1>7. Given(H) /\ (H.err = "none" => c.prep <= Len(H.ops) /\ Len(H.ops) \in Nat)
  <2>1. Given(H) /\ (H.err = "none" => H \in Fun /\ Len(PopC(F).ops) <= Len(H.ops))
    BY <1>6, ClosingGiven
  <2>2. H.err = "none" => Len(H.ops) \in Nat
    BY <2>1, FunFields
  <2> QED
    BY <1>2, <2>1, <2>2
<1>8. H.err = "none" => op \in Instr /\ op.offset = jump_offset(Here(H), c.prep + 1)
  <2> SUFFICES ASSUME H.err = "none" PROVE op \in Instr /\ op.offset = jump_offset(Here(H), c.prep + 1)
    OBVIOUS
  <2>1. jump_offset(loop, c.prep + 1) \in Int
    BY <1>2, <1>7 DEF jump_offset, Here
  <2>2. "ForTest" \in VarKinds
    BY DEF VarKinds
  <2> DEFINE o == jump_offset(loop, c.prep + 1)
  <2> HIDE DEF o
  <2>3. o \in Int
    BY <2>1 DEF o
  <2>4. <<0, 0>> \in Variable
    BY VariableOf
  <2>5. BackOp("ForTest", o) \in Instr /\ BackOp("ForTest", o).offset = o
    BY <1>2, <2>2, <2>3, <2>4, LoopOpsTyped
  <2> QED
    BY <2>5 DEF o
<1> HIDE DEF op
<1>9. Follows(E, H)
  BY <1>2, <1>7, <1>8, BackFollows
<1> HIDE DEF E
<1>10. Closing(E, F, 1)
  BY <1>6, <1>9, ClosingFollows
<1>11. Turns([ExitBlock(JumpTarget(E, Break)) EXCEPT !.alloc = PopTo(@, c.base)], F)
  BY <1>1, <1>10, LoopEnds DEF c
<1> QED
  BY <1>11 DEF CloseForIn, E, op, loop, H, call, G, D, c, VarOp, BackOp

-----------------------------------------------------------------------------
(* Names are found. *)

\* A function that was handed upvalues, or whose blocks own more of them.
Grown(G, F) ==
  /\ F \in Fun /\ G \in Fun
  /\ G.alloc = F.alloc /\ G.locals = F.locals /\ G.targets = F.targets /\ G.pending = F.pending
  /\ G.ops = F.ops /\ G.params = F.params /\ G.ctx = F.ctx /\ G.err = F.err
  /\ Len(F.upvalues) <= Len(G.upvalues)
  /\ \A j \in 1..Len(F.upvalues) : G.upvalues[j] = F.upvalues[j]
  /\ Len(G.blocks) = Len(F.blocks)
  /\ \A i \in 1..Len(F.blocks) : /\ G.blocks[i].stack_bottom = F.blocks[i].stack_bottom
                                 /\ G.blocks[i].bottom_jump_target = F.blocks[i].bottom_jump_target

\* A function has grown from itself.
LEMMA GrownSelf ==
  ASSUME NEW F \in Fun
  PROVE  Grown(F, F)
  BY FunFields DEF Grown

\* Growth by upvalues is transitive.
LEMMA GrownTrans ==
  ASSUME NEW F, NEW G, NEW H, Grown(G, F), Grown(H, G)
  PROVE  Grown(H, F)
<1>1. Len(F.upvalues) \in Nat /\ Len(G.upvalues) \in Nat /\ Len(H.upvalues) \in Nat
  BY FunFields DEF Grown
<1>2. \A j \in 1..Len(F.upvalues) : j \in 1..Len(G.upvalues)
  BY <1>1 DEF Grown
<1>3. \A j \in 1..Len(F.upvalues) : H.upvalues[j] = F.upvalues[j]
  BY <1>2 DEF Grown
<1>4. Len(F.upvalues) <= Len(H.upvalues)
  BY <1>1 DEF Grown
<1> QED
  BY <1>3, <1>4 DEF Grown

\* The constructs have their blocks as before.
LEMMA GrownShaped ==
  ASSUME NEW ctx, NEW bs, NEW cs, Len(cs) = Len(bs), Len(bs) \in Nat, Len(ctx) \in Nat,
         \A i \in 1..Len(bs) : cs[i].stack_bottom = bs[i].stack_bottom, Shaped(ctx, bs)
  PROVE  Shaped(ctx, cs)
<1>1. PICK d \in [0..Len(ctx) -> 0..Len(bs)] : Shape(ctx, bs, d)
  BY DEF Shaped
<1>2. Shape(ctx, cs, d)
  <2>1. d[0] = 0 /\ d[Len(ctx)] = Len(cs)
    BY <1>1 DEF Shape
  <2>2. ASSUME NEW i \in 1..Len(ctx)
        PROVE  /\ d[i] = d[i - 1] + BlocksOf(ctx[i])
               /\ ctx[i].k \in Loops =>
                    /\ cs[d[i - 1] + 1].stack_bottom = ctx[i].base + 3
                    /\ \A j \in 1..d[i - 1] : cs[j].stack_bottom <= ctx[i].base
    <3>1. /\ d[i] = d[i - 1] + BlocksOf(ctx[i])
          /\ ctx[i].k \in Loops =>
               /\ bs[d[i - 1] + 1].stack_bottom = ctx[i].base + 3
               /\ \A j \in 1..d[i - 1] : bs[j].stack_bottom <= ctx[i].base
      BY <1>1 DEF Shape
    <3>2. d[i - 1] + 1 \in 1..Len(bs) /\ d[i - 1] \in 0..Len(bs)
      <4>1. i - 1 \in 0..Len(ctx) /\ i \in 0..Len(ctx) /\ BlocksOf(ctx[i]) \in 1..3
        BY BlocksOfRange
      <4>2. d[i - 1] \in 0..Len(bs) /\ d[i] \in 0..Len(bs)
        BY <4>1
      <4> QED
        BY <3>1, <4>1, <4>2
    <3>3. \A j \in 1..d[i - 1] : j \in 1..Len(bs)
      BY <3>2
    <3> QED
      BY <3>1, <3>2, <3>3
  <2> QED
    BY <2>1, <2>2 DEF Shape
<1> QED
  BY <1>1, <1>2 DEF Shaped

\* A function that got upvalues, or blocks that own some, stays sound.
LEMMA GrownSound ==
  ASSUME NEW F, Sound(F), NEW G, Grown(G, F)
  PROVE  Sound(G)
<1>1. F \in Fun /\ G \in Fun /\ Len(F.blocks) \in Nat /\ Len(F.ctx) \in Nat /\ Len(G.blocks) = Len(F.blocks)
  BY FunFields DEF Grown
<1>2. Packed(G.alloc) /\ Layout(G, HiddenIn(G.ctx)) /\ G.err = "none"
  BY DEF Grown, Sound, Placed, Layout, LayoutTo
<1>3. Nested(G)
  <2>1. \A i, j \in 1..Len(F.blocks) : i < j =>
          Within(F.blocks[i], F.blocks[j].stack_bottom, F.blocks[j].bottom_jump_target)
    BY DEF Sound, Placed, Nested
  <2>2. \A i \in 1..Len(F.blocks) : Within(F.blocks[i], F.alloc.stack_top, Len(F.targets))
    BY DEF Sound, Placed, Nested
  <2>3. ASSUME NEW i \in 1..Len(F.blocks), NEW x, NEW y, Within(F.blocks[i], x, y)
        PROVE  Within(G.blocks[i], x, y)
    BY <2>3 DEF Within, Grown
  <2>4. \A i, j \in 1..Len(F.blocks) : i < j =>
          Within(G.blocks[i], G.blocks[j].stack_bottom, G.blocks[j].bottom_jump_target)
    BY <2>1, <2>3 DEF Grown
  <2>5. \A i \in 1..Len(F.blocks) : Within(G.blocks[i], G.alloc.stack_top, Len(G.targets))
    BY <2>2, <2>3 DEF Grown
  <2> QED
    BY <1>1, <2>4, <2>5 DEF Nested
<1>4. Shaped(G.ctx, G.blocks)
  <2>1. Shaped(F.ctx, F.blocks) /\ G.ctx = F.ctx
    BY DEF Sound, Grown
  <2>2. \A i \in 1..Len(F.blocks) : G.blocks[i].stack_bottom = F.blocks[i].stack_bottom
    BY DEF Grown
  <2> QED
    BY <1>1, <2>1, <2>2, GrownShaped
<1>5. Rooted(G) /\ Coded(G) /\ Looped(G)
  BY DEF Sound, Grown, Rooted, Coded, Looped
<1> QED
  BY <1>1, <1>2, <1>3, <1>4, <1>5 DEF Sound, Placed

\* Marking the block of a captured variable is growth.
LEMMA OwnGrown ==
  ASSUME NEW F \in Fun, NEW reg
  PROVE  Grown(Own(F, reg), F) /\ Own(F, reg).upvalues = F.upvalues
<1> DEFINE b == SelectLastInSeq(F.blocks, LAMBDA k : k.stack_bottom <= reg)
           bs == [F.blocks EXCEPT ![b].owns_upvalues = TRUE]
           G == [F EXCEPT !.blocks = bs]
<1>1. Own(F, reg) = IF b = 0 THEN F ELSE G
  BY FunDomain DEF Own, Fields
<1>2. F.blocks \in Seq(Block) /\ Len(F.blocks) \in Nat
  BY FunFields
<1> HIDE DEF b
<1>3. \A k \in Block : /\ [k EXCEPT !.owns_upvalues = TRUE] \in Block
                       /\ [k EXCEPT !.owns_upvalues = TRUE].stack_bottom = k.stack_bottom
                       /\ [k EXCEPT !.owns_upvalues = TRUE].bottom_jump_target = k.bottom_jump_target
  BY DEF Block
<1> DEFINE g(i) == IF i = b THEN [F.blocks[b] EXCEPT !.owns_upvalues = TRUE] ELSE F.blocks[i]
<1>4. bs = [i \in 1..Len(F.blocks) |-> g(i)]
  <2> DEFINE s == F.blocks
  <2> HIDE DEF s
  <2>1. s \in Seq(Block)
    BY <1>2 DEF s
  <2>2. DOMAIN s = 1..Len(s) /\ s = [i \in 1..Len(s) |-> s[i]]
    BY <2>1
  <2>3. [s EXCEPT ![b].owns_upvalues = TRUE]
        = [i \in 1..Len(s) |-> IF i = b THEN [s[b] EXCEPT !.owns_upvalues = TRUE] ELSE s[i]]
    BY <2>2, Zenon
  <2> QED
    BY <2>3 DEF s
<1>5. \A i \in 1..Len(F.blocks) : /\ g(i) \in Block /\ g(i).stack_bottom = F.blocks[i].stack_bottom
                                  /\ g(i).bottom_jump_target = F.blocks[i].bottom_jump_target
  BY <1>2, <1>3
<1> HIDE DEF bs, g
<1>6. bs \in Seq(Block) /\ Len(bs) = Len(F.blocks) /\ \A i \in 1..Len(F.blocks) : bs[i] = g(i)
  BY <1>2, <1>4, <1>5
<1>7. G \in Fun
  BY <1>6, FunChange
<1>8. /\ G.blocks = bs /\ G.alloc = F.alloc /\ G.locals = F.locals /\ G.targets = F.targets
      /\ G.pending = F.pending /\ G.ops = F.ops /\ G.params = F.params /\ G.ctx = F.ctx /\ G.err = F.err
      /\ G.upvalues = F.upvalues
  BY FunDomain DEF Fields
<1> HIDE DEF G
<1>9. Len(F.upvalues) \in Nat
  BY FunFields
<1>10. Grown(G, F)
  BY <1>5, <1>6, <1>7, <1>8, <1>9 DEF Grown
<1> QED
  BY <1>1, <1>8, <1>10, GrownSelf

AddUpValue(F, u) == [F EXCEPT !.upvalues = Append(@, u)]
\* Adding an upvalue is growth.
LEMMA AppendGrown ==
  ASSUME NEW F \in Fun, NEW u \in UpValue
  PROVE  Grown(AddUpValue(F, u), F) /\ AddUpValue(F, u).upvalues = Append(F.upvalues, u)
<1> DEFINE ups == Append(F.upvalues, u)
           G == [F EXCEPT !.upvalues = ups]
<1>1. AddUpValue(F, u) = G
  BY FunDomain DEF AddUpValue, Fields
<1>2. F.upvalues \in Seq(UpValue) /\ Len(F.upvalues) \in Nat /\ F.blocks \in Seq(Block)
  BY FunFields
<1>3. ups \in Seq(UpValue) /\ Len(ups) = Len(F.upvalues) + 1 /\ \A j \in 1..Len(F.upvalues) : ups[j] = F.upvalues[j]
  BY <1>2
<1> HIDE DEF ups
<1>4. G \in Fun
  BY <1>3, FunChange
<1>5. /\ G.blocks = F.blocks /\ G.alloc = F.alloc /\ G.locals = F.locals /\ G.targets = F.targets
      /\ G.pending = F.pending /\ G.ops = F.ops /\ G.params = F.params /\ G.ctx = F.ctx /\ G.err = F.err
      /\ G.upvalues = ups
  BY FunDomain DEF Fields
<1> HIDE DEF G
<1>6. Len(F.upvalues) <= Len(G.upvalues)
  BY <1>2, <1>3, <1>5
<1> QED
  BY <1>1, <1>3, <1>4, <1>5, <1>6 DEF Grown, ups

\* What an upvalue stands for stays when the function around it is handed more.
LEMMA LinkingGrown ==
  ASSUME NEW F, NEW G, Grown(G, F), NEW u, Linking(u, F)
  PROVE  Linking(u, G)
<1>1. LocalOf(G, u.name) = LocalOf(F, u.name) /\ G.locals = F.locals
  BY DEF LocalOf, Grown
<1>2. Len(F.upvalues) \in Nat /\ Len(G.upvalues) \in Nat
  BY FunFields DEF Grown
<1>3. ASSUME u.desc[2] + 1 \in 1..Len(F.upvalues)
      PROVE  u.desc[2] + 1 \in 1..Len(G.upvalues) /\ G.upvalues[u.desc[2] + 1] = F.upvalues[u.desc[2] + 1]
  BY <1>2, <1>3 DEF Grown
<1> QED
  BY <1>1, <1>3 DEF Linking

\* The functions around the innermost one, and it, with their upvalues.
Chain(fs) == fs \in Seq(Fun) /\ fs # << >> /\ Linked(fs)
GrownAll(gs, fs) == Len(gs) = Len(fs) /\ \A k \in 1..Len(fs) : Grown(gs[k], fs[k])

\* A chain of functions is not empty, and all are functions.
LEMMA ChainFields ==
  ASSUME NEW fs, Chain(fs)
  PROVE  /\ Len(fs) \in Nat /\ Len(fs) > 0 /\ 1 \in 1..Len(fs) /\ Len(fs) \in 1..Len(fs)
         /\ \A k \in 1..Len(fs) : fs[k] \in Fun
         /\ \A k \in 2..Len(fs) : k \in 1..Len(fs) /\ k - 1 \in 1..Len(fs)
<1>1. Len(fs) \in Nat /\ Len(fs) > 0 /\ \A k \in 1..Len(fs) : fs[k] \in Fun
  BY NonEmpty DEF Chain
<1> QED
  BY <1>1

\* Growth of a chain is transitive.
LEMMA GrownAllTrans ==
  ASSUME NEW fs, NEW gs, NEW hs, GrownAll(gs, fs), GrownAll(hs, gs)
  PROVE  GrownAll(hs, fs)
  BY GrownTrans DEF GrownAll

\* Upvalues keep their links when the function around grows.
LEMMA LinksGrown ==
  ASSUME NEW P, NEW F, NEW G, Links(P, F), Grown(G, F)
  PROVE  Links(P, G)
  BY LinkingGrown DEF Links

\* One of the functions grows, without upvalues of its own unless it is the first.
LEMMA ChainReplace ==
  ASSUME NEW fs, Chain(fs), NEW i \in 1..Len(fs), NEW G, Grown(G, fs[i]),
         G.upvalues = fs[i].upvalues \/ (i = 1 /\ FirstLinks(G))
  PROVE  Chain([fs EXCEPT ![i] = G]) /\ GrownAll([fs EXCEPT ![i] = G], fs)
<1> DEFINE n == Len(fs)
           gs == [fs EXCEPT ![i] = G]
<1>1. /\ n \in Nat /\ n > 0 /\ 1 \in 1..n /\ (\A k \in 1..n : fs[k] \in Fun) /\ fs \in Seq(Fun)
      /\ \A k \in 2..n : k \in 1..n /\ k - 1 \in 1..n
  BY ChainFields DEF Chain
<1>2. G \in Fun
  BY DEF Grown
<1>3. gs \in Seq(Fun) /\ Len(gs) = n /\ \A k \in 1..n : gs[k] = IF k = i THEN G ELSE fs[k]
  BY <1>1, <1>2
<1> HIDE DEF gs, n
<1>4. \A k \in 1..n : Grown(gs[k], fs[k])
  <2>1. ASSUME NEW k \in 1..n PROVE Grown(gs[k], fs[k])
    <3>1. CASE k = i
      BY <1>3, <3>1
    <3>2. CASE k # i
      BY <1>1, <1>3, <3>2, GrownSelf
    <3> QED
      BY <3>1, <3>2
  <2> QED
    BY <2>1
<1>5. FirstLinks(fs[1]) /\ \A k \in 2..n : Links(fs[k], fs[k - 1])
  BY DEF Chain, Linked, n
<1>6. FirstLinks(gs[1])
  <2>1. CASE i = 1
    <3>1. gs[1] = G
      BY <1>1, <1>3, <2>1
    <3> QED
      BY <1>5, <2>1, <3>1 DEF FirstLinks
  <2>2. CASE i # 1
    BY <1>1, <1>3, <1>5, <2>2
  <2> QED
    BY <2>1, <2>2
<1>7. ASSUME NEW k \in 2..n PROVE Links(gs[k], gs[k - 1])
  <2>1. k \in 1..n /\ k - 1 \in 1..n /\ Links(fs[k], fs[k - 1]) /\ k # 1
    BY <1>1, <1>5
  <2>2. gs[k].upvalues = fs[k].upvalues
    BY <1>3, <2>1
  <2>3. Links(gs[k], fs[k - 1])
    BY <2>1, <2>2 DEF Links
  <2> QED
    BY <1>4, <2>1, <2>3, LinksGrown
<1>8. Chain(gs)
  <2>1. gs # << >>
    BY <1>1, <1>3
  <2> QED
    BY <1>3, <1>6, <1>7, <2>1 DEF Chain, Linked
<1>9. GrownAll(gs, fs)
  BY <1>3, <1>4 DEF GrownAll, n
<1> QED
  BY <1>8, <1>9 DEF gs

\* An added element is the last; the others keep their places.
LEMMA AddedLast ==
  ASSUME NEW s \in Seq(UpValue), NEW e \in UpValue, NEW t, t = Append(s, e)
  PROVE  /\ Len(s) + 1 \in 1..Len(t) /\ t[Len(s) + 1] = e
         /\ \A j \in 1..Len(t) : j # Len(s) + 1 => j \in 1..Len(s) /\ t[j] = s[j]
<1>1. Len(s) \in Nat /\ Len(t) = Len(s) + 1 /\ t[Len(s) + 1] = e /\ \A j \in 1..Len(s) : t[j] = s[j]
  OBVIOUS
<1>2. Len(s) + 1 \in 1..Len(t)
  BY <1>1
<1>3. \A j \in 1..Len(t) : j # Len(s) + 1 => j \in 1..Len(s)
  BY <1>1
<1> QED
  BY <1>1, <1>2, <1>3

\* A variable is handed from a function to those inside it.
Handing(name, desc) == [name |-> name, desc |-> desc]
\* Handing a variable through functions that do not declare its name links each to the
\* one around it.
LEMMA ThreadedChain ==
  ASSUME NEW fs, Chain(fs), NEW i \in 1..Len(fs), NEW name \in AllNames,
         NEW desc \in {"ParentLocal", "Outer"} \X Nat, Linking(Handing(name, desc), fs[i]),
         \A k \in 1..Len(fs) : k > i => LocalOf(fs[k], name) = 0
  PROVE  Chain(Threaded(fs, i, name, desc)) /\ GrownAll(Threaded(fs, i, name, desc), fs)
<1> DEFINE n == Len(fs)
           gs == Threaded(fs, i, name, desc)
           d(k) == IF k = i + 1 THEN desc ELSE <<"Outer", Len(fs[k - 1].upvalues)>>
           u(k) == Handing(name, d(k))
           H(k) == IF k <= i THEN fs[k] ELSE AddUpValue(fs[k], u(k))
<1>1. /\ n \in Nat /\ n > 0 /\ 1 \in 1..n /\ (\A k \in 1..n : fs[k] \in Fun) /\ fs \in Seq(Fun)
      /\ \A k \in 2..n : k \in 1..n /\ k - 1 \in 1..n
  BY ChainFields DEF Chain
<1>2. gs = [k \in 1..n |-> H(k)]
  BY DEF Threaded, AddUpValue, Handing
<1>3. \A k \in 1..n : k > i => d(k) \in {"Environment", "ParentLocal", "Outer"} \X Nat
  <2>1. ASSUME NEW k \in 1..n, k > i PROVE d(k) \in {"Environment", "ParentLocal", "Outer"} \X Nat
    <3>1. CASE k = i + 1
      BY <3>1
    <3>2. CASE k # i + 1
      <4>1. k - 1 \in 1..n
        BY <1>1, <2>1
      <4>2. Len(fs[k - 1].upvalues) \in Nat
        BY <1>1, <4>1, FunFields
      <4> QED
        BY <3>2, <4>2
    <3> QED
      BY <3>1, <3>2
  <2> QED
    BY <2>1
<1> HIDE DEF gs, n, d
<1>4. \A k \in 1..n : k > i => u(k) \in UpValue /\ u(k).name = name /\ u(k).desc = d(k)
  BY <1>3 DEF UpValue, Handing
<1> HIDE DEF u
<1>5. \A k \in 1..n : Grown(H(k), fs[k])
  <2>1. ASSUME NEW k \in 1..n PROVE Grown(H(k), fs[k])
    <3>1. CASE k <= i
      BY <1>1, <3>1, GrownSelf
    <3>2. CASE k > i
      <4>1. u(k) \in UpValue /\ fs[k] \in Fun /\ ~(k <= i)
        BY <1>1, <1>4, <3>2
      <4> QED
        BY <4>1, AppendGrown
    <3> QED
      BY <1>1, <3>1, <3>2
  <2> QED
    BY <2>1
<1>6. \A k \in 1..n : H(k) \in Fun
  BY <1>5 DEF Grown
<1>7. \A k \in 1..n : k > i => /\ H(k).upvalues = Append(fs[k].upvalues, u(k))
  <2>1. ASSUME NEW k \in 1..n, k > i PROVE H(k).upvalues = Append(fs[k].upvalues, u(k))
    <3>1. u(k) \in UpValue /\ fs[k] \in Fun /\ ~(k <= i)
      BY <1>1, <1>4, <2>1
    <3> QED
      BY <3>1, AppendGrown
  <2> QED
    BY <2>1
<1>8. \A k \in 1..n : k <= i => H(k) = fs[k]
  OBVIOUS
<1> HIDE DEF H
<1>9. gs \in Seq(Fun) /\ Len(gs) = n /\ \A k \in 1..n : gs[k] = H(k)
  BY <1>1, <1>2, <1>6
<1>10. FirstLinks(fs[1]) /\ \A k \in 2..n : Links(fs[k], fs[k - 1])
  BY DEF Chain, Linked, n
<1>11. FirstLinks(gs[1])
  BY <1>1, <1>8, <1>9, <1>10
<1>12. ASSUME NEW k \in 2..n PROVE Links(gs[k], gs[k - 1])
  <2>1. /\ k \in 1..n /\ k - 1 \in 1..n /\ Links(fs[k], fs[k - 1]) /\ k \in Nat
        /\ gs[k] = H(k) /\ gs[k - 1] = H(k - 1) /\ fs[k - 1] \in Fun /\ fs[k] \in Fun
    BY <1>1, <1>9, <1>10
  <2>2. Grown(H(k - 1), fs[k - 1])
    BY <1>5, <2>1
  <2>3. Links(fs[k], H(k - 1))
    BY <2>1, <2>2, LinksGrown
  <2>4. CASE k <= i
    BY <1>8, <2>1, <2>3, <2>4
  <2>5. CASE k > i
    <3>1. /\ H(k).upvalues = Append(fs[k].upvalues, u(k)) /\ u(k).name = name /\ u(k).desc = d(k)
          /\ u(k) \in UpValue
      BY <1>4, <1>7, <2>1, <2>5
    <3>2. fs[k].upvalues \in Seq(UpValue) /\ Len(fs[k].upvalues) \in Nat
      BY <2>1, FunFields
    <3>3. Linking(u(k), H(k - 1))
      <4>1. CASE k = i + 1
        <5>1. k - 1 = i /\ d(k) = desc
          BY <2>1, <4>1 DEF d
        <5>2. Linking(u(k), fs[k - 1])
          BY <3>1, <5>1 DEF Linking, Handing
        <5> QED
          BY <2>2, <5>2, LinkingGrown
      <4>2. CASE k # i + 1
        <5>1. k - 1 > i /\ d(k) = <<"Outer", Len(fs[k - 1].upvalues)>>
          BY <2>1, <2>5, <4>2 DEF d
        <5>2. H(k - 1).upvalues = Append(fs[k - 1].upvalues, u(k - 1)) /\ u(k - 1).name = name
              /\ u(k - 1) \in UpValue
          BY <1>4, <1>7, <2>1, <5>1
        <5>3. fs[k - 1].upvalues \in Seq(UpValue) /\ Len(fs[k - 1].upvalues) \in Nat
          BY <2>1, FunFields
        <5>4. /\ Len(fs[k - 1].upvalues) + 1 \in 1..Len(H(k - 1).upvalues)
              /\ H(k - 1).upvalues[Len(fs[k - 1].upvalues) + 1] = u(k - 1)
          BY <5>2, <5>3, AddedLast, SMTT(30)
        <5>5. LocalOf(H(k - 1), name) = 0
          <6>1. LocalOf(fs[k - 1], name) = 0
            BY <2>1, <5>1 DEF n
          <6>2. H(k - 1).locals = fs[k - 1].locals
            BY <2>2 DEF Grown
          <6> QED
            BY <6>1, <6>2 DEF LocalOf
        <5>6. u(k).desc[1] = "Outer" /\ u(k).desc[2] = Len(fs[k - 1].upvalues)
          BY <3>1, <5>1
        <5> QED
          BY <3>1, <5>2, <5>4, <5>5, <5>6 DEF Linking
      <4> QED
        BY <4>1, <4>2
    <3>4. ASSUME NEW j \in 1..Len(H(k).upvalues) PROVE Linking(H(k).upvalues[j], H(k - 1))
      <4>1. CASE j = Len(fs[k].upvalues) + 1
        <5>1. H(k).upvalues[j] = u(k)
          BY <3>1, <3>2, <4>1, AddedLast
        <5> QED
          BY <3>3, <5>1
      <4>2. CASE j # Len(fs[k].upvalues) + 1
        <5>1. j \in 1..Len(fs[k].upvalues) /\ H(k).upvalues[j] = fs[k].upvalues[j]
          BY <3>1, <3>2, <4>2, AddedLast
        <5> QED
          BY <2>3, <5>1 DEF Links
      <4> QED
        BY <4>1, <4>2
    <3>5. Links(H(k), H(k - 1))
      BY <3>4 DEF Links
    <3> QED
      BY <2>1, <3>5
  <2> QED
    BY <1>1, <2>1, <2>4, <2>5
<1>13. Chain(gs)
  <2>1. gs # << >>
    BY <1>1, <1>9
  <2> QED
    BY <1>9, <1>11, <1>12, <2>1 DEF Chain, Linked
<1>14. GrownAll(gs, fs)
  BY <1>5, <1>9 DEF GrownAll, n
<1> QED
  BY <1>13, <1>14 DEF gs

\* What a name is found to be.
Seen(v, fs) ==
  /\ Chain(v.fns) /\ GrownAll(v.fns, fs)
  /\ v.kind = "Local" => \E i \in 1..Len(Top(fs).locals) : v.index = Top(fs).locals[i].reg

\* A variable found as an upvalue leaves the chain grown.
LEMMA SeenUpValue ==
  ASSUME NEW fs, NEW gs, Chain(gs), GrownAll(gs, fs), NEW index, NEW attr
  PROVE  Seen(Found(gs, "UpValue", index, attr), fs) /\ Seen(Found(gs, "Global", index, attr), fs)
  BY DEF Seen, Found

\* A chain has grown from itself.
LEMMA GrownAllSelf ==
  ASSUME NEW fs, Chain(fs)
  PROVE  GrownAll(fs, fs)
  BY ChainFields, GrownSelf DEF GrownAll

\* A variable found as a local of an enclosing function is handed inwards.
LEMMA FoundLocalSeen ==
  ASSUME NEW fs, Chain(fs), NEW i \in 1..Len(fs), NEW name \in AllNames, IsLocal(fs, i, name),
         \A k \in 1..Len(fs) : k > i => LocalOf(fs[k], name) = 0
  PROVE  Seen(FoundLocal(fs, i, name, fs[i].locals[LocalOf(fs[i], name)]), fs)
<1> DEFINE p == LocalOf(fs[i], name)
           l == fs[i].locals[p]
           G == Own(fs[i], l.reg)
           gs == [fs EXCEPT ![i] = G]
           hs == Threaded(gs, i, name, <<"ParentLocal", l.reg>>)
<1>1. /\ fs[i] \in Fun /\ fs[i].locals \in Seq(Local) /\ Len(fs) \in Nat /\ Top(fs) = fs[Len(fs)]
      /\ fs \in Seq(Fun)
  BY ChainFields, FunFields DEF Top, Chain
<1>2. p \in 1..Len(fs[i].locals) /\ fs[i].locals[p].name = name
  <2>1. p \in 0..Len(fs[i].locals) /\ p # 0 /\ Len(fs[i].locals) \in Nat
    BY <1>1, LocalOfLast, FunFields DEF IsLocal
  <2> QED
    BY <1>1, <2>1, LocalOfLast
<1>3. l.reg \in Nat
  BY <1>1, <1>2, LocalFields DEF Regs
<1>4. CASE i = Len(fs)
  <2>1. FoundLocal(fs, i, name, l) = Found(fs, "Local", l.reg, l.attr)
    BY <1>4 DEF FoundLocal
  <2>2. GrownAll(fs, fs)
    BY GrownAllSelf
  <2> HIDE DEF p
  <2>3. Seen(Found(fs, "Local", l.reg, l.attr), fs)
    BY <1>1, <1>2, <1>4, <2>2 DEF Seen, Found
  <2> QED
    BY <2>1, <2>3 DEF p
<1>5. CASE i # Len(fs)
  <2>1. Grown(G, fs[i]) /\ G.upvalues = fs[i].upvalues
    BY <1>1, OwnGrown
  <2>2. G.locals = fs[i].locals
    BY <2>1 DEF Grown
  <2> HIDE DEF G
  <2>3. Chain(gs) /\ GrownAll(gs, fs)
    BY <2>1, ChainReplace
  <2>4. Len(gs) = Len(fs) /\ gs[i] = G /\ \A k \in 1..Len(fs) : k # i => gs[k] = fs[k]
    BY <1>1
  <2> HIDE DEF gs
  <2>5. <<"ParentLocal", l.reg>> \in {"ParentLocal", "Outer"} \X Nat
    BY <1>3
  <2>6. Linking(Handing(name, <<"ParentLocal", l.reg>>), gs[i])
    <3>1. LocalOf(G, name) = p
      BY <2>2 DEF LocalOf
    <3>2. p # 0
      BY <1>2
    <3> HIDE DEF p
    <3>3. G.locals[p].reg = l.reg
      BY <2>2
    <3> QED
      BY <2>4, <3>1, <3>2, <3>3 DEF Linking, Handing
  <2>7. \A k \in 1..Len(gs) : k > i => LocalOf(gs[k], name) = 0
    <3>1. ASSUME NEW k \in 1..Len(gs), k > i PROVE LocalOf(gs[k], name) = 0
      <4>1. k \in 1..Len(fs) /\ k # i
        BY <2>4, <3>1
      <4> QED
        BY <2>4, <3>1, <4>1
    <3> QED
      BY <3>1
  <2>8. i \in 1..Len(gs)
    BY <2>4
  <2> HIDE DEF l
  <2>9. Chain(hs) /\ GrownAll(hs, gs)
    BY <2>3, <2>5, <2>6, <2>7, <2>8, ThreadedChain
  <2>10. GrownAll(hs, fs)
    BY <2>3, <2>9, GrownAllTrans
  <2>11. FoundLocal(fs, i, name, l) = Found(hs, "UpValue", Len(Top(hs).upvalues) - 1, l.attr)
    BY <1>5 DEF FoundLocal, Handed, gs, G
  <2> QED
    BY <2>9, <2>10, <2>11, SeenUpValue DEF l, p
<1> QED
  BY <1>4, <1>5

\* A variable found as an upvalue of an enclosing function is handed inwards.
LEMMA FoundUpValueSeen ==
  ASSUME NEW fs, Chain(fs), NEW i \in 1..Len(fs), NEW name \in AllNames, ~IsLocal(fs, i, name),
         UpValueOf(fs[i], name) # 0,
         \A k \in 1..Len(fs) : k > i => LocalOf(fs[k], name) = 0
  PROVE  Seen(FoundUpValue(fs, i, name, UpValueOf(fs[i], name) - 1), fs)
<1> DEFINE p == UpValueOf(fs[i], name)
           j == p - 1
           hs == Threaded(fs, i, name, <<"Outer", j>>)
<1>1. /\ fs[i] \in Fun /\ fs[i].upvalues \in Seq(UpValue) /\ Len(fs) \in Nat /\ Top(fs) = fs[Len(fs)]
  BY ChainFields, FunFields DEF Top
<1>2. p \in 1..Len(fs[i].upvalues) /\ fs[i].upvalues[p].name = name
  <2>1. p \in 0..Len(fs[i].upvalues) /\ Len(fs[i].upvalues) \in Nat
    BY <1>1, UpValueOfFirst, FunFields
  <2> QED
    BY <1>1, <2>1, UpValueOfFirst
<1> HIDE DEF p
<1>3. j \in Nat /\ j + 1 = p
  BY <1>2
<1>4. LocalOf(fs[i], name) = 0
  BY DEF IsLocal
<1>5. GrownAll(fs, fs)
  BY GrownAllSelf
<1> HIDE DEF j
<1>6. CASE i = Len(fs)
  <2>1. FoundUpValue(fs, i, name, j) = Found(fs, "UpValue", j, "none")
    BY <1>6 DEF FoundUpValue
  <2> QED
    BY <1>5, <2>1, SeenUpValue DEF j, p
<1>7. CASE i # Len(fs)
  <2>1. <<"Outer", j>> \in {"ParentLocal", "Outer"} \X Nat
    BY <1>3
  <2>2. Linking(Handing(name, <<"Outer", j>>), fs[i])
    BY <1>2, <1>3, <1>4 DEF Linking, Handing
  <2>3. Chain(hs) /\ GrownAll(hs, fs)
    BY <2>1, <2>2, ThreadedChain
  <2>4. FoundUpValue(fs, i, name, j) = Found(hs, "UpValue", Len(Top(hs).upvalues) - 1, "none")
    BY <1>7 DEF FoundUpValue, Handed
  <2> QED
    BY <2>3, <2>4, SeenUpValue DEF j, p
<1> QED
  BY <1>6, <1>7

\* find_variable
LEMMA FoundInSeen ==
  ASSUME NEW fs, Chain(fs), NEW i \in 1..Len(fs), NEW name \in AllNames,
         IsLocal(fs, i, name) \/ UpValueOf(fs[i], name) # 0,
         \A k \in 1..Len(fs) : k > i => LocalOf(fs[k], name) = 0
  PROVE  Seen(FoundIn(fs, i, name), fs)
<1>1. CASE IsLocal(fs, i, name)
  BY <1>1, FoundLocalSeen DEF FoundIn
<1>2. CASE ~IsLocal(fs, i, name)
  BY <1>2, FoundUpValueSeen DEF FoundIn
<1> QED
  BY <1>1, <1>2

\* The outermost function has the environment as its only upvalue.
LEMMA EnvironmentUpValue ==
  /\ Environment \in Seq(UpValue) /\ Len(Environment) = 1 /\ Environment[1].name = "_ENV"
  /\ Environment[1].desc[1] = "Environment"
<1> DEFINE u == [name |-> "_ENV", desc |-> <<"Environment", 0>>]
<1>1. u \in UpValue /\ u.name = "_ENV" /\ u.desc[1] = "Environment"
  BY DEF UpValue, AllNames
<1>2. Environment = << u >>
  BY DEF Environment
<1> HIDE DEF u
<1> QED
  BY <1>1, <1>2

\* find_variable keeps the chain linked, wherever it finds the name.
LEMMA FindSeen ==
  ASSUME NEW fs, Chain(fs), NEW name \in AllNames
  PROVE  Seen(find_variable(fs, name), fs)
<1> DEFINE known == {i \in 1..Len(fs) : IsLocal(fs, i, name) \/ UpValueOf(fs[i], name) # 0}
<1>1. Len(fs) \in Nat /\ 1 \in 1..Len(fs) /\ \A k \in 1..Len(fs) : fs[k] \in Fun
  BY ChainFields
<1>2. known \subseteq 0..Len(fs) /\ known \subseteq 1..Len(fs)
  BY <1>1
<1>3. \A k \in 1..Len(fs) : k \notin known => LocalOf(fs[k], name) = 0
  BY DEF IsLocal
<1>4. CASE known # {}
  <2> DEFINE i == Max(known)
  <2>1. i \in known /\ \A y \in known : y <= i
    BY <1>1, <1>2, <1>4, Bounds
  <2>2. i \in 1..Len(fs) /\ (IsLocal(fs, i, name) \/ UpValueOf(fs[i], name) # 0)
    BY <2>1
  <2> HIDE DEF i
  <2>3. \A k \in 1..Len(fs) : k > i => k \notin known
    <3> HIDE DEF known
    <3> QED
      BY <2>1, <2>2
  <2>4. \A k \in 1..Len(fs) : k > i => LocalOf(fs[k], name) = 0
    BY <1>3, <2>3
  <2>5. Seen(FoundIn(fs, i, name), fs)
    BY <2>2, <2>4, FoundInSeen
  <2> QED
    BY <1>4, <2>5 DEF find_variable, i
<1>5. CASE known = {} /\ name = "_ENV" /\ fs[1].upvalues = << >>
  <2> DEFINE G == [fs[1] EXCEPT !.upvalues = Environment]
             gs == [fs EXCEPT ![1] = G]
  <2>1. G \in Fun
    BY <1>1, EnvironmentUpValue, FunChange
  <2>2. /\ G.blocks = fs[1].blocks /\ G.alloc = fs[1].alloc /\ G.locals = fs[1].locals
        /\ G.targets = fs[1].targets /\ G.pending = fs[1].pending /\ G.ops = fs[1].ops
        /\ G.params = fs[1].params /\ G.ctx = fs[1].ctx /\ G.err = fs[1].err
        /\ G.upvalues = Environment
    BY <1>1, FunDomain DEF Fields
  <2> HIDE DEF G
  <2>3. Grown(G, fs[1])
    <3>1. Len(fs[1].upvalues) = 0
      BY <1>5
    <3> QED
      BY <1>1, <2>1, <2>2, <3>1, EnvironmentUpValue DEF Grown
  <2>4. FirstLinks(G)
    <3>1. \A j \in 1..Len(Environment) : j = 1
      BY EnvironmentUpValue
    <3> QED
      BY <2>2, <3>1, EnvironmentUpValue DEF FirstLinks
  <2>5. Chain(gs) /\ GrownAll(gs, fs)
    BY <1>1, <2>3, <2>4, ChainReplace
  <2>6. fs \in Seq(Fun)
    BY DEF Chain
  <2>7. Len(gs) = Len(fs) /\ gs[1] = G /\ \A k \in 1..Len(fs) : k # 1 => gs[k] = fs[k]
    BY <1>1, <2>6
  <2>8. [fs EXCEPT ![1].upvalues = Environment] = gs
    BY DEF G
  <2> HIDE DEF gs
  <2>9. UpValueOf(gs[1], name) # 0
    <3>1. G.upvalues \in Seq(UpValue) /\ 1 \in 1..Len(G.upvalues) /\ G.upvalues[1].name = name
      BY <1>5, <2>2, EnvironmentUpValue
    <3> QED
      BY <2>7, <3>1, UpValueOfFirst
  <2>10. \A k \in 1..Len(gs) : k > 1 => LocalOf(gs[k], name) = 0
    BY <1>3, <1>5, <2>7
  <2>11. Seen(FoundIn(gs, 1, name), gs)
    BY <1>1, <2>5, <2>7, <2>9, <2>10, FoundInSeen
  <2>12. Top(gs).locals = Top(fs).locals
    BY <1>1, <2>5 DEF GrownAll, Grown, Top
  <2>13. Seen(FoundIn(gs, 1, name), fs)
    BY <2>5, <2>11, <2>12, GrownAllTrans DEF Seen
  <2> QED
    BY <1>5, <2>8, <2>13 DEF find_variable
<1>6. CASE known = {} /\ ~(name = "_ENV" /\ fs[1].upvalues = << >>)
  <2>1. find_variable(fs, name) = Found(fs, "Global", 0, "none")
    BY <1>6 DEF find_variable
  <2> QED
    BY <2>1, GrownAllSelf, SeenUpValue
<1> QED
  BY <1>4, <1>5, <1>6

\* What was found after a first search was found from the start.
LEMMA SeenTrans ==
  ASSUME NEW fs, NEW gs, GrownAll(gs, fs), Len(fs) \in 1..Len(fs), NEW v, Seen(v, gs)
  PROVE  Seen(v, fs)
<1>1. Top(gs).locals = Top(fs).locals
  BY DEF GrownAll, Grown, Top
<1> QED
  BY <1>1, GrownAllTrans DEF Seen

IsFound(v) == \E f, k, i, a : v = Found(f, k, i, a)
\* find_variable answers with a local, an upvalue or a global.
LEMMA FindFound ==
  ASSUME NEW fs, NEW name
  PROVE  IsFound(find_variable(fs, name))
<1>1. \A f, k, i, a : IsFound(Found(f, k, i, a))
  BY DEF IsFound
<1>2. \A f, a : IsFound(Handed(f, a))
  BY <1>1 DEF Handed
<1>3. \A f, i, l : IsFound(FoundLocal(f, i, name, l))
  BY <1>1, <1>2 DEF FoundLocal
<1>4. \A f, i, j : IsFound(FoundUpValue(f, i, name, j))
  BY <1>1, <1>2 DEF FoundUpValue
<1>5. \A f, i : IsFound(FoundIn(f, i, name))
  BY <1>3, <1>4 DEF FoundIn
<1> QED
  BY <1>1, <1>5 DEF find_variable

\* So does a reference to a name, with _ENV looked up for a global.
LEMMA ReferenceSeen ==
  ASSUME NEW fs, Chain(fs), NEW name \in Names
  PROVE  Seen(Reference(fs, name), fs)
<1> DEFINE v == find_variable(fs, name)
           w == find_variable(v.fns, "_ENV")
           x == [w EXCEPT !.attr = "none"]
<1>1. Seen(v, fs)
  BY FindSeen DEF AllNames
<1> HIDE DEF v
<1>2. Chain(v.fns) /\ GrownAll(v.fns, fs)
  BY <1>1 DEF Seen
<1>3. Seen(w, v.fns)
  BY <1>2, FindSeen DEF AllNames
<1>4. Seen(w, fs)
  BY <1>2, <1>3, ChainFields, SeenTrans
<1>5. x.fns = w.fns /\ x.kind = w.kind /\ x.index = w.index
  <2>1. \A f, k, i, a, b : LET r == [Found(f, k, i, a) EXCEPT !.attr = b]
                           IN r.fns = f /\ r.kind = k /\ r.index = i
    BY DEF Found
  <2>2. \E f, k, i, a : w = Found(f, k, i, a)
    BY FindFound DEF IsFound
  <2> HIDE DEF w
  <2>3. PICK f, k, i, a : w = Found(f, k, i, a)
    BY <2>2
  <2>4. w.fns = f /\ w.kind = k /\ w.index = i
    BY <2>3 DEF Found
  <2> QED
    BY <2>1, <2>3, <2>4
<1> HIDE DEF w
<1>6. Seen(x, fs)
  BY <1>4, <1>5 DEF Seen
<1> HIDE DEF x
<1> QED
  BY <1>1, <1>6 DEF Reference, OrEnvironment, v, x, w

-----------------------------------------------------------------------------
(* Statements that use names. *)

\* What it means to be compiling, spelled out.
LEMMA CompilingFields ==
  ASSUME NEW fs, Compiling(fs)
  PROVE  /\ Chain(fs) /\ Sound(Top(fs)) /\ Top(fs) = fs[Len(fs)] /\ Len(fs) \in Nat /\ Len(fs) > 0
         /\ fs \in Seq(Fun) /\ fs # << >> /\ Len(fs) \in 1..Len(fs)
<1>1. fs \in Seq(Fun) /\ Len(fs) \in 1..MaxFunctions
  BY DEF Compiling
<1>2. fs # << >> /\ Len(fs) \in Nat /\ Len(fs) > 0
  BY <1>1
<1>3. Len(fs) \in 1..Len(fs)
  BY <1>2
<1> QED
  BY <1>1, <1>2, <1>3 DEF Compiling, Chain, Top

\* Functions that have grown are still sound and linked.
LEMMA GrownCompiling ==
  ASSUME NEW fs, Compiling(fs), NEW gs, Chain(gs), GrownAll(gs, fs)
  PROVE  Compiling(gs)
<1> DEFINE n == Len(fs)
<1>1. n \in 1..MaxFunctions /\ n \in Nat /\ Len(gs) = n /\ \A k \in 1..n : Grown(gs[k], fs[k])
  BY DEF Compiling, GrownAll
<1> HIDE DEF n
<1>2. \A k \in 1..n : Sound(gs[k])
  BY <1>1, GrownSound DEF Compiling, n
<1>3. Dests(gs)
  <2>1. gs[1].ctx[1].k = "chunk"
    BY <1>1 DEF Compiling, Dests, Grown
  <2>2. ASSUME NEW k \in 2..n, gs[k].ctx[1].k = "localfunction"
        PROVE  gs[k].ctx[1].dest \in RegsOf(gs[k - 1].locals)
    <3>1. fs[k].ctx[1].k = "localfunction" => fs[k].ctx[1].dest \in RegsOf(fs[k - 1].locals)
      BY DEF Compiling, Dests, n
    <3>2. k \in 1..n /\ k - 1 \in 1..n
      BY <1>1
    <3>3. gs[k].ctx = fs[k].ctx /\ gs[k - 1].locals = fs[k - 1].locals
      BY <1>1, <3>2 DEF Grown
    <3> QED
      BY <2>2, <3>1, <3>3
  <2> QED
    BY <1>1, <2>1, <2>2 DEF Dests
<1> QED
  BY <1>1, <1>2, <1>3 DEF Compiling, Chain

\* The variable of a register that a name was found in.
LEMMA SeenVariable ==
  ASSUME NEW D, D.locals \in Seq(Local), Ordered(D.locals), NEW r, r \in RegsOf(D.locals)
  PROVE  r \in Regs /\ VariableIn(D, r) \in Variable
<1>1. PICK i \in 1..Len(D.locals) : r = D.locals[i].reg
  BY DEF RegsOf
<1>2. VariableIn(D, r) = D.locals[i].var
  BY <1>1, VariableInReg
<1> QED
  BY <1>1, <1>2, LocalFields

\* The local variables of a sound function are in the order of their registers.
LEMMA SoundLocals ==
  ASSUME NEW F, Sound(F)
  PROVE  F.locals \in Seq(Local) /\ Ordered(F.locals) /\ F \in Fun
  BY FunFields DEF Sound, Placed, Layout, LayoutTo

\* The functions after a name was looked for, and the variable, if it is a local one.
LEMMA SeenTop ==
  ASSUME NEW fs, Compiling(fs), NEW v, Seen(v, fs)
  PROVE  /\ Compiling(v.fns) /\ Sound(Top(v.fns)) /\ Grown(Top(v.fns), Top(fs))
         /\ Sound(Done(Top(v.fns))) /\ Heir(Done(Top(v.fns)), Top(v.fns))
         /\ v.kind = "Local" => /\ v.index \in Regs
                                /\ VariableIn(Done(Top(v.fns)), v.index) \in Variable
<1> DEFINE F == Top(fs)
           G == Top(v.fns)
           D == Done(G)
<1>1. Compiling(v.fns) /\ GrownAll(v.fns, fs)
  BY GrownCompiling DEF Seen
<1>2. Sound(G)
  BY <1>1, CompilingFields
<1>3. Grown(G, F)
  BY <1>1, CompilingFields DEF GrownAll
<1>4. Sound(D) /\ Heir(D, G) /\ D.locals = G.locals
  BY <1>2, DoneSound
<1> HIDE DEF D
<1>5. G.locals = F.locals
  BY <1>3 DEF Grown
<1>6. v.kind = "Local" => v.index \in RegsOf(D.locals)
  BY <1>4, <1>5 DEF Seen, RegsOf
<1>7. v.kind = "Local" => v.index \in Regs /\ VariableIn(D, v.index) \in Variable
  BY <1>4, <1>6, SeenVariable, SoundLocals
<1> QED
  BY <1>1, <1>2, <1>3, <1>4, <1>7 DEF D

\* Emitting the use of a variable keeps the invariant's parts.
LEMMA UseFollows ==
  ASSUME NEW F, Given(F), NEW r \in Regs, NEW x \in Variable
  PROVE  Follows(Emit(F, VarOp("Use", r, x)), F)
<1>1. VarOp("Use", r, x) \in VarInstr /\ VarOp("Use", r, x).offset = 0
  BY OpsTyped DEF VarKinds
<1> QED
  BY <1>1, PlainFollows

\* A function that follows a sound one without an error is sound.
LEMMA FollowsSound ==
  ASSUME NEW D, Sound(D), NEW F, Follows(F, D), F.err = "none"
  PROVE  Sound(F) /\ Heir(F, D)
<1>1. Settled(D)
  BY SoundStage DEF Settled
<1> QED
  BY <1>1, FollowsSettled DEF Settled

\* A variable is read.
LEMMA ReadSound ==
  ASSUME NEW fs, Compiling(fs), NEW v, Seen(v, fs)
  PROVE  Sound(Read(v)) /\ Heir(Read(v), Top(v.fns))
<1> DEFINE D == Done(Top(v.fns))
           F == Emit(D, VarOp("Use", v.index, VariableIn(D, v.index)))
<1>1. /\ Sound(D) /\ Heir(D, Top(v.fns))
      /\ v.kind = "Local" => v.index \in Regs /\ VariableIn(D, v.index) \in Variable
  BY SeenTop
<1> HIDE DEF D
<1>2. CASE v.kind = "Local"
  <2>1. Given(D) /\ D.err = "none" /\ HasErr(D)
    BY <1>1, SoundStage DEF Given
  <2>2. Follows(F, D)
    BY <1>1, <1>2, <2>1, UseFollows
  <2>3. F.err = "none"
    BY <2>1, EmitErr
  <2> HIDE DEF F
  <2>4. Sound(F) /\ Heir(F, D)
    BY <1>1, <2>2, <2>3, FollowsSound
  <2>5. Sound(F) /\ Heir(F, Top(v.fns))
    BY <1>1, <2>4, HeirTrans
  <2> QED
    BY <1>2, <2>5 DEF Read, F, D, VarOp
<1>3. CASE v.kind # "Local"
  BY <1>1, <1>3 DEF Read, D
<1> QED
  BY <1>2, <1>3

\* name(): the function is pushed, called and popped.
LEMMA CallTurns ==
  ASSUME NEW F, Sound(F), NEW r, r = F.alloc.stack_top
  PROVE  Turns(FreeReg(Emit(PushRegs(F, 1), [Op("Temp") EXCEPT !.reg = r]), r), F)
<1> DEFINE P == PushRegs(F, 1)
           op == RegOp("Temp", r)
           G == FreeReg(Emit(P, op), r)
           hidden == HiddenIn(F.ctx)
           m == Len(F.blocks)
<1>1. Stage(F, F, hidden, m) /\ Start(F, hidden, m) /\ Rooted(F) /\ F \in Fun /\ Nested(F)
  BY SoundStage DEF Start
<1>2. Raised(P, F, hidden, m, r)
  BY <1>1, RaisedPush
<1>3. Given(P) /\ (P.err = "none" => r \in Regs)
  BY <1>2 DEF Raised
<1>4. P.err = "none" => op \in VarInstr /\ op.offset = 0
  <2>1. "Temp" \in VarKinds /\ <<0, 0>> \in Variable
    BY VariableOf DEF VarKinds
  <2>2. ASSUME r \in Regs PROVE op \in VarInstr /\ op.offset = 0
    BY <2>1, <2>2, OpsTyped
  <2> QED
    BY <1>3, <2>2
<1> HIDE DEF P, op
<1>5. Follows(Emit(P, op), P)
  BY <1>3, <1>4, EmitPlain
<1>6. Raised(Emit(P, op), F, hidden, m, r)
  BY <1>1, <1>2, <1>5, RaisedFollows
<1>7. \A i \in 1..m : F.blocks[i].stack_bottom <= r
  BY <1>1 DEF Nested, Within
<1>8. Stage(G, F, hidden, m)
  BY <1>1, <1>6, <1>7, RaisedFree
<1> HIDE DEF G
<1>9. Settled(G) /\ (G.err = "none" => Heir(G, F))
  BY <1>1, <1>8, StageSettled
<1> QED
  BY <1>9 DEF Turns, G, P, op, RegOp

\* name = ...
LEMMA AssignTurns ==
  ASSUME NEW fs, Compiling(fs), NEW v, Seen(v, fs)
  PROVE  LET F == Assigned(v, Done(Top(v.fns)))
         IN /\ v.kind = "Local" =>
                 Turns(Emit(F, VarOp("Use", v.index, VariableIn(F, v.index))), Top(v.fns))
            /\ Turns(Temporary(F, Op("SetUp")), Top(v.fns))
<1> DEFINE D == Done(Top(v.fns))
           F == Assigned(v, D)
           op == VarOp("Use", v.index, VariableIn(F, v.index))
<1>1. /\ Sound(D) /\ Heir(D, Top(v.fns))
      /\ v.kind = "Local" => v.index \in Regs /\ VariableIn(D, v.index) \in Variable
  BY SeenTop
<1> HIDE DEF D
<1>2. D \in Fun /\ HasErr(D) /\ "AssignToConst" \in Errors
  BY <1>1, SoundStage DEF Given, Errors
<1>3. F.locals = D.locals
  BY <1>2, FunDomain DEF Assigned, Fail, Fields
<1>4. Turns(F, Top(v.fns))
  <2>1. CASE v.attr = "const"
    BY <1>2, <2>1, FailFollows, FailedTurns DEF Assigned
  <2>2. CASE v.attr # "const"
    BY <1>1, <2>2, SoundTurns DEF Assigned
  <2> QED
    BY <2>1, <2>2
<1>5. Given(F)
  BY <1>4 DEF Turns, Settled
<1>6. VariableIn(F, v.index) = VariableIn(D, v.index)
  BY <1>3 DEF VariableIn
<1> HIDE DEF F
<1>7. ASSUME v.kind = "Local" PROVE Turns(Emit(F, op), Top(v.fns))
  <2>1. v.index \in Regs /\ VariableIn(F, v.index) \in Variable
    BY <1>1, <1>6, <1>7
  <2>2. Follows(Emit(F, op), F)
    BY <1>5, <2>1, UseFollows
  <2> QED
    BY <1>4, <2>2, FollowsTurns
<1>8. Turns(Temporary(F, Op("SetUp")), Top(v.fns))
  <2>1. Op("SetUp") \in VarInstr /\ Op("SetUp").offset = 0
    BY OpInstr DEF VarKinds
  <2>2. Follows(Temporary(F, Op("SetUp")), F)
    BY <1>5, <2>1, TemporaryFollows
  <2> QED
    BY <1>4, <2>2, FollowsTurns
<1> QED
  BY <1>7, <1>8 DEF F, D, op, VarOp

-----------------------------------------------------------------------------
(* Functions are finished. *)

Final == [k |-> "Return", start |-> 0, count |-> 0]

\* What freeing registers leaves alone.
Parts(G, F) ==
  /\ DOMAIN G = Fields /\ HasErr(G)
  /\ G.ops = F.ops /\ G.upvalues = F.upvalues /\ G.params = F.params

\* An error keeps code and upvalues.
LEMMA FailParts ==
  ASSUME NEW G, NEW F, Parts(G, F), NEW e \in Errors
  PROVE  Parts(Fail(G, e), F) /\ Fail(G, e).err # "none"
<1>1. HasErr(Fail(G, e)) /\ Fail(G, e).err # "none"
  BY FailFollows DEF Parts
<1> QED
  BY <1>1 DEF Parts, Fail, Fields

\* Freeing a register keeps code and upvalues.
LEMMA FreeRegParts ==
  ASSUME NEW G, NEW F, Parts(G, F), NEW r
  PROVE  Parts(FreeReg(G, r), F)
<1>1. HasErr(FreeReg(G, r))
  BY FreeRegErr DEF Parts
<1> QED
  BY <1>1 DEF Parts, FreeReg, Fail, Fields

\* Freeing any number of registers keeps code and upvalues.
LEMMA FreeAllParts ==
  ASSUME NEW F, NEW G, Parts(G, F), NEW ls, Len(ls) \in Nat
  PROVE  Parts(FreeAll(G, ls), F)
<1>0. PICK f : Freeing(G, ls, Len(ls), f)
  BY FreeAllSteps
<1>1. /\ f[0] = G /\ FreeAll(G, ls) = f[Len(ls)]
      /\ \A i \in 1..Len(ls) : f[i] = FreeReg(f[i - 1], ls[i].reg)
  BY <1>0 DEF Freeing
<1> DEFINE Bad == {i \in Nat : i <= Len(ls) /\ ~Parts(f[i], F)}
<1>2. 0 \notin Bad
  BY <1>1
<1>3. ASSUME NEW i \in Nat, i \notin Bad PROVE i + 1 \notin Bad
  <2> SUFFICES ASSUME i + 1 <= Len(ls) PROVE Parts(f[i + 1], F)
    OBVIOUS
  <2>1. Parts(f[i], F) /\ i + 1 \in 1..Len(ls) /\ (i + 1) - 1 = i
    BY <1>3
  <2>2. f[i + 1] = FreeReg(f[i], ls[i + 1].reg)
    BY <1>1, <2>1
  <2> QED
    BY <2>1, <2>2, FreeRegParts
<1>4. Bad = {}
  <2>1. Bad \in SUBSET Nat
    OBVIOUS
  <2>2. \A m \in Nat : m \notin Bad => m + 1 \notin Bad
    BY <1>3
  <2> HIDE DEF Bad
  <2> QED
    BY <1>2, <2>1, <2>2, Ascent
<1>5. Parts(f[Len(ls)], F)
  BY <1>4
<1> QED
  BY <1>1, <1>5

\* Code that leads nowhere else, with the final return appended, is done.
LEMMA FinalCode ==
  ASSUME NEW s \in Seq(Instr), \A n \in 1..Len(s) : n + s[n].offset \in 0..Len(s)
  PROVE  DoneCode(Append(s, Final))
<1> DEFINE t == Append(s, Final)
           L == Len(s)
<1>1. Final \in DoneInstr /\ Final.k = "Return" /\ Instr \subseteq DoneInstr
  BY DEF Final, DoneInstr
<1>2. s \in Seq(DoneInstr) /\ L \in Nat
  BY <1>1
<1>3. t \in Seq(DoneInstr) /\ t # << >> /\ Len(t) = L + 1 /\ Top(t) = Final /\ t[L + 1] = Final
      /\ \A n \in 1..L : t[n] = s[n]
  BY <1>1, <1>2, PushElements
<1> HIDE DEF t
<1>4. ASSUME NEW n \in 1..Len(t), t[n].k # "Return" PROVE n + t[n].offset \in 0..Len(t)
  <2>1. n \in 1..L
    <3>1. n # L + 1
      BY <1>1, <1>3, <1>4
    <3> QED
      BY <1>2, <1>3, <3>1
  <2>2. t[n] = s[n] /\ n + s[n].offset \in 0..L
    BY <1>3, <2>1
  <2> HIDE DEF L
  <2> QED
    BY <1>2, <1>3, <2>2
<1> QED
  BY <1>1, <1>3, <1>4 DEF DoneCode, t

\* finish ends the code and leaves the upvalues as they are.
LEMMA FinishDone ==
  ASSUME NEW F, Given(F)
  PROVE  /\ HasErr(Finish(F))
         /\ Finish(F).err = "none" => /\ F.err = "none" /\ DoneCode(Finish(F).ops)
                                      /\ Finish(F).upvalues = F.upvalues /\ Finish(F).params = F.params
<1> DEFINE G == Emit(F, Final)
           H == FreeAll(G, G.locals)
<1>1. CASE F.err # "none"
  BY <1>1 DEF Finish, Given
<1>2. CASE F.err = "none"
  <2>1. F \in Fun /\ Coded(F) /\ F.locals \in Seq(Local) /\ Len(F.locals) \in Nat /\ F.ops \in Seq(Instr)
    BY <1>2, FunFields DEF Given, Ready
  <2>2. /\ DOMAIN G = Fields /\ G.ops = Append(F.ops, Final) /\ G.upvalues = F.upvalues
        /\ G.params = F.params /\ G.err = F.err /\ G.locals = F.locals
    BY <2>1, FunDomain DEF Emit, Fields
  <2>3. Parts(G, G) /\ Len(G.locals) \in Nat
    BY <1>2, <2>1, <2>2 DEF Parts, HasErr, Fields
  <2> HIDE DEF G
  <2>4. Parts(H, G)
    BY <2>3, FreeAllParts
  <2>5. "panic" \in Errors /\ "GotoInvalid" \in Errors
    BY DEF Errors
  <2>6. HasErr(F)
    BY DEF Given
  <2> HIDE DEF H
  <2>7. HasErr(Fail(F, "panic")) /\ Fail(F, "panic").err # "none"
    BY <2>5, <2>6, FailFollows
  <2>8. HasErr(Fail(H, "GotoInvalid")) /\ Fail(H, "GotoInvalid").err # "none"
    BY <2>4, <2>5, FailParts DEF Parts
  <2>9. Finish(F) \in {F, Fail(F, "panic"), Fail(H, "GotoInvalid"), H} /\ (Finish(F) = F => F = H)
    <3>1. Finish(F) \in {Fail(F, "panic"), Fail(H, "GotoInvalid"), H}
      BY <1>2 DEF Finish, H, G, Final
    <3>2. Fail(F, "panic") # F /\ Fail(H, "GotoInvalid") # F
      BY <1>2, <2>7, <2>8
    <3> QED
      BY <3>1, <3>2
  <2>10. DoneCode(H.ops) /\ H.upvalues = F.upvalues /\ H.params = F.params /\ HasErr(H)
    <3>1. DoneCode(Append(F.ops, Final))
      BY <2>1, FinalCode DEF Coded
    <3> QED
      BY <2>2, <2>4, <3>1 DEF Parts
  <2> QED
    BY <1>2, <2>7, <2>8, <2>9, <2>10
<1> QED
  BY <1>1, <1>2

\* The code of a function whose body is left.
LEMMA BodyDone ==
  ASSUME NEW F, Sound(F), Ending(Top(F.ctx)), Top(F.ctx).k \in Roots
  PROVE  LET P == Finish(ExitBlock(PopC(F)))
         IN HasErr(P) /\ (P.err = "none" => DoneCode(P.ops) /\ P.upvalues = F.upvalues)
<1> DEFINE c == Top(F.ctx)
           E == ExitBlock(PopC(F))
<1>1. OwnBlocks(c) = 1
  BY DEF OwnBlocks, Roots, Loops, Functions
<1>2. Closing(PopC(F), F, 1) /\ BlocksOf(c) = 1
  BY <1>1, ClosingStart
<1>3. Closing(E, F, 0)
  <2>1. 1 \in 1..BlocksOf(c) /\ 1 - 1 = 0
    BY <1>2
  <2>2. Closing(E, F, 1 - 1)
    BY <1>2, <2>1, ClosingExit
  <2> QED
    BY <2>1, <2>2
<1>4. Given(E)
  BY <1>3, ClosingGiven
<1>5. PopC(F).upvalues = F.upvalues
  BY StartPop
<1>6. E.err = "none" => E.upvalues = F.upvalues
  BY <1>3, <1>5 DEF Closing, Stage, Stands, From
<1> HIDE DEF E
<1>7. HasErr(Finish(E)) /\ (Finish(E).err = "none" => E.err = "none" /\ DoneCode(Finish(E).ops)
                                                        /\ Finish(E).upvalues = E.upvalues)
  BY <1>4, FinishDone
<1> QED
  BY <1>6, <1>7 DEF E

\* The closure captures variables of the function around it.
ClosureOp(caps) == [Op("Closure") EXCEPT !.caps = caps]
LocalClosureOp(caps, r, x) == [ClosureOp(caps) EXCEPT !.reg = r, !.var = x]
\* The instructions that make closures have their types.
LEMMA ClosureOps ==
  ASSUME NEW caps \in SUBSET (Regs \X Variable), NEW r \in Regs, NEW x \in Variable
  PROVE  /\ ClosureOp(caps) \in VarInstr /\ ClosureOp(caps).offset = 0
         /\ LocalClosureOp(caps, r, x) \in VarInstr /\ LocalClosureOp(caps, r, x).offset = 0
<1>1. Op("Closure") \in VarInstr /\ Op("Closure").offset = 0
  BY OpInstr DEF VarKinds
<1>2. ClosureOp(caps) \in VarInstr /\ ClosureOp(caps).offset = 0
  BY <1>1 DEF VarInstr, ClosureOp
<1>3. LocalClosureOp(caps, r, x) \in VarInstr /\ LocalClosureOp(caps, r, x).offset = 0
  BY <1>2 DEF VarInstr, LocalClosureOp
<1> QED
  BY <1>2, <1>3

\* What a closure captures are registers of the function that makes it.
LEMMA CapturedTyped ==
  ASSUME NEW F, Sound(F), NEW P, Links(P, F)
  PROVE  Captured(P, F) \subseteq Regs \X Variable
<1>1. F.locals \in Seq(Local) /\ Ordered(F.locals)
  BY SoundLocals
<1>2. ASSUME NEW i \in 1..Len(P.upvalues), P.upvalues[i].desc[1] = "ParentLocal"
      PROVE  <<P.upvalues[i].desc[2], VariableIn(F, P.upvalues[i].desc[2])>> \in Regs \X Variable
  <2> DEFINE u == P.upvalues[i]
             l == LocalOf(F, u.name)
  <2>1. Linking(u, F)
    BY DEF Links
  <2>2. l # 0 /\ u.desc[2] = F.locals[l].reg
    BY <1>2, <2>1 DEF Linking
  <2>3. l \in 0..Len(F.locals) /\ Len(F.locals) \in Nat
    BY <1>1, LocalOfLast
  <2>4. l \in 1..Len(F.locals)
    BY <2>2, <2>3
  <2>5. u.desc[2] \in RegsOf(F.locals)
    BY <2>2, <2>4 DEF RegsOf
  <2>6. u.desc[2] \in Regs /\ VariableIn(F, u.desc[2]) \in Variable
    BY <1>1, <2>5, SeenVariable
  <2> QED
    BY <2>6
<1> QED
  BY <1>2 DEF Captured

\* Making a closure, and storing it where its name lives, is a turn of the enclosing
\* function.
LEMMA MakeClosureTurns ==
  ASSUME NEW F, Sound(F), NEW P, Links(P, F), NEW c,
         c.k # "function" => c.dest \in RegsOf(F.locals)
  PROVE  Turns(MakeClosure(F, P, c), F)
<1> DEFINE caps == Captured(P, F)
           op == ClosureOp(caps)
           op2 == LocalClosureOp(caps, c.dest, VariableIn(F, c.dest))
<1>1. caps \in SUBSET (Regs \X Variable)
  BY CapturedTyped
<1>2. Given(F) /\ Turns(F, F)
  BY SoundStage, SoundTurns DEF Heir
<1> HIDE DEF caps
<1>3. CASE c.k = "function"
  <2>1. 0 \in Regs /\ <<0, 0>> \in Variable
    BY VariableOf, NumRegsAssumption DEF Regs
  <2>2. op \in VarInstr /\ op.offset = 0
    BY <1>1, <2>1, ClosureOps
  <2> HIDE DEF op
  <2>3. Follows(Temporary(F, op), F)
    BY <1>2, <2>2, TemporaryFollows
  <2>4. Turns(Temporary(F, op), F)
    BY <1>2, <2>3, FollowsTurns
  <2> QED
    BY <1>3, <2>4 DEF MakeClosure, op, ClosureOp, caps
<1>4. CASE c.k # "function"
  <2>1. c.dest \in Regs /\ VariableIn(F, c.dest) \in Variable
    BY <1>4, SoundLocals, SeenVariable
  <2>2. op2 \in VarInstr /\ op2.offset = 0
    BY <1>1, <2>1, ClosureOps
  <2> HIDE DEF op2
  <2>3. Follows(Emit(F, op2), F)
    BY <1>2, <2>2, PlainFollows
  <2>4. Turns(Emit(F, op2), F)
    BY <1>2, <2>3, FollowsTurns
  <2> QED
    BY <1>4, <2>4 DEF MakeClosure, op2, ClosureOp, LocalClosureOp, caps
<1> QED
  BY <1>3, <1>4

\* The functions around the innermost one.
LEMMA UpperCompiling ==
  ASSUME NEW fs, Compiling(fs), Len(fs) > 1
  PROVE  /\ Compiling(Pop(fs)) /\ Links(Top(fs), Top(Pop(fs))) /\ Sound(Top(Pop(fs)))
         /\ Top(fs).ctx[1].k = "localfunction" => Top(fs).ctx[1].dest \in RegsOf(Top(Pop(fs)).locals)
<1> DEFINE n == Len(fs)
           us == Pop(fs)
<1>1. /\ fs \in Seq(Fun) /\ fs # << >> /\ n \in Nat /\ n > 1 /\ n \in 1..MaxFunctions /\ Top(fs) = fs[n]
      /\ MaxFunctions \in Nat
  BY CompilingFields, CompilerAssumption DEF Compiling
<1>2. us \in Seq(Fun) /\ Len(us) = n - 1 /\ \A k \in 1..(n - 1) : us[k] = fs[k]
  BY <1>1, PopElements
<1>3. Top(us) = fs[n - 1] /\ n - 1 \in 1..(n - 1) /\ n \in 2..n /\ n - 1 \in 1..MaxFunctions
  BY <1>1, <1>2 DEF Top
<1> HIDE DEF us, n
<1>4. \A k \in 1..n : Sound(fs[k])
  BY DEF Compiling, n
<1>5. \A k \in 1..(n - 1) : k \in 1..n /\ Sound(us[k])
  BY <1>1, <1>2, <1>4
<1>6. FirstLinks(fs[1]) /\ (\A k \in 2..n : Links(fs[k], fs[k - 1])) /\ fs[1].ctx[1].k = "chunk"
      /\ \A k \in 2..n : fs[k].ctx[1].k = "localfunction" => fs[k].ctx[1].dest \in RegsOf(fs[k - 1].locals)
  BY DEF Compiling, Linked, Dests, n
<1>7. us[1] = fs[1] /\ \A k \in 2..(n - 1) : k \in 2..n /\ us[k] = fs[k] /\ us[k - 1] = fs[k - 1]
  <2>1. 1 \in 1..(n - 1) /\ \A k \in 2..(n - 1) : k \in 1..(n - 1) /\ k - 1 \in 1..(n - 1) /\ k \in 2..n
    BY <1>1
  <2> QED
    BY <1>2, <2>1
<1>8. Linked(us) /\ Dests(us)
  BY <1>2, <1>6, <1>7 DEF Linked, Dests
<1>9. Compiling(us)
  BY <1>2, <1>3, <1>5, <1>8 DEF Compiling
<1>10. Sound(Top(us))
  BY <1>3, <1>5, <1>2
<1> QED
  BY <1>1, <1>3, <1>6, <1>9, <1>10 DEF us

\* A nested function is closed.
LEMMA FunctionContext ==
  ASSUME NEW fs, Compiling(fs), Top(Top(fs).ctx).k \in Functions
  PROVE  Len(fs) > 1 /\ Top(Top(fs).ctx) = Top(fs).ctx[1]
<1> DEFINE F == Top(fs)
           c == Top(F.ctx)
<1>1. Sound(F) /\ F = fs[Len(fs)] /\ Len(fs) \in Nat /\ Len(fs) > 0
  BY CompilingFields
<1>2. F.ctx \in Seq(Context) /\ F.ctx # << >> /\ c = F.ctx[Len(F.ctx)] /\ Rooted(F)
  BY <1>1, TopContext DEF Sound
<1>3. Len(F.ctx) \in 1..Len(F.ctx)
  BY <1>2
<1>4. c.k \in Roots
  BY DEF Roots
<1>5. Len(F.ctx) = 1
  BY <1>2, <1>3, <1>4 DEF Rooted
<1>6. c = F.ctx[1]
  BY <1>2, <1>5
<1>7. Len(fs) # 1
  <2>1. ASSUME Len(fs) = 1 PROVE FALSE
    <3>1. F.ctx[1].k = "chunk"
      BY <1>1, <2>1 DEF Compiling, Dests
    <3> QED
      BY <1>6, <3>1 DEF Functions
  <2> QED
    BY <2>1
<1> HIDE DEF F, c
<1>8. Len(fs) > 1
  <2>1. \A L \in Nat : L > 0 /\ L # 1 => L > 1
    OBVIOUS
  <2> QED
    BY <1>1, <1>7, <2>1
<1> QED
  BY <1>6, <1>8 DEF F, c

\* The end of a function keeps the invariant: the function around it goes on.
LEMMA CloseFunctionKeeps ==
  ASSUME Compiling(fns), result = "compiling", CloseFunction
  PROVE  Keeps(fns', result')
<1> DEFINE P == Finish(ExitBlock(PopC(cur)))
           upper == Pop(fns)
<1>1. C.k \in Functions /\ Ending(C) /\ C = Top(cur.ctx) /\ Sound(cur)
  BY CompilingFields DEF CloseFunction, CanClose, Ending, Functions, C, cur
<1>2. HasErr(P) /\ (P.err = "none" => DoneCode(P.ops) /\ P.upvalues = cur.upvalues)
  <2>1. C.k \in Roots
    BY <1>1 DEF Roots
  <2> QED
    BY <1>1, <2>1, BodyDone
<1>3. Len(fns) > 1 /\ C = cur.ctx[1]
  BY <1>1, FunctionContext DEF C, cur
<1>4. /\ Compiling(upper) /\ Links(cur, Top(upper)) /\ Sound(Top(upper))
      /\ cur.ctx[1].k = "localfunction" => cur.ctx[1].dest \in RegsOf(Top(upper).locals)
  BY <1>3, UpperCompiling DEF cur
<1>5. CASE P.err # "none"
  <2>1. Commit(fns, P)
    BY <1>5 DEF CloseFunction
  <2> HIDE DEF P
  <2>2. Settled(P)
    BY <1>2, <1>5, FailedTurns DEF Turns
  <2> QED
    BY <1>5, <2>1, <2>2, CommitKeeps
<1>6. CASE P.err = "none"
  <2>1. Commit(upper, MakeClosure(Top(upper), P, C))
    BY <1>6 DEF CloseFunction
  <2> HIDE DEF P, upper
  <2>2. Links(P, Top(upper))
    BY <1>2, <1>4, <1>6 DEF Links
  <2>3. C.k # "function" => C.dest \in RegsOf(Top(upper).locals)
    BY <1>1, <1>3, <1>4 DEF Functions
  <2>4. Turns(MakeClosure(Top(upper), P, C), Top(upper))
    BY <1>4, <2>2, <2>3, MakeClosureTurns
  <2> QED
    BY <1>4, <2>1, <2>4, CommitKeeps DEF Turns
<1> QED
  BY <1>5, <1>6

-----------------------------------------------------------------------------
(* Functions are begun. *)

\* The empty sequence is a sequence of anything.
LEMMA EmptyTypes ==
  /\ << >> \in Seq(Local) /\ << >> \in Seq(UpValue) /\ << >> \in Seq(Block) /\ << >> \in Seq(Target)
  /\ << >> \in Seq(Pending) /\ << >> \in Seq(Instr) /\ << >> \in Seq(Context)
  OBVIOUS

\* No register of a new function is in use.
LEMMA FreshPacked == Fresh \in Alloc /\ Packed(Fresh)
  BY NumRegsAssumption DEF Fresh, Alloc, Packed, PackedTo

ParamLocals(params) ==
  [i \in 1..Len(params) |-> [name |-> params[i], reg |-> i - 1, attr |-> "none", var |-> <<-1, i - 1>>]]
\* The parameters are the first local variables, in the first registers.
LEMMA ParamLocalsTyped ==
  ASSUME NEW params \in Seq(Names), Len(params) < NumRegs
  PROVE  LET ls == ParamLocals(params) n == Len(params)
         IN /\ ls \in Seq(Local) /\ Len(ls) = n /\ n \in Nat /\ \A i \in 1..n : ls[i].reg = i - 1
<1> DEFINE n == Len(params)
           e(i) == [name |-> params[i], reg |-> i - 1, attr |-> "none", var |-> <<-1, i - 1>>]
<1>1. n \in Nat /\ n < NumRegs /\ \A i \in 1..n : params[i] \in Names
  OBVIOUS
<1> HIDE DEF n
<1>2. ASSUME NEW i \in 1..n PROVE e(i) \in Local /\ e(i).reg = i - 1
  <2>1. i - 1 \in Regs
    BY <1>1, NumRegsAssumption DEF Regs
  <2>2. <<-1, i - 1>> \in Variable
    BY VariableOf
  <2> QED
    BY <1>1, <2>1, <2>2 DEF Local
<1>3. ParamLocals(params) = [i \in 1..n |-> e(i)]
  BY DEF ParamLocals, n
<1> HIDE DEF e
<1>4. /\ [i \in 1..n |-> e(i)] \in Seq(Local) /\ Len([i \in 1..n |-> e(i)]) = n
      /\ \A i \in 1..n : [j \in 1..n |-> e(j)][i].reg = i - 1
  BY <1>1, <1>2
<1> QED
  BY <1>1, <1>3, <1>4 DEF n

\* The registers of the parameters are pushed in one go.
LEMMA ParamsAlloc ==
  ASSUME NEW n \in Nat, n < NumRegs
  PROVE  LET a == IF n = 0 THEN Fresh ELSE Push(Fresh, n)
         IN a \in Alloc /\ Packed(a) /\ a.stack_top = n
<1>1. Fresh \in Alloc /\ Packed(Fresh) /\ Fresh.stack_top = 0
  BY FreshPacked DEF Fresh
<1>2. CASE n = 0
  BY <1>1, <1>2
<1>3. CASE n # 0
  <2>1. CanPush(Fresh, n) /\ Fresh.stack_top + n = n
    BY <1>1, <1>3, NumRegsAssumption DEF CanPush
  <2>2. Push(Fresh, n) \in Alloc /\ Packed(Push(Fresh, n)) /\ Push(Fresh, n).stack_top = n
    BY <1>1, <2>1, PushPacked
  <2> QED
    BY <1>3, <2>2
<1> QED
  BY <1>2, <1>3

\* A new function has its parameters in registers and nothing else.
LEMMA NewFunctionFields ==
  ASSUME NEW params \in Seq(Names), Len(params) < NumRegs
  PROVE  LET F == NewFunction(params)
         IN /\ F \in Fun /\ F.alloc \in Alloc /\ Packed(F.alloc) /\ F.alloc.stack_top = Len(params)
            /\ F.locals = ParamLocals(params) /\ F.upvalues = << >> /\ F.blocks = << >>
            /\ F.targets = << >> /\ F.ops = << >> /\ F.ctx = << >> /\ F.err = "none"
<1> DEFINE n == Len(params)
           a == IF n = 0 THEN Fresh ELSE Push(Fresh, n)
           ls == ParamLocals(params)
<1>1. n \in Nat
  OBVIOUS
<1>2. a \in Alloc /\ Packed(a) /\ a.stack_top = n
  BY <1>1, ParamsAlloc
<1>3. ls \in Seq(Local)
  BY ParamLocalsTyped
<1>4. NewFunction(params) =
        [alloc |-> a, locals |-> ls, upvalues |-> << >>, blocks |-> << >>, targets |-> << >>,
         pending |-> << >>, ops |-> << >>, consts |-> << >>, next_label |-> 0, params |-> n,
         ctx |-> << >>, err |-> "none"]
  BY DEF NewFunction, ParamLocals
<1> HIDE DEF a, ls, n
<1>5. NewFunction(params) \in Fun
  BY <1>1, <1>2, <1>3, <1>4, EmptyTypes DEF Fun
<1> QED
  BY <1>2, <1>4, <1>5 DEF n, ls

\* A function that has its parameters, and no blocks yet.
LEMMA NewFunctionStarts ==
  ASSUME NEW params \in Seq(Names), Len(params) < NumRegs
  PROVE  LET F == NewFunction(params)
         IN Start(F, {}, 0) /\ F \in Fun /\ F.ctx = << >> /\ F.blocks = << >> /\ F.upvalues = << >>
            /\ F.err = "none" /\ F.alloc.stack_top = Len(params)
<1> DEFINE F == NewFunction(params)
           n == Len(params)
<1>1. /\ F \in Fun /\ F.alloc \in Alloc /\ Packed(F.alloc) /\ F.alloc.stack_top = n
      /\ F.locals = ParamLocals(params) /\ F.upvalues = << >> /\ F.blocks = << >>
      /\ F.targets = << >> /\ F.ops = << >> /\ F.ctx = << >> /\ F.err = "none"
  BY NewFunctionFields
<1>2. /\ F.locals \in Seq(Local) /\ Len(F.locals) = n /\ n \in Nat
      /\ \A i \in 1..n : F.locals[i].reg = i - 1
  BY <1>1, ParamLocalsTyped
<1> HIDE DEF F, n
<1>3. Ready(F)
  BY <1>1 DEF Ready, Coded
<1>4. Layout(F, {})
  <2>1. Ordered(F.locals)
    BY <1>2 DEF Ordered
  <2>2. RegsOf(F.locals) = 0..(n - 1)
    <3>1. ASSUME NEW r \in 0..(n - 1) PROVE r \in RegsOf(F.locals)
      <4>1. r + 1 \in 1..n
        BY <1>2
      <4>2. F.locals[r + 1].reg = r
        BY <1>2, <4>1
      <4> QED
        BY <1>2, <4>1, <4>2 DEF RegsOf
    <3>2. ASSUME NEW i \in 1..n PROVE F.locals[i].reg \in 0..(n - 1)
      BY <1>2
    <3> QED
      BY <1>2, <3>1, <3>2 DEF RegsOf
  <2> QED
    BY <1>1, <2>1, <2>2 DEF Layout, LayoutTo
<1>5. Nested(F) /\ Looped(F)
  BY <1>1 DEF Nested, Looped
<1>6. Fits(F.ctx, F.blocks, 0)
  <2>1. ASSUME NEW bs \in Seq(Block), Len(bs) = 0 PROVE Shaped(<< >>, bs)
    <3> DEFINE d == [i \in 0..0 |-> 0]
    <3>1. d \in [0..Len(<< >>) -> 0..Len(bs)] /\ Shape(<< >>, bs, d)
      BY <2>1 DEF Shape
    <3> QED
      BY <3>1 DEF Shaped
  <2> QED
    BY <1>1, <2>1 DEF Fits
<1> QED
  BY <1>1, <1>3, <1>4, <1>5, <1>6 DEF Start, F, n

\* With its body opened, a new function is sound.
LEMMA BodyOpens ==
  ASSUME NEW params \in Seq(Names), Len(params) < NumRegs, NEW c \in Context, c.k \in Roots,
         c.phase = "body", c.prep = 0
  PROVE  LET H == OpenBody(EnterBlock(NewFunction(params)), c)
         IN Sound(H) /\ H.ctx = << c >> /\ H.upvalues = << >> /\ H.err = "none"
<1> DEFINE F == NewFunction(params)
           G == EnterBlock(F)
           H == OpenBody(G, c)
<1>1. /\ Start(F, {}, 0) /\ F \in Fun /\ F.ctx = << >> /\ F.blocks = << >> /\ F.upvalues = << >>
      /\ F.err = "none"
  BY NewFunctionStarts
<1> HIDE DEF F
<1>2. Stage(F, F, {}, 0)
  <2>1. Ready(F) /\ Layout(F, {}) /\ Nested(F) /\ Len(F.blocks) = 0
    BY <1>1 DEF Start
  <2> QED
    BY <2>1, StageStart
<1>3. Stage(G, F, {}, 1) /\ G.err = "none"
  <2>1. 0 >= Len(F.blocks) /\ 0 + 1 = 1
    BY <1>1
  <2>2. Stage(G, F, {}, 0 + 1) /\ G.err = F.err
    BY <1>1, <1>2, <2>1, StageEnter
  <2> QED
    BY <1>1, <2>1, <2>2
<1> HIDE DEF G
<1>4. /\ HiddenIn(F.ctx) \cup Hidden(c) = {} /\ 0 + OwnBlocks(c) = 1 /\ CanHold(F, c)
      /\ c.k \notin Loops
  BY <1>1 DEF HiddenIn, Hidden, OwnBlocks, CanHold, Roots, Loops, Functions
<1>5. Stage(G, F, HiddenIn(F.ctx) \cup Hidden(c), 0 + OwnBlocks(c))
  BY <1>3, <1>4
<1>6. G.err = "none" => /\ c.prep <= Len(G.ops) /\ LoopAt(c, G.blocks, 0)
                        /\ c.k \in Loops => c.base + 3 \in Regs
  <2>1. G \in Fun
    BY <1>3 DEF Stage, Given, Ready
  <2>2. 0 <= Len(G.ops)
    BY <2>1, FunFields
  <2> QED
    BY <1>4, <2>2 DEF LoopAt
<1>7. 0 = Len(F.blocks)
  BY <1>1
<1>8. /\ Settled(H) /\ H.err = G.err
      /\ H.err = "none" => /\ H.upvalues = F.upvalues
                           /\ IF F.ctx = << >> THEN H.ctx = <<c>> ELSE Heir(H, F)
  <2>1. PICK hidden, m : /\ Start(F, hidden, m) /\ m = Len(F.blocks)
                         /\ Stage(G, F, HiddenIn(F.ctx) \cup Hidden(c), m + OwnBlocks(c))
                         /\ G.err = "none" => /\ c.prep <= Len(G.ops) /\ LoopAt(c, G.blocks, m)
                                              /\ c.k \in Loops => c.base + 3 \in Regs
    BY <1>1, <1>5, <1>6, <1>7, Zenon
  <2>2. c.phase = "body" /\ CanHold(F, c)
    BY <1>4
  <2>3. OpenedWell(OpenBody(G, c), G, F, c)
    BY <2>1, <2>2, Opened
  <2> QED
    BY <2>3 DEF OpenedWell, H
<1> HIDE DEF H
<1>9. Sound(H) /\ H.ctx = << c >> /\ H.upvalues = << >> /\ H.err = "none"
  BY <1>1, <1>3, <1>8 DEF Settled
<1> QED
  BY <1>9 DEF H, G, F

\* A function is begun inside the others.
LEMMA Inside ==
  ASSUME NEW fs, Compiling(fs), Len(fs) < MaxFunctions, NEW H, Sound(H), NEW c, H.ctx = << c >>,
         H.upvalues = << >>, c.k = "localfunction" => c.dest \in RegsOf(Top(fs).locals)
  PROVE  Compiling(Append(fs, H))
<1> DEFINE n == Len(fs)
           gs == Append(fs, H)
<1>1. fs \in Seq(Fun) /\ n \in Nat /\ n > 0 /\ n \in 1..MaxFunctions /\ Top(fs) = fs[n] /\ MaxFunctions \in Nat
  BY CompilingFields, CompilerAssumption DEF Compiling
<1>2. H \in Fun
  BY DEF Sound, Placed
<1>3. gs \in Seq(Fun) /\ Len(gs) = n + 1 /\ gs[n + 1] = H /\ \A k \in 1..n : gs[k] = fs[k]
  BY <1>1, <1>2
<1> HIDE DEF gs
<1>4. n + 1 \in 1..MaxFunctions /\ 1 \in 1..n /\ \A k \in 2..(n + 1) : k # n + 1 => k \in 2..n /\ k \in 1..n /\ k - 1 \in 1..n
  BY <1>1
<1> HIDE DEF n
<1>5. /\ \A k \in 1..n : Sound(fs[k])
      /\ FirstLinks(fs[1]) /\ (\A k \in 2..n : Links(fs[k], fs[k - 1])) /\ fs[1].ctx[1].k = "chunk"
      /\ \A k \in 2..n : fs[k].ctx[1].k = "localfunction" => fs[k].ctx[1].dest \in RegsOf(fs[k - 1].locals)
  BY DEF Compiling, Linked, Dests, n
<1>6. ASSUME NEW k \in 1..(n + 1) PROVE Sound(gs[k])
  <2>1. CASE k = n + 1
    BY <1>3, <2>1
  <2>2. CASE k # n + 1
    <3>1. k \in 1..n
      BY <1>1, <2>2
    <3> QED
      BY <1>3, <1>5, <3>1
  <2> QED
    BY <2>1, <2>2
<1>7. ASSUME NEW k \in 2..(n + 1)
      PROVE  /\ Links(gs[k], gs[k - 1])
             /\ gs[k].ctx[1].k = "localfunction" => gs[k].ctx[1].dest \in RegsOf(gs[k - 1].locals)
  <2>1. CASE k = n + 1
    <3>1. gs[k] = H /\ k - 1 = n /\ n \in 1..n
      BY <1>1, <1>3, <2>1
    <3>2. gs[k - 1] = Top(fs)
      BY <1>1, <1>3, <3>1
    <3>3. Links(H, gs[k - 1])
      BY DEF Links
    <3>4. H.ctx[1] = c
      OBVIOUS
    <3> QED
      BY <3>1, <3>2, <3>3, <3>4
  <2>2. CASE k # n + 1
    <3>1. k \in 2..n /\ gs[k] = fs[k] /\ gs[k - 1] = fs[k - 1]
      BY <1>3, <1>4, <2>2
    <3> QED
      BY <1>5, <3>1
  <2> QED
    BY <2>1, <2>2
<1>8. gs[1] = fs[1]
  BY <1>3, <1>4
<1>9. Linked(gs) /\ Dests(gs)
  BY <1>3, <1>5, <1>7, <1>8 DEF Linked, Dests
<1>10. Compiling(gs)
  BY <1>3, <1>4, <1>6, <1>9 DEF Compiling
<1> QED
  BY <1>10 DEF gs

\* The variable of a local function.
LEMMA FunctionVariable ==
  ASSUME NEW D, Sound(D), NEW name \in Names, NEW r, r = D.alloc.stack_top, NEW x \in Int
  PROVE  LET F == AddLocal(PushRegs(D, 1), name, "none", r, <<x, r>>)
         IN Turns(F, D) /\ (F.err = "none" => r \in RegsOf(F.locals) /\ r \in Regs)
<1> DEFINE P == PushRegs(D, 1)
           var == <<x, r>>
           F == AddLocal(P, name, "none", r, var)
           hidden == HiddenIn(D.ctx)
           m == Len(D.blocks)
<1>1. Stage(D, D, hidden, m) /\ Start(D, hidden, m) /\ Rooted(D) /\ D \in Fun
  BY SoundStage
<1>2. Raised(P, D, hidden, m, r)
  BY <1>1, RaisedPush
<1>3. var \in Variable
  <2>1. r \in Int
    BY <1>1, FunFields
  <2> QED
    BY <2>1, VariableOf
<1>4. P.err = "none" => r \in Regs
  BY <1>2 DEF Raised
<1> HIDE DEF P, var
<1>5. Stage(F, D, hidden, m) /\ F.err = P.err /\ (F.err = "none" => r \in RegsOf(F.locals))
  <2>1. "none" \in {"none", "const"}
    OBVIOUS
  <2> QED
    BY <1>1, <1>2, <1>3, <2>1, RaisedAdd
<1> HIDE DEF F
<1>6. Settled(F) /\ (F.err = "none" => Heir(F, D))
  BY <1>1, <1>5, StageSettled
<1>7. Turns(F, D) /\ (F.err = "none" => r \in RegsOf(F.locals) /\ r \in Regs)
  BY <1>4, <1>5, <1>6 DEF Turns
<1> QED
  BY <1>7 DEF F, P, var

\* What a function that is begun keeps in mind.
NamedConstruct(k, ret, name, dest) == [Construct(k, ret) EXCEPT !.name = name, !.dest = dest]
\* A function's construct has its type, name and destination.
LEMMA NamedIn ==
  ASSUME NEW k \in Kinds, NEW ret \in BOOLEAN, NEW name \in Names, NEW dest \in {None} \cup Regs
  PROVE  LET c == NamedConstruct(k, ret, name, dest)
         IN c \in Context /\ c.k = k /\ c.phase = "body" /\ c.prep = 0 /\ c.dest = dest
<1> DEFINE new == Construct(k, ret)
<1>1. new \in Context /\ new.k = k /\ new.phase = "body" /\ new.prep = 0
  BY ConstructIn
<1> HIDE DEF new
<1>2. LET c == [new EXCEPT !.name = name, !.dest = dest]
      IN c \in Context /\ c.k = new.k /\ c.phase = new.phase /\ c.prep = new.prep /\ c.dest = dest
  BY <1>1 DEF Context
<1> QED
  BY <1>1, <1>2 DEF NamedConstruct, new

\* The start of a function keeps the invariant.
LEMMA OpenFunctionKeeps ==
  ASSUME Compiling(fns), result = "compiling",
         NEW k \in Functions, NEW name \in Names, NEW params \in ParamLists, NEW ret \in BOOLEAN,
         OpenFunction(k, name, params, ret)
  PROVE  Keeps(fns', result')
<1> DEFINE r == cur.alloc.stack_top
           D == Done(cur)
           F == IF k = "function" THEN D ELSE AddLocal(PushRegs(D, 1), name, "none", r, <<Here(cur), r>>)
           dest == IF k = "function" THEN None ELSE r
           c == NamedConstruct(k, ret, name, dest)
           H == OpenBody(EnterBlock(NewFunction(params)), c)
           us == Append(Pop(fns), F)
<1>1. /\ Len(fns) < MaxFunctions /\ result' = (IF F.err = "none" THEN result ELSE F.err)
      /\ fns' = Append(us, H)
  BY DEF OpenFunction, NamedConstruct
<1>2. Sound(cur) /\ Sound(D) /\ Heir(D, cur) /\ D.alloc = cur.alloc
  BY CompilingFields, DoneSound DEF cur
<1>3. Here(cur) \in Int
  BY <1>2, SoundLocals, FunFields DEF Here
<1>4. /\ Turns(F, cur)
      /\ F.err = "none" => dest \in {None} \cup Regs /\ (k = "localfunction" => dest \in RegsOf(F.locals))
  <2>1. CASE k = "function"
    <3>1. F = D /\ dest = None
      BY <2>1
    <3> QED
      BY <1>2, <2>1, <3>1, SoundTurns
  <2>2. CASE k = "localfunction"
    <3> DEFINE E == AddLocal(PushRegs(D, 1), name, "none", r, <<Here(cur), r>>)
    <3>1. F = E /\ dest = r
      BY <2>2
    <3>2. Turns(E, D) /\ (E.err = "none" => r \in RegsOf(E.locals) /\ r \in Regs)
      BY <1>2, <1>3, FunctionVariable
    <3> HIDE DEF E, D
    <3>3. Turns(E, cur)
      BY <1>2, <3>2, TurnsTrans
    <3> QED
      BY <3>1, <3>2, <3>3
  <2> QED
    BY <2>1, <2>2 DEF Functions
<1> HIDE DEF D, F, dest
<1>5. /\ fns \in Seq(Fun) /\ fns # << >> /\ Len(fns) \in Nat /\ Len(fns) > 0 /\ MaxFunctions \in Nat
      /\ Pop(fns) \in Seq(Fun) /\ Len(Pop(fns)) = Len(fns) - 1
  BY CompilingFields, PopElements, CompilerAssumption
<1>6. F.err \in {"none"} \cup Errors
  BY <1>4 DEF Turns, Settled, Given, HasErr
<1>7. "compiling" \notin Errors /\ "ok" \notin Errors /\ "none" \notin Errors
  BY DEF Errors
<1>8. Len(fns') \in 0..MaxFunctions
  <2>1. Len(us) = Len(fns)
    <3>1. Len(us) = Len(Pop(fns)) + 1
      BY <1>5
    <3> QED
      BY <1>5, <3>1
  <2>2. Len(Append(us, H)) = Len(us) + 1
    <3>1. \A S : \A s \in Seq(S) : \A e : Len(Append(s, e)) = Len(s) + 1
      OBVIOUS
    <3>2. us \in Seq(Fun \cup {F})
      BY <1>5
    <3> QED
      BY <3>1, <3>2
  <2> QED
    BY <1>1, <1>5, <2>1, <2>2
<1>9. CASE F.err # "none"
  BY <1>1, <1>6, <1>7, <1>8, <1>9 DEF Keeps
<1>10. CASE F.err = "none"
  <2>1. Compiling(us)
    BY <1>4, <1>10, Replaced DEF Turns, Settled, cur
  <2>2. params \in Seq(Names) /\ Len(params) < NumRegs
    BY CompilerAssumption
  <2>3. c \in Context /\ c.k = k /\ c.phase = "body" /\ c.prep = 0 /\ c.dest = dest
    <3>1. k \in Kinds /\ dest \in {None} \cup Regs
      BY <1>4, <1>10 DEF Kinds
    <3> QED
      BY <3>1, NamedIn
  <2> HIDE DEF c
  <2>4. Sound(H) /\ H.ctx = << c >> /\ H.upvalues = << >>
    BY <2>2, <2>3, BodyOpens DEF Roots
  <2> HIDE DEF H
  <2>5. Top(us) = F /\ Len(us) = Len(fns)
    <3>1. F \in Fun
      BY <1>4, <1>10 DEF Turns, Settled, Sound, Placed
    <3>2. Top(us) = F /\ Len(us) = Len(Pop(fns)) + 1
      BY <1>5, <3>1, PushElements
    <3> QED
      BY <1>5, <3>2
  <2>6. c.k = "localfunction" => c.dest \in RegsOf(Top(us).locals)
    BY <1>4, <1>10, <2>3, <2>5
  <2>7. Compiling(Append(us, H))
    BY <1>1, <2>1, <2>4, <2>5, <2>6, Inside
  <2> QED
    BY <1>1, <1>8, <1>10, <2>7 DEF Keeps
<1> QED
  BY <1>9, <1>10
-----------------------------------------------------------------------------
(* A whole function is compiled inside the others. *)

\* A function without constructs, in its blocks.
Bare(F, m) ==
  F \in Fun /\ Ready(F) /\ Layout(F, {}) /\ Nested(F) /\ Len(F.blocks) = m

\* The function of a capture starts with two blocks and no upvalue.
LEMMA CaptureStarts ==
  LET N == EnterBlock(EnterBlock(NewFunction(<< >>)))
  IN Bare(N, 2) /\ N.upvalues = << >>
<1> DEFINE F == NewFunction(<< >>)
           G == EnterBlock(F)
           N == EnterBlock(G)
<1>1. /\ Start(F, {}, 0) /\ F \in Fun /\ F.blocks = << >> /\ F.upvalues = << >> /\ F.err = "none"
  <2>1. << >> \in Seq(Names) /\ Len(<< >>) < NumRegs
    BY NumRegsAssumption
  <2> QED
    BY <2>1, NewFunctionStarts
<1> HIDE DEF F
<1>2. Stage(F, F, {}, 0)
  <2>1. Ready(F) /\ Layout(F, {}) /\ Nested(F) /\ Len(F.blocks) = 0
    BY <1>1 DEF Start
  <2> QED
    BY <2>1, StageStart
<1>3. Stage(G, F, {}, 1) /\ G.err = "none"
  <2>1. 0 >= Len(F.blocks) /\ 0 + 1 = 1
    BY <1>1
  <2>2. Stage(G, F, {}, 0 + 1) /\ G.err = F.err
    BY <1>1, <1>2, <2>1, StageEnter
  <2> QED
    BY <1>1, <2>1, <2>2
<1> HIDE DEF G
<1>4. Stage(N, F, {}, 2) /\ N.err = "none"
  <2>1. 1 >= Len(F.blocks) /\ 1 + 1 = 2
    BY <1>1
  <2>2. Stage(N, F, {}, 1 + 1) /\ N.err = G.err
    BY <1>1, <1>3, <2>1, StageEnter
  <2> QED
    BY <1>3, <2>1, <2>2
<1> HIDE DEF N
<1>5. Bare(N, 2) /\ N.upvalues = F.upvalues
  BY <1>4 DEF Stage, Stands, From, Given, Ready, Bare
<1> QED
  BY <1>1, <1>5 DEF N, G, F

\* A bare function stays bare when it gets upvalues.
LEMMA GrownBare ==
  ASSUME NEW F, NEW m, Bare(F, m), NEW G, Grown(G, F)
  PROVE  Bare(G, m)
<1>1. /\ G.alloc = F.alloc /\ G.locals = F.locals /\ G.targets = F.targets /\ G.ops = F.ops
      /\ G.err = F.err /\ Len(G.blocks) = Len(F.blocks) /\ G \in Fun
      /\ \A i \in 1..Len(F.blocks) : /\ G.blocks[i].stack_bottom = F.blocks[i].stack_bottom
                                     /\ G.blocks[i].bottom_jump_target = F.blocks[i].bottom_jump_target
  BY DEF Grown
<1>2. Ready(G)
  BY <1>1 DEF Bare, Ready, Coded
<1>3. Layout(G, {})
  BY <1>1 DEF Bare, Layout, LayoutTo
<1>4. Nested(G)
  BY <1>1 DEF Bare, Nested, Within
<1> QED
  BY <1>1, <1>2, <1>3, <1>4 DEF Bare

\* Its blocks are left and it is finished.
LEMMA BareDone ==
  ASSUME NEW F, Bare(F, 2), NEW G, Given(G), G.err = "none" => G = F, NEW op \in VarInstr, op.offset = 0
  PROVE  LET P == Finish(ExitBlock(ExitBlock(Temporary(G, op))))
         IN HasErr(P) /\ (P.err = "none" => P.upvalues = F.upvalues)
<1> DEFINE T == Temporary(G, op)
           E1 == ExitBlock(T)
           E2 == ExitBlock(E1)
<1>1. F \in Fun /\ Len(F.blocks) = 2 /\ Stage(F, F, {}, 2)
  BY StageStart DEF Bare
<1>2. Stage(G, F, {}, 2)
  BY <1>1 DEF Stage
<1>3. Stage(T, F, {}, 2)
  BY <1>1, <1>2, TemporaryFollows, StageFollows
<1> HIDE DEF T
<1>4. Stage(E1, F, {}, 1)
  <2>1. 2 \in Nat /\ 2 > 0 /\ 2 <= Len(F.blocks) /\ 2 - 1 = 1
    BY <1>1
  <2>2. Stage(E1, F, {}, 2 - 1)
    BY <1>1, <1>3, <2>1, StageExit
  <2> QED
    BY <2>1, <2>2
<1> HIDE DEF E1
<1>5. Stage(E2, F, {}, 0)
  <2>1. 1 \in Nat /\ 1 > 0 /\ 1 <= Len(F.blocks) /\ 1 - 1 = 0
    BY <1>1
  <2>2. Stage(E2, F, {}, 1 - 1)
    BY <1>1, <1>4, <2>1, StageExit
  <2> QED
    BY <2>1, <2>2
<1> HIDE DEF E2
<1>6. Given(E2) /\ (E2.err = "none" => E2.upvalues = F.upvalues)
  BY <1>5 DEF Stage, Stands, From
<1>7. HasErr(Finish(E2)) /\ (Finish(E2).err = "none" => Finish(E2).upvalues = F.upvalues)
  BY <1>6, FinishDone
<1> QED
  BY <1>7 DEF E2, E1, T

\* A function without upvalues may be put inside a chain.
LEMMA ChainInside ==
  ASSUME NEW fs, Compiling(fs), NEW N \in Fun, N.upvalues = << >>
  PROVE  LET gs == Append(fs, N)
         IN Chain(gs) /\ Len(gs) = Len(fs) + 1 /\ gs[Len(fs) + 1] = N /\ \A k \in 1..Len(fs) : gs[k] = fs[k]
<1> DEFINE n == Len(fs)
           gs == Append(fs, N)
<1>1. fs \in Seq(Fun) /\ n \in Nat /\ n > 0 /\ Linked(fs)
  BY CompilingFields DEF Chain
<1>2. gs \in Seq(Fun) /\ gs # << >> /\ Len(gs) = n + 1 /\ gs[n + 1] = N /\ \A k \in 1..n : gs[k] = fs[k]
  BY <1>1
<1> HIDE DEF gs
<1>3. /\ FirstLinks(fs[1]) /\ (\A k \in 2..n : Links(fs[k], fs[k - 1])) /\ 1 \in 1..n
      /\ \A k \in 2..(n + 1) : k # n + 1 => k \in 2..n /\ k \in 1..n /\ k - 1 \in 1..n
  <2>1. FirstLinks(fs[1]) /\ \A k \in 2..n : Links(fs[k], fs[k - 1])
    BY <1>1 DEF Linked
  <2> HIDE DEF n
  <2> QED
    BY <1>1, <2>1
<1> HIDE DEF n
<1>4. ASSUME NEW k \in 2..(n + 1) PROVE Links(gs[k], gs[k - 1])
  <2>1. CASE k = n + 1
    BY <1>2, <2>1 DEF Links
  <2>2. CASE k # n + 1
    BY <1>2, <1>3, <2>2
  <2> QED
    BY <2>1, <2>2
<1>5. gs[1] = fs[1]
  BY <1>2, <1>3
<1>6. Linked(gs)
  BY <1>2, <1>3, <1>4, <1>5 DEF Linked
<1>7. Chain(gs)
  BY <1>2, <1>6 DEF Chain
<1> QED
  BY <1>2, <1>7 DEF gs, n

\* The functions around the innermost one, after a name was looked for from there.
LEMMA ChainUpper ==
  ASSUME NEW fs, Compiling(fs), NEW N \in Fun, N.upvalues = << >>, NEW gs, Chain(gs),
         GrownAll(gs, Append(fs, N))
  PROVE  /\ Compiling(Pop(gs)) /\ Grown(Top(gs), N) /\ Links(Top(gs), Top(Pop(gs)))
         /\ Sound(Top(Pop(gs)))
<1> DEFINE n == Len(fs)
           hs == Append(fs, N)
           us == Pop(gs)
<1>1. n \in Nat /\ n > 0
  BY CompilingFields
<1>2. Len(hs) = n + 1 /\ hs[n + 1] = N /\ \A k \in 1..n : hs[k] = fs[k]
  BY ChainInside
<1>3. gs \in Seq(Fun) /\ gs # << >> /\ Linked(gs) /\ Len(gs) = Len(hs)
  BY DEF Chain, GrownAll
<1>4. \A k \in 1..Len(hs) : Grown(gs[k], hs[k])
  BY DEF GrownAll
<1> HIDE DEF hs
<1>5. us \in Seq(Fun) /\ Len(us) = n /\ \A k \in 1..n : us[k] = gs[k]
  <2>1. Len(us) = Len(gs) - 1 /\ \A k \in 1..(Len(gs) - 1) : us[k] = gs[k]
    BY <1>3, PopElements
  <2>2. us \in Seq(Fun)
    BY <1>3, PopElements
  <2>3. Len(gs) - 1 = n
    BY <1>1, <1>2, <1>3
  <2> QED
    BY <2>1, <2>2, <2>3
<1> HIDE DEF us
<1>6. Top(gs) = gs[n + 1] /\ Top(us) = us[n] /\ n \in 1..n /\ n + 1 \in 1..(n + 1) /\ n + 1 \in 2..(n + 1) /\ (n + 1) - 1 = n
  BY <1>1, <1>2, <1>3, <1>5 DEF Top
<1>7. Grown(Top(gs), N)
  BY <1>2, <1>4, <1>6
<1>8. Links(Top(gs), Top(us))
  BY <1>2, <1>3, <1>5, <1>6 DEF Linked
<1>9. \A k \in 1..n : k \in 1..(n + 1)
  BY <1>1
<1>10. GrownAll(us, fs)
  <2>1. \A k \in 1..n : Grown(us[k], fs[k])
    BY <1>2, <1>4, <1>5, <1>9
  <2> QED
    BY <1>5, <2>1 DEF GrownAll
<1>11. Chain(us)
  <2>1. us # << >>
    BY <1>1, <1>5
  <2>2. Linked(us)
    <3>1. \A k \in 2..n : k \in 2..(n + 1) /\ k \in 1..n /\ k - 1 \in 1..n
      BY <1>1
    <3>2. 1 \in 1..n
      BY <1>1
    <3> QED
      BY <1>2, <1>3, <1>5, <3>1, <3>2 DEF Linked
  <2> QED
    BY <1>5, <2>1, <2>2 DEF Chain
<1>12. Compiling(us)
  BY <1>10, <1>11, GrownCompiling
<1>13. Sound(Top(us))
  BY <1>12, CompilingFields
<1> QED
  BY <1>7, <1>8, <1>12, <1>13 DEF us

\* A function that captures one name keeps the invariant.
LEMMA CaptureKeeps ==
  ASSUME Compiling(fns), result = "compiling", NEW name \in Names, Capture(name)
  PROVE  Keeps(fns', result')
<1> DEFINE us == Append(Pop(fns), Done(cur))
           N == EnterBlock(EnterBlock(NewFunction(<< >>)))
           v == Reference(Append(us, N), name)
           M == Top(v.fns)
           G == Assigned(v, M)
           P == Finish(ExitBlock(ExitBlock(Temporary(G, Op("SetUp")))))
           upper == Pop(v.fns)
           c == Construct("function", FALSE)
<1>1. Compiling(us)
  <2>1. Sound(cur)
    BY CompilingFields DEF cur
  <2>2. Sound(Done(cur)) /\ Heir(Done(cur), cur)
    BY <2>1, DoneSound
  <2> QED
    BY <2>2, Replaced DEF cur
<1>2. Bare(N, 2) /\ N.upvalues = << >> /\ N \in Fun
  BY CaptureStarts DEF Bare
<1>3. CaptureBy(upper, P)
  BY DEF Capture, CaptureOf
<1> HIDE DEF us, N
<1>4. Seen(v, Append(us, N))
  <2>1. Chain(Append(us, N))
    BY <1>1, <1>2, ChainInside
  <2> QED
    BY <2>1, ReferenceSeen
<1> HIDE DEF v
<1>5. Chain(v.fns) /\ GrownAll(v.fns, Append(us, N))
  BY <1>4 DEF Seen
<1>6. Compiling(upper) /\ Grown(M, N) /\ Links(M, Top(upper)) /\ Sound(Top(upper))
  BY <1>1, <1>2, <1>5, ChainUpper
<1>7. Bare(M, 2)
  BY <1>2, <1>6, GrownBare
<1> HIDE DEF M, upper
<1>8. Given(G) /\ (G.err = "none" => G = M)
  <2>1. M \in Fun /\ Ready(M)
    BY <1>7 DEF Bare
  <2>2. HasErr(M)
    BY <2>1, FunFields
  <2>3. CASE v.attr = "const"
    <3>1. "AssignToConst" \in Errors
      BY DEF Errors
    <3>2. Follows(Fail(M, "AssignToConst"), M) /\ Fail(M, "AssignToConst").err # "none"
      BY <2>2, <3>1, FailFollows
    <3> QED
      BY <2>3, <3>2 DEF Assigned, Follows
  <2>4. CASE v.attr # "const"
    BY <2>1, <2>2, <2>4 DEF Assigned, Given
  <2> QED
    BY <2>3, <2>4
<1> HIDE DEF G
<1>9. HasErr(P) /\ (P.err = "none" => P.upvalues = M.upvalues)
  <2>1. Op("SetUp") \in VarInstr /\ Op("SetUp").offset = 0
    BY OpInstr DEF VarKinds
  <2> QED
    BY <1>7, <1>8, <2>1, BareDone
<1> HIDE DEF P
<1>10. CASE P.err # "none"
  <2>1. Commit(fns, Fail(cur, P.err))
    BY <1>3, <1>10 DEF CaptureBy
  <2>2. P.err \in Errors /\ HasErr(cur)
    <3>1. Sound(cur)
      BY CompilingFields DEF cur
    <3> QED
      BY <1>9, <1>10, <3>1, SoundStage DEF HasErr, Given
  <2>3. Turns(Fail(cur, P.err), cur)
    BY <2>2, FailFollows, FailedTurns
  <2> QED
    BY <2>1, <2>3, CommitKeeps DEF Turns, cur
<1>11. CASE P.err = "none"
  <2>1. Commit(upper, MakeClosure(Top(upper), P, c))
    BY <1>3, <1>11 DEF CaptureBy
  <2>2. Links(P, Top(upper))
    BY <1>6, <1>9, <1>11 DEF Links
  <2>3. c.k = "function"
    BY ConstructIn DEF Kinds, Functions
  <2> HIDE DEF c
  <2>4. Turns(MakeClosure(Top(upper), P, c), Top(upper))
    BY <1>6, <2>2, <2>3, MakeClosureTurns
  <2> QED
    BY <1>6, <2>1, <2>4, CommitKeeps DEF Turns
<1> QED
  BY <1>10, <1>11

-----------------------------------------------------------------------------
(* Every step of the compiler. *)

\* A turn of the innermost function keeps the invariant.
LEMMA TurnKeeps ==
  ASSUME NEW fs, Compiling(fs), result = "compiling", NEW G, Turns(G, Top(fs)), Commit(fs, G)
  PROVE  Keeps(fns', result')
BY CommitKeeps DEF Turns

\* The innermost function, the one being compiled, is sound.
LEMMA CurrentSound ==
  ASSUME Compiling(fns)
  PROVE  Sound(cur) /\ cur = Top(fns) /\ Chain(fns) /\ C = Top(cur.ctx)
BY CompilingFields DEF cur, C

\* A local declaration keeps the invariant.
LEMMA LocalKeeps ==
  ASSUME Compiling(fns), result = "compiling", NEW name \in Names, NEW attr \in Attributes,
         LocalStatement(name, attr)
  PROVE  Keeps(fns', result')
<1> DEFINE r == cur.alloc.stack_top
           var == <<Here(cur), r>>
           G == AddLocal(Emit(PushRegs(Done(cur), 1), VarOp("Decl", r, var)),
                         name, attr, r, var)
<1>1. Commit(fns, G)
  BY DEF LocalStatement, VarOp
<1>2. Turns(G, cur)
  BY CurrentSound, LocalTurns
<1> HIDE DEF G
<1> QED
  BY <1>1, <1>2, CurrentSound, TurnKeeps

\* A call statement keeps the invariant.
LEMMA CallKeeps ==
  ASSUME Compiling(fns), result = "compiling", NEW name \in Names, CallStatement(name)
  PROVE  Keeps(fns', result')
<1> DEFINE v == Reference(fns, name)
           D == Read(v)
           r == D.alloc.stack_top
           G == FreeReg(Emit(PushRegs(D, 1), [Op("Temp") EXCEPT !.reg = r]), r)
<1>1. Commit(v.fns, G)
  BY DEF CallStatement, CallOf, Called, Pushed
<1>2. Seen(v, fns)
  BY CurrentSound, ReferenceSeen
<1> HIDE DEF v
<1>3. Compiling(v.fns) /\ Sound(D) /\ Heir(D, Top(v.fns))
  BY <1>2, SeenTop, ReadSound
<1> HIDE DEF D
<1>4. Turns(G, D)
  BY <1>3, CallTurns
<1> HIDE DEF G
<1>5. Turns(G, Top(v.fns))
  BY <1>3, <1>4, TurnsTrans
<1> QED
  BY <1>1, <1>3, <1>5, TurnKeeps

\* A local declared with another variable's value keeps the invariant.
LEMMA CopyKeeps ==
  ASSUME Compiling(fns), result = "compiling", NEW name \in Names, LocalCopy(name)
  PROVE  Keeps(fns', result')
<1> DEFINE v == Reference(fns, name)
           D == Read(v)
           r == D.alloc.stack_top
           var == <<Here(D), r>>
           G == AddLocal(Emit(PushRegs(D, 1), VarOp("Decl", r, var)), name, "none", r, var)
<1>1. Commit(v.fns, G)
  BY DEF LocalCopy, CopyOf, Copied, Declared, VarOp
<1>2. Seen(v, fns)
  BY CurrentSound, ReferenceSeen
<1> HIDE DEF v
<1>3. Compiling(v.fns) /\ Sound(D) /\ Heir(D, Top(v.fns))
  BY <1>2, SeenTop, ReadSound
<1> HIDE DEF D
<1>4. Here(D) \in Int
  BY <1>3, SoundLocals, FunFields DEF Here
<1>5. Turns(G, D)
  BY <1>3, <1>4, DeclTurns
<1> HIDE DEF G
<1>6. Turns(G, Top(v.fns))
  BY <1>3, <1>5, TurnsTrans
<1> QED
  BY <1>1, <1>3, <1>6, TurnKeeps

\* An assignment keeps the invariant.
LEMMA AssignKeeps ==
  ASSUME Compiling(fns), result = "compiling", NEW name \in Names, Assignment(name)
  PROVE  Keeps(fns', result')
<1> DEFINE v == Reference(fns, name)
           F == Assigned(v, Done(Top(v.fns)))
           G == IF v.kind = "Local"
                THEN Emit(F, VarOp("Use", v.index, VariableIn(F, v.index)))
                ELSE Temporary(F, Op("SetUp"))
<1>1. Commit(v.fns, G)
  BY DEF Assignment, AssignTo, AssignVariable, VarOp
<1>2. Seen(v, fns)
  BY CurrentSound, ReferenceSeen
<1> HIDE DEF v
<1>3. Compiling(v.fns)
  BY <1>2, SeenTop
<1>4. Turns(G, Top(v.fns))
  <2>1. CASE v.kind = "Local"
    <3>1. Turns(Emit(F, VarOp("Use", v.index, VariableIn(F, v.index))), Top(v.fns))
      BY <1>2, <2>1, AssignTurns
    <3> QED
      BY <2>1, <3>1
  <2>2. CASE v.kind # "Local"
    <3>1. Turns(Temporary(F, Op("SetUp")), Top(v.fns))
      BY <1>2, AssignTurns
    <3> QED
      BY <2>2, <3>1
  <2> QED
    BY <2>1, <2>2
<1> HIDE DEF G
<1> QED
  BY <1>1, <1>3, <1>4, TurnKeeps

\* A label keeps the invariant.
LEMMA LabelKeeps ==
  ASSUME Compiling(fns), result = "compiling", NEW l \in Labels, LabelStatement(l)
  PROVE  Keeps(fns', result')
<1> DEFINE G == JumpTarget(SetC(cur, [C EXCEPT !.after_label = TRUE]), Named(l))
<1>1. Commit(fns, G)
  BY DEF LabelStatement
<1>2. Named(l) \in Label
  BY DEF Named, Label
<1>3. Turns(G, cur)
  BY <1>2, CurrentSound, LabelTurns DEF C
<1> HIDE DEF G
<1> QED
  BY <1>1, <1>3, CurrentSound, TurnKeeps

\* goto and break keep the invariant.
LEMMA JumpKeeps ==
  ASSUME Compiling(fns), result = "compiling", NEW label \in Label, Commit(fns, Jump(Done(cur), label))
  PROVE  Keeps(fns', result')
<1>1. Turns(Jump(Done(cur), label), cur)
  BY CurrentSound, JumpTurns
<1> QED
  BY <1>1, CurrentSound, TurnKeeps

\* return keeps the invariant.
LEMMA ReturnKeeps ==
  ASSUME Compiling(fns), result = "compiling", ReturnStatement
  PROVE  Keeps(fns', result')
<1> DEFINE G == Emit(SetC(cur, [C EXCEPT !.phase = "closed"]), Op("Return"))
<1>1. Commit(fns, G) /\ C.ret
  BY DEF ReturnStatement
<1>2. Turns(G, cur)
  BY <1>1, CurrentSound, ReturnTurns DEF C
<1> HIDE DEF G
<1> QED
  BY <1>1, <1>2, CurrentSound, TurnKeeps

\* The end of a block's statements keeps the invariant.
LEMMA EndKeeps ==
  ASSUME Compiling(fns), result = "compiling", EndStatements
  PROVE  Keeps(fns', result')
<1> DEFINE G == ExitBlock(SetC(cur, [C EXCEPT !.phase = "labels"]))
<1>1. Commit(fns, G) /\ C.k # "repeat" /\ ~C.ret /\ C.phase = "body"
  BY DEF EndStatements
<1>2. Turns(G, cur)
  BY <1>1, CurrentSound, EndTurns DEF C
<1> HIDE DEF G
<1> QED
  BY <1>1, <1>2, CurrentSound, TurnKeeps

\* Opening do, while, repeat and if keeps the invariant.
LEMMA OpenKeeps ==
  ASSUME Compiling(fns), result = "compiling", NEW ret \in BOOLEAN,
         OpenDo(ret) \/ OpenWhile(ret) \/ OpenRepeat(ret) \/ OpenIf(ret)
  PROVE  Keeps(fns', result')
<1>1. CASE OpenDo(ret)
  <2> DEFINE G == OpenBody(EnterBlock(Done(cur)), Construct("do", ret))
  <2>1. Commit(fns, G)
    BY <1>1 DEF OpenDo, Open
  <2>2. Turns(G, cur)
    BY CurrentSound, DoTurns
  <2> HIDE DEF G
  <2> QED
    BY <2>1, <2>2, CurrentSound, TurnKeeps
<1>2. CASE OpenWhile(ret)
  <2> DEFINE start == Unique(cur)
             E == TakeLabel(Done(cur))
             end == Unique(E)
             F == Jump(Test(JumpTarget(TakeLabel(E), start)), end)
             G == OpenBody(EnterBlock(F), NewLabels(Construct("while", ret), start, end))
  <2>1. Commit(fns, G)
    BY <1>2 DEF OpenWhile, Open, NewLabels
  <2>2. Turns(G, cur)
    BY CurrentSound, WhileTurns
  <2> HIDE DEF G
  <2> QED
    BY <2>1, <2>2, CurrentSound, TurnKeeps
<1>3. CASE OpenRepeat(ret)
  <2> DEFINE start == Unique(cur)
             E == EnterBlock(EnterBlock(TakeLabel(Done(cur))))
             G == OpenBody(JumpTarget(E, start), [Construct("repeat", ret) EXCEPT !.a = start])
  <2>1. Commit(fns, G)
    BY <1>3 DEF OpenRepeat, Open
  <2>2. Turns(G, cur)
    BY CurrentSound, RepeatTurns
  <2> HIDE DEF G
  <2> QED
    BY <2>1, <2>2, CurrentSound, TurnKeeps
<1>4. CASE OpenIf(ret)
  <2> DEFINE end == Unique(cur)
             E == TakeLabel(Done(cur))
             before == Unique(E)
             F == TakeLabel(E)
             next == Unique(F)
             G == IfPart(TakeLabel(F), before, next, NewLabels(Construct("if", ret), end, next))
  <2>1. Commit(fns, G)
    BY <1>4 DEF OpenIf, NewLabels
  <2>2. Turns(G, cur)
    BY CurrentSound, IfTurns
  <2> HIDE DEF G
  <2> QED
    BY <2>1, <2>2, CurrentSound, TurnKeeps
<1> QED
  BY <1>1, <1>2, <1>3, <1>4

\* Opening a for keeps the invariant.
LEMMA ForKeeps ==
  ASSUME Compiling(fns), result = "compiling", NEW k \in Loops, NEW name \in Names, NEW ret \in BOOLEAN,
         OpenFor(k, name, ret)
  PROVE  Keeps(fns', result')
<1> DEFINE base == cur.alloc.stack_top
           P == PushRegs(Done(cur), 3)
           prep == Here(P)
           loop == Unique(P)
           G == OpenBody(ForEnd(k, ForStart(k, P), name, base, prep, loop),
                         NewLoop(Construct(k, ret), base, prep, loop))
<1>1. Commit(fns, G)
  BY DEF OpenFor, Open, ForEnd, ForStart, NewLoop
<1>2. Turns(G, cur)
  BY CurrentSound, ForTurns
<1> HIDE DEF G
<1> QED
  BY <1>1, <1>2, CurrentSound, TurnKeeps

\* The end of a construct keeps the invariant.
LEMMA CloseKeeps ==
  ASSUME Compiling(fns), result = "compiling", CloseConstruct
  PROVE  Keeps(fns', result')
<1> DEFINE F == PopC(cur)
<1>1. Sound(cur) /\ Ending(C) /\ C = Top(cur.ctx) /\ cur = Top(fns)
  BY CurrentSound DEF CloseConstruct, CanClose, Ending
<1>2. PICK G : /\ Commit(fns, G)
               /\ \/ C.k = "do" /\ G = ExitBlock(F)
                  \/ C.k = "while" /\ G = CloseWhile(F, C)
                  \/ C.k = "repeat" /\ G = CloseRepeat(F, C)
                  \/ C.k = "for" /\ G = CloseFor(F, C)
                  \/ C.k = "forin" /\ G = CloseForIn(F, C)
                  \/ C.k = "if" /\ G = CloseIf(F, C)
                  \/ C.k = "else" /\ G = CloseElse(F, C)
  BY DEF CloseConstruct
<1>3. Turns(G, cur)
  <2>1. CASE C.k = "do" /\ G = ExitBlock(F)
    BY <1>1, <2>1, CloseDoTurns
  <2>2. CASE C.k = "while" /\ G = CloseWhile(F, C)
    BY <1>1, <2>2, CloseWhileTurns
  <2>3. CASE C.k = "repeat" /\ G = CloseRepeat(F, C)
    BY <1>1, <2>3, CloseRepeatTurns
  <2>4. CASE C.k = "for" /\ G = CloseFor(F, C)
    BY <1>1, <2>4, CloseForTurns
  <2>5. CASE C.k = "forin" /\ G = CloseForIn(F, C)
    BY <1>1, <2>5, CloseForInTurns
  <2>6. CASE C.k = "if" /\ G = CloseIf(F, C)
    BY <1>1, <2>6, CloseIfTurns
  <2>7. CASE C.k = "else" /\ G = CloseElse(F, C)
    BY <1>1, <2>7, CloseIfTurns
  <2> QED
    BY <1>2, <2>1, <2>2, <2>3, <2>4, <2>5, <2>6, <2>7
<1> QED
  BY <1>1, <1>2, <1>3, TurnKeeps

\* elseif and else keep the invariant.
LEMMA PartKeeps ==
  ASSUME Compiling(fns), result = "compiling", NEW part, NEW ret \in BOOLEAN, NextPart(part, ret)
  PROVE  Keeps(fns', result')
<1> DEFINE E == ExitBlock(Jump(PopC(cur), C.a))
           next == Unique(E)
           G1 == IfPart(TakeLabel(E), C.b, next, NewLabels(Construct("if", ret), C.a, next))
           G2 == OpenBody(EnterBlock(JumpTarget(E, C.b)), NewLabel(Construct("else", ret), C.a))
<1>1. Sound(cur) /\ Ending(C) /\ C = Top(cur.ctx) /\ cur = Top(fns) /\ C.k = "if"
  BY CurrentSound DEF NextPart, CanClose, Ending
<1>2. Commit(fns, G1) \/ Commit(fns, G2)
  BY DEF NextPart, NewLabels, NewLabel
<1>3. Turns(G1, cur) /\ Turns(G2, cur)
  BY <1>1, ElseifTurns
<1> HIDE DEF G1, G2
<1> QED
  BY <1>1, <1>2, <1>3, TurnKeeps

\* The end of the chunk keeps the invariant: its code is done.
LEMMA ChunkKeeps ==
  ASSUME Compiling(fns), result = "compiling", CloseChunk
  PROVE  Keeps(fns', result')
<1> DEFINE P == Finish(ExitBlock(PopC(cur)))
<1>1. Sound(cur) /\ Ending(C) /\ C = Top(cur.ctx) /\ C.k \in Roots
  BY CurrentSound DEF CloseChunk, CanClose, Ending, Roots
<1>2. fns' = <<P>> /\ result' = (IF P.err = "none" THEN "ok" ELSE P.err)
  BY DEF CloseChunk
<1>3. HasErr(P) /\ (P.err = "none" => DoneCode(P.ops))
  BY <1>1, BodyDone
<1> HIDE DEF P
<1>4. 1 \in 0..MaxFunctions /\ Len(<<P>>) = 1
  BY CompilerAssumption
<1>5. "ok" \notin Errors /\ "compiling" \notin Errors
  BY DEF Errors
<1>6. P.err # "none" => P.err \in Errors
  BY <1>3 DEF HasErr
<1> QED
  BY <1>2, <1>3, <1>4, <1>5, <1>6 DEF Keeps

Budgeted(l) == \A k \in DOMAIN l : l[k] \in Nat
\* Budgets stay natural numbers.
LEMMA SpendKeeps ==
  ASSUME Budgeted(left), NEW kind, Spend(kind)
  PROVE  Budgeted(left')
<1>1. kind \in DOMAIN left /\ left[kind] \in Nat /\ left[kind] > 0 /\ left' = [left EXCEPT ![kind] = @ - 1]
  BY DEF Spend, Budgeted
<1>2. left[kind] - 1 \in Nat
  BY <1>1
<1>3. DOMAIN left' = DOMAIN left
  BY <1>1, Zenon
<1>4. ASSUME NEW k \in DOMAIN left PROVE left'[k] = left[k] \/ left'[k] = left[kind] - 1
  BY <1>1, Zenon
<1> QED
  BY <1>2, <1>3, <1>4, Zenon DEF Budgeted

\* Whether a body ends in a return is yes or no.
LEMMA RetBoolean ==
  ASSUME NEW k
  PROVE  Ret(k) \subseteq BOOLEAN
BY DEF Ret

\* Whatever the compiler does.
LEMMA CompileKeeps ==
  ASSUME Compiling(fns), result = "compiling", Compile
  PROVE  Keeps(fns', result')
<1>1. CASE \E n \in Names, a \in Attributes : LocalStatement(n, a)
  BY <1>1, LocalKeeps
<1>2. CASE \E n \in Names : LocalCopy(n)
  BY <1>2, CopyKeeps
<1>3. CASE \E n \in Names : CallStatement(n)
  BY <1>3, CallKeeps
<1>4. CASE \E n \in Names : Assignment(n)
  BY <1>4, AssignKeeps
<1>5. CASE \E n \in Names : Capture(n)
  BY <1>5, CaptureKeeps
<1>6. CASE \E l \in Labels : LabelStatement(l)
  BY <1>6, LabelKeeps
<1>7. CASE \E l \in Labels : GotoStatement(l)
  <2>1. PICK l \in Labels : Commit(fns, Jump(Done(cur), Named(l)))
    BY <1>7 DEF GotoStatement
  <2>2. Named(l) \in Label
    BY DEF Named, Label
  <2> QED
    BY <2>1, <2>2, JumpKeeps
<1>8. CASE BreakStatement
  BY <1>8, BreakLabel, JumpKeeps DEF BreakStatement
<1>9. CASE ReturnStatement
  BY <1>9, ReturnKeeps
<1>10. CASE EndStatements
  BY <1>10, EndKeeps
<1>11. CASE \/ \E ret \in Ret("do") : OpenDo(ret)
            \/ \E ret \in Ret("while") : OpenWhile(ret)
            \/ \E ret \in Ret("repeat") : OpenRepeat(ret)
            \/ \E ret \in Ret("if") : OpenIf(ret)
  <2>1. PICK ret \in BOOLEAN : OpenDo(ret) \/ OpenWhile(ret) \/ OpenRepeat(ret) \/ OpenIf(ret)
    BY <1>11, RetBoolean
  <2> QED
    BY <2>1, OpenKeeps
<1>12. CASE \E k \in {"for", "forin"}, n \in Names : \E ret \in Ret(k) : OpenFor(k, n, ret)
  <2>1. PICK k \in Loops, n \in Names, ret \in BOOLEAN : OpenFor(k, n, ret)
    BY <1>12, RetBoolean DEF Loops
  <2> QED
    BY <2>1, ForKeeps
<1>13. CASE \E k \in {"function", "localfunction"}, n \in Names, ps \in ParamLists :
              \E ret \in Ret(k) : OpenFunction(k, n, ps, ret)
  <2>1. PICK k \in Functions, n \in Names, ps \in ParamLists, ret \in BOOLEAN : OpenFunction(k, n, ps, ret)
    BY <1>13, RetBoolean DEF Functions
  <2> QED
    BY <2>1, OpenFunctionKeeps
<1>14. CASE CloseConstruct
  BY <1>14, CloseKeeps
<1>15. CASE \E part \in {"elseif", "else"} : \E ret \in Ret(part) : NextPart(part, ret)
  <2>1. PICK part \in {"elseif", "else"}, ret \in BOOLEAN : NextPart(part, ret)
    BY <1>15, RetBoolean
  <2> QED
    BY <2>1, PartKeeps
<1>16. CASE CloseFunction
  BY <1>16, CloseFunctionKeeps
<1>17. CASE CloseChunk
  BY <1>17, ChunkKeeps
<1> QED
  BY <1>1, <1>2, <1>3, <1>4, <1>5, <1>6, <1>7, <1>8, <1>9, <1>10, <1>11, <1>12, <1>13, <1>14, <1>15,
     <1>16, <1>17 DEF Compile

\* The compiler makes a step only while it is compiling.
LEMMA CompileStarts ==
  ASSUME Compile
  PROVE  result = "compiling" /\ (UNCHANGED left \/ \E kind : Spend(kind))
<1>1. CASE \/ \E n \in Names, a \in Attributes : LocalStatement(n, a)
           \/ \E n \in Names : LocalCopy(n) \/ CallStatement(n) \/ Assignment(n) \/ Capture(n)
  BY <1>1, Zenon DEF LocalStatement, LocalCopy, CallStatement, Assignment, Capture, Statement
<1>2. CASE \/ \E l \in Labels : LabelStatement(l) \/ GotoStatement(l)
           \/ BreakStatement \/ ReturnStatement \/ EndStatements
  BY <1>2, Zenon DEF LabelStatement, GotoStatement, BreakStatement, ReturnStatement, EndStatements, Statement
<1>3. CASE \/ \E ret : OpenDo(ret) \/ OpenWhile(ret) \/ OpenRepeat(ret) \/ OpenIf(ret)
           \/ \E k, n, ret : OpenFor(k, n, ret)
           \/ \E k, n, ps, ret : OpenFunction(k, n, ps, ret)
  BY <1>3, Zenon DEF OpenDo, OpenWhile, OpenRepeat, OpenIf, OpenFor, OpenFunction, Open, Statement
<1>4. CASE CloseConstruct \/ (\E part, ret : NextPart(part, ret)) \/ CloseFunction \/ CloseChunk
  BY <1>4, Zenon DEF CloseConstruct, NextPart, CloseFunction, CloseChunk, CanClose
<1> QED
  BY <1>1, <1>2, <1>3, <1>4, Zenon DEF Compile

-----------------------------------------------------------------------------
(* The invariant holds. *)

\* A chunk whose body is opened satisfies the invariant.
LEMMA ChunkStarts ==
  ASSUME NEW ret \in BOOLEAN
  PROVE  Compiling(<<OpenBody(EnterBlock(NewFunction(<< >>)), Construct("chunk", ret))>>)
<1> DEFINE c == Construct("chunk", ret)
           H == OpenBody(EnterBlock(NewFunction(<< >>)), c)
<1>1. c \in Context /\ c.k = "chunk" /\ c.phase = "body" /\ c.prep = 0
  BY ConstructIn DEF Kinds
<1>2. << >> \in Seq(Names) /\ Len(<< >>) < NumRegs
  BY NumRegsAssumption
<1> HIDE DEF c
<1>3. Sound(H) /\ H.ctx = << c >> /\ H.upvalues = << >>
  BY <1>1, <1>2, BodyOpens DEF Roots
<1> HIDE DEF H
<1>4. H \in Fun
  BY <1>3 DEF Sound, Placed
<1>5. <<H>> \in Seq(Fun) /\ Len(<<H>>) = 1 /\ <<H>>[1] = H /\ 1 \in 1..MaxFunctions
  BY <1>4, CompilerAssumption
<1>6. Linked(<<H>>)
  BY <1>3, <1>5 DEF Linked, FirstLinks
<1>7. Dests(<<H>>)
  <2>1. H.ctx[1] = c
    BY <1>3
  <2> QED
    BY <1>1, <1>5, <2>1 DEF Dests
<1>8. Compiling(<<H>>)
  BY <1>3, <1>5, <1>6, <1>7 DEF Compiling
<1> QED
  BY <1>8 DEF H, c

\* The invariant holds at the start.
LEMMA InitInv == Init => CompilerInv
<1> SUFFICES ASSUME Init PROVE CompilerInv
  OBVIOUS
<1>1. /\ result = "compiling" /\ left \in Budgets /\ code = << >> /\ pc = Idle /\ open = {}
  BY DEF Init, CompileInit
<1>2. PICK ret \in BOOLEAN : fns = <<OpenBody(EnterBlock(NewFunction(<< >>)), Construct("chunk", ret))>>
  BY RetBoolean DEF Init, CompileInit
<1>3. Compiling(fns)
  BY <1>2, ChunkStarts
<1>4. Len(fns) \in 0..MaxFunctions
  BY <1>3 DEF Compiling
<1>5. \A k \in DOMAIN left : left[k] \in Nat
  BY <1>1, CompilerAssumption
<1> QED
  BY <1>1, <1>3, <1>4, <1>5 DEF CompilerInv

\* Every step of the compiler keeps the invariant.
LEMMA CompileInv ==
  ASSUME CompilerInv, Compile, UNCHANGED mvars
  PROVE  CompilerInv'
<1>1. result = "compiling" /\ (UNCHANGED left \/ \E kind : Spend(kind))
  BY CompileStarts
<1>2. Keeps(fns', result')
  BY <1>1, CompileKeeps DEF CompilerInv
<1>3. Budgeted(left)
  BY DEF CompilerInv, Budgeted
<1>4. Budgeted(left')
  BY <1>1, <1>3, SpendKeeps DEF Budgeted
<1>5. code' = << >> /\ code' = code /\ pc' = Idle /\ open' = open /\ open \subseteq Regs
  BY <1>1 DEF CompilerInv, mvars
<1> QED
  BY <1>2, <1>4, <1>5 DEF CompilerInv, Keeps, Budgeted

\* Starting the code keeps the invariant.
LEMMA StartInv ==
  ASSUME CompilerInv, StartChunk \/ StartFunction
  PROVE  CompilerInv'
<1>1. PICK P : Load(P) /\ DoneCode(P.ops) /\ result' = "ok" /\ fns' = << >> /\ UNCHANGED left
  <2>1. CASE StartChunk
    BY <2>1 DEF StartChunk, CompilerInv
  <2>2. CASE StartFunction
    <3> DEFINE P == Finish(ExitBlock(PopC(cur)))
    <3>1. /\ result = "compiling" /\ Ending(C) /\ C.k \in Roots /\ P.err = "none" /\ Load(P)
          /\ result' = "ok" /\ fns' = << >> /\ UNCHANGED left
      BY <2>2 DEF StartFunction, CanClose, Ending, Roots, Functions
    <3>2. Sound(cur) /\ C = Top(cur.ctx)
      BY <3>1, CurrentSound DEF CompilerInv
    <3>3. DoneCode(P.ops)
      BY <3>1, <3>2, BodyDone
    <3> QED
      BY <3>1, <3>3
  <2> QED
    BY <2>1, <2>2
<1>2. code' = P.ops /\ pc' = 0 /\ open' = {}
  BY <1>1 DEF Load
<1>3. DoneCode(code') /\ code' # << >> /\ pc' \in 0..Len(code')
  <2>1. P.ops \in Seq(DoneInstr) /\ P.ops # << >>
    BY <1>1 DEF DoneCode
  <2>2. Len(P.ops) \in Nat
    BY <2>1
  <2> QED
    BY <1>1, <1>2, <2>1, <2>2
<1>4. Len(fns') \in 0..MaxFunctions
  BY <1>1, CompilerAssumption
<1>5. \A k \in DOMAIN left' : left'[k] \in Nat
  BY <1>1 DEF CompilerInv
<1> QED
  BY <1>1, <1>2, <1>3, <1>4, <1>5 DEF CompilerInv

\* Control stays in the code.
LEMMA CodeSteps ==
  ASSUME NEW ops, DoneCode(ops), NEW p \in 0..(Len(ops) - 1)
  PROVE  LET i == ops[p + 1]
         IN /\ p + 1 + 0 \in 0..Len(ops) /\ i \in DoneInstr
            /\ i.k # "Return" => p + 1 + i.offset \in 0..Len(ops) /\ p + 1 + 1 \in 0..Len(ops)
<1>1. ops \in Seq(DoneInstr) /\ ops # << >> /\ Len(ops) \in Nat /\ ops[Len(ops)].k = "Return"
  BY DEF DoneCode, Top
<1>2. p + 1 \in 1..Len(ops) /\ p \in Nat /\ p + 1 + 0 \in 0..Len(ops)
  BY <1>1
<1>3. ops[p + 1] \in DoneInstr
  BY <1>1, <1>2
<1>4. ASSUME ops[p + 1].k # "Return"
      PROVE  p + 1 + ops[p + 1].offset \in 0..Len(ops) /\ p + 1 + 1 \in 0..Len(ops)
  <2>1. (p + 1) + ops[p + 1].offset \in 0..Len(ops)
    BY <1>2, <1>4 DEF DoneCode
  <2>2. p + 1 # Len(ops)
    BY <1>1, <1>4
  <2>3. p + 1 + 1 \in 0..Len(ops)
    BY <1>1, <1>2, <2>2
  <2> QED
    BY <2>1, <2>3
<1> QED
  BY <1>2, <1>3, <1>4

\* What a closure captures are registers.
LEMMA ClosureCaps ==
  ASSUME NEW i \in DoneInstr, i.k = "Closure"
  PROVE  {c[1] : c \in i.caps} \subseteq Regs
<1>1. i \in VarInstr
  BY DEF DoneInstr, Instr, JumpInstr
<1>2. i.caps \subseteq Regs \X Variable
  BY <1>1 DEF VarInstr
<1>3. \A c \in i.caps : c[1] \in Regs
  BY <1>2
<1> QED
  BY <1>3

\* Every step of the compiled code keeps the invariant.
LEMMA ExecuteInv ==
  ASSUME CompilerInv, Execute
  PROVE  CompilerInv'
<1>1. /\ pc \in 0..(Len(code) - 1) /\ UNCHANGED <<cvars, code>>
      /\ \/ JumpStep \/ DeclStep \/ TempStep \/ UseStep \/ TestStep \/ PrepStep
         \/ LoopStep \/ ForTestStep \/ ClosureStep \/ ReturnStep
  BY DEF Execute, Running
<1>2. code # << >>
  BY <1>1
<1>3. DoneCode(code) /\ open \subseteq Regs /\ Len(code) \in Nat
  BY <1>2 DEF CompilerInv, DoneCode
<1>4. /\ pc + 1 + 0 \in 0..Len(code) /\ I \in DoneInstr
      /\ I.k # "Return" => pc + 1 + I.offset \in 0..Len(code) /\ pc + 1 + 1 \in 0..Len(code)
  BY <1>1, <1>3, CodeSteps DEF I
<1>5. pc' \in 0..Len(code) /\ open' \subseteq Regs
  <2>1. CASE JumpStep
    BY <1>3, <1>4, <2>1 DEF JumpStep, Goto
  <2>2. CASE DeclStep
    BY <1>3, <1>4, <2>2 DEF DeclStep, Goto
  <2>3. CASE TempStep
    BY <1>3, <1>4, <2>3 DEF TempStep, Goto
  <2>4. CASE UseStep
    BY <1>3, <1>4, <2>4 DEF UseStep, Goto
  <2>5. CASE TestStep
    BY <1>3, <1>4, <2>5 DEF TestStep, Goto
  <2>6. CASE PrepStep
    BY <1>3, <1>4, <2>6 DEF PrepStep, Goto
  <2>7. CASE LoopStep
    BY <1>3, <1>4, <2>7 DEF LoopStep, Goto
  <2>8. CASE ForTestStep
    BY <1>3, <1>4, <2>8 DEF ForTestStep, Goto
  <2>9. CASE ClosureStep
    <3>1. I.k = "Closure" /\ pc' = pc + 1 + 0 /\ open' = open \cup {c[1] : c \in I.caps}
      BY <2>9 DEF ClosureStep, Goto
    <3>2. {c[1] : c \in I.caps} \subseteq Regs
      BY <1>4, <3>1, ClosureCaps
    <3> QED
      BY <1>3, <1>4, <3>1, <3>2
  <2>10. CASE ReturnStep
    BY <1>3, <2>10 DEF ReturnStep
  <2> QED
    BY <1>1, <2>1, <2>2, <2>3, <2>4, <2>5, <2>6, <2>7, <2>8, <2>9, <2>10
<1>6. /\ code' = code /\ fns' = fns /\ result' = result /\ left' = left
  BY <1>1 DEF cvars
<1> QED
  BY <1>2, <1>3, <1>5, <1>6 DEF CompilerInv

\* Every step keeps the invariant.
LEMMA NextInv == CompilerInv /\ [Next]_vars => CompilerInv'
<1> SUFFICES ASSUME CompilerInv, [Next]_vars PROVE CompilerInv'
  OBVIOUS
<1>1. CASE Compile /\ UNCHANGED mvars
  BY <1>1, CompileInv
<1>2. CASE StartChunk \/ StartFunction
  BY <1>2, StartInv
<1>3. CASE Execute
  BY <1>3, ExecuteInv
<1>4. CASE Stopped \/ UNCHANGED vars
  BY <1>4, Zenon DEF Stopped, CompilerInv, vars, cvars, mvars
<1> QED
  BY <1>1, <1>2, <1>3, <1>4 DEF Next

\* Whatever the compiler has met, the functions being compiled are sound: their
\* registers are those of their variables, their blocks belong to constructs, their
\* jumps stay in the code and their upvalues lead to the functions around them;
\* control stays in code that is done.
THEOREM CompilerSound == Spec => []CompilerInv
<1>1. Init => CompilerInv
  BY InitInv
<1>2. CompilerInv /\ [Next]_vars => CompilerInv'
  BY NextInv
<1> QED
  BY <1>1, <1>2, PTL DEF Spec

-----------------------------------------------------------------------------
(* Names resolve to the variables of the functions around. *)

\* What an upvalue of the k-th function stands for, when f has it for those before.
SourceOf(fs, f, k, u) ==
  IF u.desc[1] = "Outer" THEN f[k - 1][u.desc[2] + 1]
  ELSE IF u.desc[1] = "ParentLocal" THEN <<k - 1, VariableIn(fs[k - 1], u.desc[2])>>
  ELSE <<0, Nowhere>>
SourceStep(fs, f, k) ==
  IF k = 0 THEN << >>
  ELSE [j \in 1..Len(fs[k].upvalues) |-> SourceOf(fs, f, k, fs[k].upvalues[j])]

\* The recursive function of Sources exists.
LEMMA SourcesDefined ==
  ASSUME NEW fs, NEW n \in Nat
  PROVE  \E f : f = [k \in 0..n |-> SourceStep(fs, f, k)]
<1> DEFINE Bad == {m \in Nat : ~ \E f : f = [k \in 0..m |-> SourceStep(fs, f, k)]}
<1>1. 0 \notin Bad
  <2> DEFINE f == [k \in 0..0 |-> << >>]
  <2>1. f = [k \in 0..0 |-> SourceStep(fs, f, k)]
    BY DEF SourceStep
  <2> QED
    BY <2>1
<1>2. ASSUME NEW m \in Nat, m \notin Bad PROVE m + 1 \notin Bad
  <2>1. PICK f : f = [k \in 0..m |-> SourceStep(fs, f, k)]
    BY <1>2
  <2> DEFINE g == [k \in 0..(m + 1) |-> IF k = m + 1 THEN SourceStep(fs, f, m + 1) ELSE f[k]]
  <2>2. \A k \in 0..m : g[k] = f[k]
    OBVIOUS
  <2>3. g[m + 1] = SourceStep(fs, f, m + 1)
    OBVIOUS
  <2>4. ASSUME NEW k \in 0..(m + 1) PROVE g[k] = SourceStep(fs, g, k)
    <3>1. k # 0 => k - 1 \in 0..m
      BY <2>4
    <3>2. SourceStep(fs, g, k) = SourceStep(fs, f, k)
      <4>1. k # 0 => g[k - 1] = f[k - 1]
        BY <2>2, <3>1
      <4> HIDE DEF g
      <4>2. k # 0 => \A u : SourceOf(fs, g, k, u) = SourceOf(fs, f, k, u)
        BY <4>1 DEF SourceOf
      <4>3. CASE k = 0
        BY <4>3 DEF SourceStep
      <4>4. CASE k # 0
        BY <4>2, <4>4 DEF SourceStep
      <4> QED
        BY <4>3, <4>4
    <3>3. CASE k = m + 1
      BY <2>3, <3>2, <3>3
    <3>4. CASE k # m + 1
      <4>1. k \in 0..m
        BY <3>4
      <4>2. f[k] = SourceStep(fs, f, k)
        BY <2>1, <4>1
      <4> QED
        BY <2>2, <3>2, <4>1, <4>2
    <3> QED
      BY <3>3, <3>4
  <2>5. g = [k \in 0..(m + 1) |-> g[k]]
    OBVIOUS
  <2> HIDE DEF g
  <2>6. g = [k \in 0..(m + 1) |-> SourceStep(fs, g, k)]
    BY <2>4, <2>5
  <2> QED
    BY <2>6
<1>3. Bad = {}
  <2>1. Bad \in SUBSET Nat
    OBVIOUS
  <2>2. \A m \in Nat : m \notin Bad => m + 1 \notin Bad
    BY <1>2
  <2> HIDE DEF Bad
  <2> QED
    BY <1>1, <2>1, <2>2, Ascent
<1> QED
  BY <1>3

\* Where an upvalue leads is one link, and then where that one leads.
LEMMA SourcesSteps ==
  ASSUME Len(fns) \in Nat
  PROVE  \A k \in 1..Len(fns) : \A j \in 1..Len(fns[k].upvalues) :
           Sources[k][j] = SourceOf(fns, Sources, k, fns[k].upvalues[j])
<1> DEFINE f == CHOOSE f : f = [k \in 0..Len(fns) |-> SourceStep(fns, f, k)]
<1>1. Sources = f
  BY DEF Sources, SourceStep, SourceOf
<1>2. f = [k \in 0..Len(fns) |-> SourceStep(fns, f, k)]
  BY SourcesDefined
<1> HIDE DEF f
<1>3. ASSUME NEW k \in 1..Len(fns), NEW j \in 1..Len(fns[k].upvalues)
      PROVE  f[k][j] = SourceOf(fns, f, k, fns[k].upvalues[j])
  <2>1. k \in 0..Len(fns) /\ k # 0
    BY <1>3
  <2>2. f[k] = SourceStep(fns, f, k)
    BY <1>2, <2>1
  <2>3. SourceStep(fns, f, k)[j] = SourceOf(fns, f, k, fns[k].upvalues[j])
    BY <1>3, <2>1 DEF SourceStep
  <2> QED
    BY <2>2, <2>3
<1> QED
  BY <1>1, <1>3

\* The innermost function with a local variable of the name.
Holders(k, name) == {i \in 1..(k - 1) : LocalOf(fns[i], name) # 0}
\* The visible declaration of a name is in the function around or further out.
LEMMA VisibleIn ==
  ASSUME NEW k \in Nat, k >= 1, NEW name
  PROVE  /\ k = 1 => Visible(k, name) = <<0, Nowhere>>
         /\ k > 1 /\ LocalOf(fns[k - 1], name) # 0 =>
              Visible(k, name) = <<k - 1, fns[k - 1].locals[LocalOf(fns[k - 1], name)].var>>
         /\ k > 1 /\ LocalOf(fns[k - 1], name) = 0 => Visible(k, name) = Visible(k - 1, name)
<1>1. \A n : Visible(n, name) = IF Holders(n, name) = {} THEN <<0, Nowhere>>
                                ELSE <<Max(Holders(n, name)),
                                       fns[Max(Holders(n, name))].locals[LocalOf(fns[Max(Holders(n, name))], name)].var>>
  BY DEF Visible, Holders
<1>2. CASE k = 1
  <2>1. Holders(k, name) = {}
    BY <1>2 DEF Holders
  <2>2. Visible(k, name) = <<0, Nowhere>>
    BY <1>1, <2>1
  <2> QED
    BY <1>2, <2>2
<1>3. CASE k > 1 /\ LocalOf(fns[k - 1], name) # 0
  <2>1. k - 1 \in Holders(k, name) /\ Holders(k, name) \in SUBSET Int /\ \A i \in Holders(k, name) : i <= k - 1
    BY <1>3 DEF Holders
  <2>2. Max(Holders(k, name)) = k - 1
    BY <2>1, MaxIs
  <2>3. Visible(k, name) = <<k - 1, fns[k - 1].locals[LocalOf(fns[k - 1], name)].var>>
    BY <1>1, <2>1, <2>2
  <2> QED
    BY <1>3, <2>3
<1>4. CASE k > 1 /\ LocalOf(fns[k - 1], name) = 0
  <2>1. \A i \in 1..(k - 1) : i = k - 1 \/ i \in 1..((k - 1) - 1)
    OBVIOUS
  <2>2. \A i \in 1..((k - 1) - 1) : i \in 1..(k - 1)
    OBVIOUS
  <2>3. Holders(k, name) = Holders(k - 1, name)
    BY <1>4, <2>1, <2>2 DEF Holders
  <2>4. Visible(k, name) = Visible(k - 1, name)
    BY <1>1, <2>3
  <2> QED
    BY <1>4, <2>4
<1> QED
  BY <1>2, <1>3, <1>4

Resolves(k) ==
  k \in 1..Len(fns) => \A j \in 1..Len(fns[k].upvalues) : Sources[k][j] = Visible(k, fns[k].upvalues[j].name)

\* The upvalues of the outermost function lead to the environment.
LEMMA FirstResolved ==
  ASSUME Compiling(fns)
  PROVE  Resolves(1)
<1>1. Len(fns) \in Nat /\ FirstLinks(fns[1])
  BY CompilingFields DEF Chain, Linked
<1>2. ASSUME 1 \in 1..Len(fns), NEW j \in 1..Len(fns[1].upvalues)
      PROVE  Sources[1][j] = Visible(1, fns[1].upvalues[j].name)
  <2>1. fns[1].upvalues[j].desc[1] = "Environment"
    BY <1>1, <1>2 DEF FirstLinks
  <2>2. Sources[1][j] = SourceOf(fns, Sources, 1, fns[1].upvalues[j])
    BY <1>1, <1>2, SourcesSteps
  <2>3. SourceOf(fns, Sources, 1, fns[1].upvalues[j]) = <<0, Nowhere>>
    BY <2>1 DEF SourceOf
  <2>4. Visible(1, fns[1].upvalues[j].name) = <<0, Nowhere>>
    BY VisibleIn
  <2> QED
    BY <2>2, <2>3, <2>4
<1> QED
  BY <1>2 DEF Resolves

\* If the upvalues of a function lead to what is visible there, so do those of the next
\* one inside.
LEMMA NextResolved ==
  ASSUME Compiling(fns), NEW k \in Nat, k >= 1, Resolves(k)
  PROVE  Resolves(k + 1)
<1> DEFINE m == k + 1
<1>1. Len(fns) \in Nat /\ \A i \in 1..Len(fns) : Sound(fns[i])
  BY CompilingFields DEF Compiling
<1>2. ASSUME m \in 1..Len(fns), NEW j \in 1..Len(fns[m].upvalues)
      PROVE  Sources[m][j] = Visible(m, fns[m].upvalues[j].name)
  <2> DEFINE u == fns[m].upvalues[j]
             l == LocalOf(fns[k], u.name)
  <2>1. k \in 1..Len(fns) /\ m \in 2..Len(fns) /\ m - 1 = k /\ m > 1 /\ m \in Nat /\ m >= 1
    BY <1>1, <1>2
  <2>2. Linking(u, fns[k])
    BY <1>2, <2>1, CompilingFields DEF Chain, Linked, Links
  <2>3. Sources[m][j] = SourceOf(fns, Sources, m, u)
    BY <1>1, <1>2, SourcesSteps
  <2>4. /\ l # 0 => Visible(m, u.name) = <<k, fns[k].locals[l].var>>
        /\ l = 0 => Visible(m, u.name) = Visible(k, u.name)
    BY <2>1, VisibleIn
  <2> HIDE DEF u, m
  <2>5. CASE u.desc[1] = "ParentLocal" /\ l # 0 /\ u.desc[2] = fns[k].locals[l].reg
    <3>1. fns[k].locals \in Seq(Local) /\ Ordered(fns[k].locals)
      BY <1>1, <2>1, SoundLocals
    <3>2. l \in 0..Len(fns[k].locals)
      BY <3>1, LocalOfLast
    <3>3. l \in 1..Len(fns[k].locals)
      BY <2>5, <3>1, <3>2
    <3>4. VariableIn(fns[k], u.desc[2]) = fns[k].locals[l].var
      BY <2>5, <3>1, <3>3, VariableInReg
    <3>5. SourceOf(fns, Sources, m, u) = <<k, VariableIn(fns[k], u.desc[2])>>
      BY <2>1, <2>5 DEF SourceOf
    <3> QED
      BY <2>3, <2>4, <2>5, <3>4, <3>5 DEF u
  <2>6. CASE /\ u.desc[1] = "Outer" /\ l = 0
             /\ u.desc[2] + 1 \in 1..Len(fns[k].upvalues) /\ fns[k].upvalues[u.desc[2] + 1].name = u.name
    <3>1. SourceOf(fns, Sources, m, u) = Sources[k][u.desc[2] + 1]
      BY <2>1, <2>6 DEF SourceOf
    <3>2. Sources[k][u.desc[2] + 1] = Visible(k, u.name)
      BY <2>1, <2>6 DEF Resolves
    <3> QED
      BY <2>3, <2>4, <2>6, <3>1, <3>2 DEF u
  <2> QED
    BY <2>2, <2>5, <2>6 DEF Linking
<1> QED
  BY <1>2 DEF Resolves

\* So it is for all functions, by induction on the depth.
LEMMA AllResolved ==
  ASSUME Compiling(fns)
  PROVE  \A k \in Nat : k >= 1 => Resolves(k)
<1> DEFINE Bad == {m \in Nat : ~Resolves(m + 1)}
<1>1. Bad = {}
  <2>1. Bad \in SUBSET Nat
    OBVIOUS
  <2>2. 0 \notin Bad
    BY FirstResolved
  <2>3. ASSUME NEW m \in Nat, m \notin Bad PROVE m + 1 \notin Bad
    <3>1. Resolves(m + 1) /\ m + 1 \in Nat /\ m + 1 >= 1
      BY <2>3
    <3>2. Resolves((m + 1) + 1)
      BY <3>1, NextResolved
    <3> QED
      BY <3>2
  <2> HIDE DEF Bad
  <2> QED
    BY <2>1, <2>2, <2>3, Ascent
<1>2. ASSUME NEW k \in Nat, k >= 1 PROVE Resolves(k)
  <2>1. k - 1 \in Nat /\ (k - 1) + 1 = k
    BY <1>2
  <2>2. k - 1 \notin Bad
    BY <1>1
  <2>3. Resolves((k - 1) + 1)
    BY <2>1, <2>2
  <2> QED
    BY <2>1, <2>3
<1> QED
  BY <1>2

\* find_variable: however many functions an upvalue is handed through, it is the
\* variable that the innermost scope around the function gives its name.
THEOREM NamesResolve == Spec => []NamesResolveLexically
<1>1. ASSUME CompilerInv PROVE NamesResolveLexically
  <2>1. ASSUME result = "compiling", NEW k \in 1..Len(fns), NEW j \in 1..Len(fns[k].upvalues)
        PROVE  Sources[k][j] = Visible(k, fns[k].upvalues[j].name)
    <3>1. Compiling(fns) /\ Len(fns) \in Nat
      BY <1>1, <2>1, CompilingFields DEF CompilerInv
    <3>2. k \in Nat /\ k >= 1
      BY <2>1, <3>1
    <3>3. Resolves(k)
      BY <3>1, <3>2, AllResolved
    <3> QED
      BY <2>1, <3>3 DEF Resolves
  <2> QED
    BY <2>1 DEF NamesResolveLexically
<1> QED
  BY <1>1, CompilerSound, PTL

-----------------------------------------------------------------------------
(* Registers are those of the variables. *)

\* No function being compiled uses all the registers there are.
Roomy == result = "compiling" => \A k \in 1..Len(fns) : fns[k].alloc.stack_top < NumRegs

\* Packed registers are consistent as long as the last one of all is not in use.
LEMMA PackedConsistent ==
  ASSUME NEW a \in Alloc, Packed(a), a.stack_top < NumRegs
  PROVE  a.registers = 0..(a.stack_top - 1) /\ Consistent(a)
<1> DEFINE top == a.stack_top
           T == {i \in 0..NumRegs : i \notin a.registers}
           U == {0} \cup {i + 1 : i \in a.registers}
<1>1. /\ a.first_free = top /\ a.registers = (0..(top - 1)) \ {NumRegs - 1} /\ a.stack_size \in top..NumRegs
      /\ top \in Nat /\ NumRegs \in Nat
  BY NumRegsAssumption DEF Packed, PackedTo, Alloc
<1>2. a.registers = 0..(top - 1)
  <2> HIDE DEF top
  <2>1. NumRegs - 1 \notin 0..(top - 1)
    BY <1>1 DEF top
  <2> QED
    BY <1>1, <2>1
<1>3. Min(T) = top
  <2>1. T \in SUBSET Int /\ top \in T
    BY <1>1, <1>2
  <2>2. \A y \in T : top <= y
    BY <1>1, <1>2
  <2> HIDE DEF T, top
  <2> QED
    BY <2>1, <2>2, MinIs
<1>4. Max(U) = top
  <2>1. U \in SUBSET Int /\ \A y \in U : y <= top
    BY <1>1, <1>2
  <2>2. top \in U
    <3>1. CASE top = 0
      BY <3>1
    <3>2. CASE top # 0
      <4>1. top - 1 \in a.registers /\ (top - 1) + 1 = top
        BY <1>1, <1>2, <3>2
      <4> HIDE DEF top
      <4> QED
        BY <4>1
    <3> QED
      BY <3>1, <3>2
  <2> HIDE DEF U, top
  <2> QED
    BY <2>1, <2>2, MaxIs
<1> QED
  BY <1>1, <1>2, <1>3, <1>4 DEF Consistent

\* The same for a sound function, whose local variables have registers in use, in order.
LEMMA SoundRegisters ==
  ASSUME NEW F, Sound(F), F.alloc.stack_top < NumRegs
  PROVE  /\ Consistent(F.alloc)
         /\ \A i \in 1..Len(F.locals) :
              /\ F.locals[i].reg \in F.alloc.registers
              /\ i > 1 => F.locals[i].reg > F.locals[i - 1].reg
<1>1. F \in Fun /\ Packed(F.alloc) /\ F.alloc \in Alloc /\ F.locals \in Seq(Local) /\ Ordered(F.locals)
      /\ RegsOf(F.locals) \subseteq 0..(F.alloc.stack_top - 1)
  BY FunFields DEF Sound, Placed, Layout, LayoutTo
<1>2. F.alloc.registers = 0..(F.alloc.stack_top - 1) /\ Consistent(F.alloc)
  BY <1>1, PackedConsistent
<1>3. ASSUME NEW i \in 1..Len(F.locals)
      PROVE  /\ F.locals[i].reg \in F.alloc.registers
             /\ i > 1 => F.locals[i].reg > F.locals[i - 1].reg
  <2>1. F.locals[i].reg \in RegsOf(F.locals)
    BY DEF RegsOf
  <2>2. ASSUME i > 1 PROVE F.locals[i].reg > F.locals[i - 1].reg
    <3>1. i - 1 \in 1..Len(F.locals) /\ i - 1 < i
      BY <1>1, <2>2
    <3>2. F.locals[i - 1].reg < F.locals[i].reg
      BY <1>1, <3>1 DEF Ordered
    <3>3. F.locals[i - 1] \in Local /\ F.locals[i] \in Local
      BY <1>1, <3>1
    <3>4. F.locals[i - 1].reg \in Int /\ F.locals[i].reg \in Int
      BY <3>3, NumRegsAssumption DEF Local, Regs
    <3> QED
      BY <3>2, <3>4
  <2> QED
    BY <1>1, <1>2, <2>1, <2>2
<1> QED
  BY <1>2, <1>3

\* The register of every instruction of done code exists.
LEMMA InstructionRegisters ==
  ASSUME NEW i \in DoneInstr
  PROVE  i.k \in {"Jump", "Return"} \/ i.reg \in None..(NumRegs - 1)
<1>1. CASE i \in VarInstr
  <2>1. i.reg \in {None} \cup Regs
    BY <1>1 DEF VarInstr
  <2> QED
    BY <2>1, NumRegsAssumption DEF None, Regs
<1>2. CASE i \in JumpInstr
  BY <1>2 DEF JumpInstr
<1>3. CASE i = [k |-> "Return", start |-> 0, count |-> 0]
  BY <1>3
<1> QED
  BY <1>1, <1>2, <1>3 DEF DoneInstr, Instr

\* Every register of an instruction exists, control stays in the code, and as long as
\* the last register of all is not in use, the registers in use are those of the local
\* variables and of the loops, in order.  (Pushing the last register does not mark it.)
THEOREM CompilerTyped == Spec => [](Roomy => TypeOK)
<1>1. ASSUME CompilerInv, Roomy PROVE TypeOK
  <2>1. LocalsHaveRegisters
    <3>1. ASSUME result = "compiling", NEW k \in 1..Len(fns)
          PROVE  LET F == fns[k] IN
                 /\ Consistent(F.alloc)
                 /\ \A i \in 1..Len(F.locals) :
                      /\ F.locals[i].reg \in F.alloc.registers
                      /\ i > 1 => F.locals[i].reg > F.locals[i - 1].reg
      <4>1. Sound(fns[k]) /\ fns[k].alloc.stack_top < NumRegs
        BY <1>1, <3>1 DEF CompilerInv, Compiling, Roomy
      <4> QED
        BY <4>1, SoundRegisters
    <3> QED
      BY <3>1 DEF LocalsHaveRegisters
  <2>2. \A i \in 1..Len(code) : code[i].k \in {"Jump", "Return"} \/ code[i].reg \in None..(NumRegs - 1)
    <3>1. CASE code = << >>
      BY <3>1
    <3>2. CASE code # << >>
      <4>1. code \in Seq(DoneInstr)
        BY <1>1, <3>2 DEF CompilerInv, DoneCode
      <4>2. \A i \in 1..Len(code) : code[i] \in DoneInstr
        BY <4>1
      <4> QED
        BY <4>2, InstructionRegisters
    <3> QED
      BY <3>1, <3>2
  <2> QED
    BY <1>1, <2>1, <2>2 DEF TypeOK, CompilerInv, Regs
<1> QED
  BY <1>1, CompilerSound, PTL
=============================================================================
