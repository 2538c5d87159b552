---------------------------- MODULE CompiledCode ----------------------------
(***************************************************************************)
(* What compiled jumps and closures do to variables when they run.  Any    *)
(* function that compiles can be run, with every condition going both      *)
(* ways.  `regs` has, for each register, the variable whose declaration    *)
(* was executed there last and whether a closure has captured that         *)
(* incarnation of it; `open` has the registers with an open upvalue.       *)
(***************************************************************************)
EXTENDS Statements

VARIABLES code, pc, regs, open

mvars == <<code, pc, regs, open>>
vars == <<cvars, mvars>>

Idle == -1
Incarnation(v) == [var |-> v, captured |-> FALSE]
I == code[pc + 1]
Running == pc \in 0..(Len(code) - 1)

Init ==
  /\ CompileInit
  /\ code = << >> /\ pc = Idle /\ open = {}
  /\ regs = [r \in 0..(NumRegs - 1) |-> Incarnation(Nowhere)]

Load(P) ==
  /\ code' = P.ops /\ pc' = 0 /\ open' = {}
  /\ regs' = [r \in 0..(NumRegs - 1) |->
                Incarnation(IF r < P.params THEN <<-1, r>> ELSE Nowhere)]

StartChunk ==
  result = "ok" /\ code = << >> /\ Load(fns[1]) /\ fns' = << >> /\ UNCHANGED <<result, left>>

\* A nested function, once it is finished.
StartFunction ==
  LET P == Finish(ExitBlock(PopC(cur)))
  IN /\ CanClose /\ C.k \in {"function", "localfunction"} /\ P.err = "none"
     /\ Load(P) /\ result' = "ok" /\ fns' = << >> /\ UNCHANGED left

-----------------------------------------------------------------------------
(* run_vm, by what an instruction does to variables and to control. *)

Goto(n) == pc' = pc + 1 + n
Declare(r, v) == regs' = [regs EXCEPT ![r] = Incarnation(v)]

\* close_upvalues of a jump: the upvalues from a register on.
JumpStep ==
  /\ I.k = "Jump" /\ Goto(I.offset)
  /\ open' = IF I.close = None THEN open ELSE {r \in open : r < I.close}
  /\ UNCHANGED regs

DeclStep == I.k \in {"Decl", "ForCall"} /\ Declare(I.reg, I.var) /\ Goto(0) /\ UNCHANGED open
TempStep == I.k = "Temp" /\ Declare(I.reg, Nowhere) /\ Goto(0) /\ UNCHANGED open
UseStep == I.k \in {"Use", "SetUp"} /\ Goto(0) /\ UNCHANGED <<regs, open>>
TestStep == I.k = "Test" /\ (Goto(0) \/ Goto(1)) /\ UNCHANGED <<regs, open>>
PrepStep == I.k = "ForPrep" /\ Goto(I.offset) /\ UNCHANGED <<regs, open>>
LoopStep ==
  /\ I.k = "ForLoop" /\ UNCHANGED open
  /\ \/ Goto(0) /\ UNCHANGED regs
     \/ Goto(I.offset) /\ Declare(I.reg, I.var)
ForTestStep == I.k = "ForTest" /\ (Goto(0) \/ Goto(I.offset)) /\ UNCHANGED <<regs, open>>

\* The variable of a local function starts with its closure.
ClosureStep ==
  /\ I.k = "Closure" /\ Goto(0)
  /\ LET started == IF I.reg = None THEN regs ELSE [regs EXCEPT ![I.reg] = Incarnation(I.var)]
         captured == {c[1] : c \in I.caps}
     IN /\ open' = open \cup captured
        /\ regs' = [r \in DOMAIN regs |->
                      IF r \in captured /\ r \notin open THEN [started[r] EXCEPT !.captured = TRUE]
                      ELSE started[r]]
ReturnStep == I.k = "Return" /\ pc' = Len(code) /\ open' = {} /\ UNCHANGED regs

Execute ==
  /\ Running /\ UNCHANGED <<cvars, code>>
  /\ \/ JumpStep \/ DeclStep \/ TempStep \/ UseStep \/ TestStep \/ PrepStep
     \/ LoopStep \/ ForTestStep \/ ClosureStep \/ ReturnStep

\* Compilation ended with an error, or the code has returned.
Stopped ==
  /\ result \notin {"compiling", "ok"} \/ (pc = Len(code) /\ code # << >>)
  /\ UNCHANGED vars

Next ==
  \/ Compile /\ UNCHANGED mvars
  \/ StartChunk
  \/ StartFunction
  \/ Execute
  \/ Stopped

Spec == Init /\ [][Next]_vars

-----------------------------------------------------------------------------
Errors == {"Registers", "DuplicateLabel", "GotoInvalid", "JumpLocal", "AssignToConst", "panic"}

\* In every function being compiled the allocator's fields agree, and the local
\* variables have registers of their own, in order, below everything else.
LocalsHaveRegisters ==
  result = "compiling" =>
  \A k \in 1..Len(fns) :
    LET F == fns[k] IN
    /\ Consistent(F.alloc)
    /\ \A i \in 1..Len(F.locals) :
         /\ F.locals[i].reg \in F.alloc.registers
         /\ i > 1 => F.locals[i].reg > F.locals[i - 1].reg

\* Functions, counters and the machine are where they can be: every register of
\* an instruction exists, control stays in the code, and the registers of
\* local variables are in order.
TypeOK ==
  /\ result \in {"compiling", "ok"} \cup Errors
  /\ \A k \in DOMAIN left : left[k] \in Nat
  /\ Len(fns) \in 0..MaxFunctions
  /\ pc \in (IF code = << >> THEN {Idle} ELSE 0..Len(code)) /\ open \subseteq 0..(NumRegs - 1)
  /\ \A i \in 1..Len(code) :
       code[i].k \in {"Jump", "Return"} \/ code[i].reg \in None..(NumRegs - 1)
  /\ LocalsHaveRegisters

\* None of the asserts and panics of compiler.rs and register_allocator.rs can
\* happen: registers are freed once, none leaks, no block is left below the
\* stack top that a pending jump counts on.
NoPanic == result # "panic"

\* find_variable: however many functions an upvalue is handed through, it is
\* the variable that the innermost scope around the function gives the name.
Sources[k \in 0..Len(fns)] ==
  IF k = 0 THEN << >>
  ELSE [j \in 1..Len(fns[k].upvalues) |->
          LET d == fns[k].upvalues[j].desc
          IN IF d[1] = "Outer" THEN Sources[k - 1][d[2] + 1]
             ELSE IF d[1] = "ParentLocal" THEN <<k - 1, VariableIn(fns[k - 1], d[2])>>
             ELSE <<0, Nowhere>>]
Visible(k, name) ==
  LET S == {i \in 1..(k - 1) : LocalOf(fns[i], name) # 0}
  IN IF S = {} THEN <<0, Nowhere>>
     ELSE <<Max(S), fns[Max(S)].locals[LocalOf(fns[Max(S)], name)].var>>
NamesResolveLexically ==
  result = "compiling" =>
  \A k \in 1..Len(fns) : \A j \in 1..Len(fns[k].upvalues) :
    Sources[k][j] = Visible(k, fns[k].upvalues[j].name)

\* An instruction that reads or writes a local variable, or captures one, finds
\* it in its register: no jump leads into the scope of a variable past its
\* declaration, and no temporary or other variable has taken its register.
VariablesInScope ==
  Running =>
    /\ I.k = "Use" => regs[I.reg].var = I.var
    /\ I.k = "Closure" => \A c \in I.caps : c[1] = I.reg \/ regs[c[1]].var = c[2]

\* An open upvalue is on the incarnation of the variable that was captured: a
\* jump out of its scope, back to its declaration or on to the next iteration
\* has closed it before the register is used again.
ClosuresKeepVariables == \A r \in open : regs[r].captured
=============================================================================
