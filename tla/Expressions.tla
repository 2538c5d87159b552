----------------------------- MODULE Expressions -----------------------------
(***************************************************************************)
(* The expressions of compiler/compiler.rs.  `expression` turns a parsed   *)
(* expression into a descriptor, folding constants and flattening          *)
(* concatenations; `expr_discharge` and its relatives turn a descriptor    *)
(* into instructions, allocating and freeing registers.                    *)
(*                                                                         *)
(* `s` is upper_functions with current_function last.  An instruction is a *)
(* record with the operation's name in k and its operands.                 *)
(***************************************************************************)
EXTENDS Compiler, Constants

CONSTANTS
  NumConst8,        \* how many constants an 8 bit index reaches (256)
  FieldsPerFlush    \* FIELDS_PER_FLUSH (32)

ASSUME ExpressionsAssumption ==
  NumConst8 \in Nat /\ FieldsPerFlush \in Nat \ {0}

Variable == -1                                  \* VarCount::variable
With(s, F) == Append(Pop(s), F)
Put(s, op) == With(s, Emit(Top(s), op))
Release(s, r) == With(s, FreeReg(Top(s), r))
\* Mutant: temporaries are kept.
ReleaseIfNever(s, o) == s
ReleaseIf(s, o) == IF o.temp THEN Release(s, o.r) ELSE s
StackTop(s) == Top(s).alloc.stack_top
PopStack(s, r) == With(s, [Top(s) EXCEPT !.alloc = PopTo(@, r)])
PushN(s, n) == With(s, PushRegs(Top(s), n))
\* What is done with the result of a step.
Then(r, next(_)) == next(r)

\* The functions of the compiler that use each other do so through Generate,
\* at the end, which has all of them by name.
RECURSIVE Generate(_, _, _)
Expression(s, e) == Generate("expression", s, e)
NewPrototype(s, f) == Generate("new_prototype", s, f)
Discharge(s, x, dest) == Generate("expr_discharge", s, <<x, dest>>)
PushArguments(s, xs) == Generate("push_arguments", s, xs)
CallFunction(s, func, args, mode) == Generate("call_function", s, <<func, args, mode>>)
CallMethod(s, table, method, args, mode) == Generate("call_method", s, <<table, method, args, mode>>)
BlockStatements(s, b) == Generate("block_statements", s, b)
StatementsOf(s, b) == Generate("statements", s, b)

-----------------------------------------------------------------------------
(* From parsed expressions to descriptors. *)

ConstX(c) == <<"Constant", c>>
VarX(v) == <<"Variable", v>>
LocalX(r) == VarX([kind |-> "Local", index |-> r, attr |-> "none", name |-> ""])
IsConst(x) == x[1] = "Constant"
IsLocalX(x) == x[1] = "Variable" /\ x[2].kind = "Local"

unary_operator_expression(op, x) ==
  IF IsConst(x) /\ CanFoldUnary(op, x[2]) THEN ConstX(FoldUnary(op, x[2]))
  ELSE <<"Unary", op, x>>

Parts(x) == IF x[1] = "Concat" THEN x[2] ELSE <<x>>

binary_operator_expression(l, op, r) ==
  CASE op \in Comparisons ->
         IF IsConst(l) /\ IsConst(r) /\ CanCompare(op, l[2], r[2])
         THEN ConstX(Bool(Compare(op, l[2], r[2]))) ELSE <<"Comparison", op, l, r>>
    [] op \in {"and", "or"} -> <<"ShortCircuit", op, l, r>>
    [] op = "Concat" -> <<"Concat", Parts(l) \o Parts(r)>>
    [] OTHER ->
         IF IsConst(l) /\ IsConst(r) /\ CanFold(op, l[2], r[2])
         THEN ConstX(Fold(op, l[2], r[2])) ELSE <<"Binary", op, l, r>>

\* find_variable, as an expression.
NameX(s, name) ==
  Then(find_variable(s, name), LAMBDA v :
    [s |-> v.fns, x |-> VarX([kind |-> v.kind, index |-> v.index, attr |-> v.attr, name |-> name])])
get_environment(s) == NameX(s, "_ENV")

\* Expressions compiled to descriptors one after the other.
Expressions(s, es) ==
  FoldLeft(LAMBDA a, e : Then(Expression(a.s, e), LAMBDA r : [s |-> r.s, xs |-> Append(a.xs, r.x)]),
           [s |-> s, xs |-> << >>], es)

FieldKey(s, f) == IF f[1] = "named" THEN [s |-> s, x |-> ConstX(Str(f[2]))] ELSE Expression(s, f[2])

\* Array fields and record fields are kept apart.
table_constructor_expression(s, fields) ==
  LET add(a, f) ==
        IF f[1] = "array"
        THEN Then(Expression(a.s, f[2]), LAMBDA v : [a EXCEPT !.s = v.s, !.array = Append(@, v.x)])
        ELSE Then(FieldKey(a.s, f[2]), LAMBDA k : Then(Expression(k.s, f[3]), LAMBDA v :
               [a EXCEPT !.s = v.s, !.record = Append(@, <<k.x, v.x>>)]))
  IN Then(FoldLeft(add, [s |-> s, array |-> << >>, record |-> << >>], fields), LAMBDA all :
       [s |-> all.s, x |-> <<"Table", all.array, all.record>>])

primary_expression(s, p) ==
  IF p[1] = "name" THEN NameX(s, p[2])
  ELSE Then(Expression(s, p[2]), LAMBDA r : [r EXCEPT !.x = <<"Group", r.x>>])

suffixed_expression(s, e) ==
  LET suffix(a, f) ==
        IF f[1] = "field" THEN Then(FieldKey(a.s, f[2]), LAMBDA k : [s |-> k.s, x |-> <<"Field", a.x, k.x>>])
        ELSE Then(Expressions(a.s, f[3]), LAMBDA r :
               [s |-> r.s, x |-> IF f[2] = "" THEN <<"Call", a.x, r.xs>>
                                 ELSE <<"Method", a.x, ConstX(Str(f[2])), r.xs>>])
  IN FoldLeft(suffix, primary_expression(s, e.primary), e.suffixes)

simple_expression(s, e) ==
  CASE e[1] = "const" -> [s |-> s, x |-> ConstX(e[2])]
    [] e[1] = "varargs" -> [s |-> s, x |-> <<"VarArgs">>]
    [] e[1] = "table" -> table_constructor_expression(s, e[2])
    [] e[1] = "function" -> NewPrototype(s, e[2])
    [] e[1] = "suffixed" -> suffixed_expression(s, e[2])

head_expression(s, h) ==
  IF h[1] = "simple" THEN simple_expression(s, h[2])
  ELSE Then(Expression(s, h[3]), LAMBDA r : [r EXCEPT !.x = unary_operator_expression(h[2], r.x)])

expression(s, e) ==
  FoldLeft(LAMBDA a, t : Then(Expression(a.s, t[2]), LAMBDA r :
             [s |-> r.s, x |-> binary_operator_expression(a.x, t[1], r.x)]),
           head_expression(s, e.head), e.tail)

-----------------------------------------------------------------------------
(* From descriptors to instructions. *)

AllocateNew == <<"AllocateNew">>
PushNew == <<"PushNew">>
Register(r) == <<"Register", r>>

new_destination(s, dest) ==
  Then(Top(s).alloc, LAMBDA a :
    CASE dest[1] = "Register" -> [s |-> s, r |-> dest[2]]
      [] dest[1] = "PushNew" -> [s |-> PushN(s, 1), r |-> a.stack_top]
      [] dest[1] = "AllocateNew" ->
           [s |-> With(s, IF CanAllocate(a) THEN [Top(s) EXCEPT !.alloc = Allocate(@)]
                          ELSE Fail(Top(s), "Registers")), r |-> Allocated(a)])

\* An instruction whose dest is the destination.
Into(d, op) == [s |-> Put(d.s, [x \in DOMAIN op \cup {"dest"} |-> IF x = "dest" THEN d.r ELSE op[x]]),
                r |-> d.r]

\* Constants are kept once each, identical ones only.
get_constant(s, c) ==
  Then(SelectInSeq(Top(s).consts, LAMBDA x : x = c), LAMBDA i :
    IF i # 0 THEN [s |-> s, i |-> i - 1]
    ELSE [s |-> With(s, [Top(s) EXCEPT !.consts = Append(@, c)]), i |-> Len(Top(s).consts)])

expr_any_register(s, x) ==
  IF IsLocalX(x) THEN [s |-> s, r |-> x[2].index, temp |-> FALSE]
  ELSE Then(Discharge(s, x, AllocateNew), LAMBDA d : [s |-> d.s, r |-> d.r, temp |-> TRUE])

expr_any_register_or_constant(s, x) ==
  Then(IF IsConst(x) THEN get_constant(s, x[2]) ELSE [s |-> s, i |-> NumConst8], LAMBDA c :
    IF c.i < NumConst8 THEN [s |-> c.s, rc |-> <<"K", c.i>>, r |-> None, temp |-> FALSE]
    ELSE Then(expr_any_register(c.s, x), LAMBDA o : [s |-> o.s, rc |-> <<"R", o.r>>, r |-> o.r, temp |-> o.temp]))

\* Two operands, then their temporaries are free.
Operands(s, l, r) ==
  Then(expr_any_register_or_constant(s, l), LAMBDA a :
    Then(expr_any_register_or_constant(a.s, r), LAMBDA b :
      [s |-> ReleaseIf(ReleaseIf(b.s, a), b), left |-> a.rc, right |-> b.rc]))

set_rtable(s, table, key, value) ==
  Then(Operands(s, key, value), LAMBDA o :
    Put(o.s, [k |-> "SetTable", table |-> table, key |-> o.left, value |-> o.right]))

set_uptable(s, table, key, value) ==
  Then(Operands(s, key, value), LAMBDA o :
    Put(o.s, [k |-> "SetUpTable", table |-> table, key |-> o.left, value |-> o.right]))

set_table(s, table, key, value) ==
  IF table[1] = "Variable" /\ table[2].kind = "UpValue"
  THEN set_uptable(s, table[2].index, key, value)
  ELSE Then(expr_any_register(s, table), LAMBDA t : ReleaseIf(set_rtable(t.s, t.r, key, value), t))

get_table(s, table, key, dest) ==
  IF table[1] = "Variable" /\ table[2].kind = "UpValue"
  THEN Then(expr_any_register_or_constant(s, key), LAMBDA k :
         Into(new_destination(ReleaseIf(k.s, k), dest),
              [k |-> "GetUpTable", table |-> table[2].index, key |-> k.rc]))
  ELSE Then(expr_any_register(s, table), LAMBDA t :
         Then(expr_any_register_or_constant(t.s, key), LAMBDA k :
           Into(new_destination(ReleaseIf(ReleaseIf(k.s, t), k), dest),
                [k |-> "GetTable", table |-> t.r, key |-> k.rc])))

\* Arguments or results at the top of the stack, not allocated any more; only
\* the last of them may be several values.
push_arguments(s, xs) ==
  IF xs = << >> THEN [s |-> s, n |-> 0]
  ELSE Then(FoldLeft(LAMBDA t, x : Discharge(t, x, PushNew).s, s, Front(xs)), LAMBDA t :
         Then(Last(xs), LAMBDA x :
           Then(CASE x[1] = "Call" -> CallFunction(t, x[2], x[3], Variable).s
                  [] x[1] = "Method" -> CallMethod(t, x[2], x[3], x[4], Variable).s
                  [] x[1] = "VarArgs" -> Put(t, [k |-> "VarArgs", dest |-> StackTop(t), count |-> Variable])
                  [] OTHER -> Discharge(t, x, PushNew).s, LAMBDA last :
             [s |-> PopStack(last, StackTop(s)),
              n |-> IF x[1] \in {"Call", "Method", "VarArgs"} THEN Variable ELSE Len(xs)])))

\* CallMode: a number of results, or a tail call.
TailCall == -2
\* Mutant: a variable number of arguments becomes one.
CallOpOne(func, args, mode) ==
  IF mode = TailCall THEN [k |-> "TailCall", func |-> func, args |-> IF args = Variable THEN 1 ELSE args]
  ELSE [k |-> "Call", func |-> func, args |-> IF args = Variable THEN 1 ELSE args, returns |-> mode]
CallOp(func, args, mode) ==
  IF mode = TailCall THEN [k |-> "TailCall", func |-> func, args |-> args]
  ELSE [k |-> "Call", func |-> func, args |-> args, returns |-> mode]

call_function(s, func, args, mode) ==
  Then(Discharge(s, func, PushNew), LAMBDA f :
    Then(PushArguments(f.s, args), LAMBDA a :
      [s |-> Release(Put(a.s, CallOp(f.r, a.n, mode)), f.r), r |-> f.r]))

MethodCall(s, base, table, key, args, mode) ==
  Then(PushArguments(Put(PushN(s, 2), [k |-> "Method", base |-> base, table |-> table, key |-> key]), args),
    LAMBDA a : [s |-> PopStack(Put(a.s, CallOp(base, IF a.n = Variable THEN Variable ELSE a.n + 1, mode)), base),
                r |-> base])
call_method(s, table, method, args, mode) ==
  Then(expr_any_register(s, table), LAMBDA t :
    Then(expr_any_register_or_constant(t.s, method), LAMBDA m :
      Then(ReleaseIf(ReleaseIf(m.s, t), m), LAMBDA freed :
        MethodCall(freed, StackTop(freed), t.r, m.rc, args, mode))))

\* The one result of a call that was made goes where it is wanted.
Returned(c, dest) ==
  IF dest[1] = "Register"
  THEN IF dest[2] = c.r THEN [s |-> With(c.s, Fail(Top(c.s), "panic")), r |-> c.r]
       ELSE [s |-> Put(c.s, [k |-> "Move", dest |-> dest[2], source |-> c.r]), r |-> dest[2]]
  ELSE [s |-> IF StackTop(c.s) = c.r THEN PushN(c.s, 1) ELSE With(c.s, Fail(Top(c.s), "panic")),
        r |-> c.r]

Load(s, c, dest) ==
  Then(new_destination(s, dest), LAMBDA d :
    CASE c = Nil -> Into(d, [k |-> "LoadNil", count |-> 1])
      [] c[1] = "bool" -> Into(d, [k |-> "LoadBool", value |-> c[2], skip_next |-> FALSE])
      [] OTHER -> Then(get_constant(d.s, c), LAMBDA k :
                    Into([d EXCEPT !.s = k.s], [k |-> "LoadConstant", constant |-> k.i])))

LoadVariable(s, v, dest) ==
  CASE v.kind = "Local" -> Into(new_destination(s, dest), [k |-> "Move", source |-> v.index])
    [] v.kind = "UpValue" -> Into(new_destination(s, dest), [k |-> "GetUpValue", source |-> v.index])
    [] v.kind = "Global" ->
         Then(get_environment(s), LAMBDA e : get_table(e.s, e.x, ConstX(Str(v.name)), dest))

\* > and >= are < and <= with the operands swapped, ~= is == the other way round.
comparison_binop_operation(op, l, r, skip_if) ==
  LET swapped == op \in {"Gt", "Ge"}
  IN [k |-> CASE op \in {"Eq", "Ne"} -> "Eq" [] op \in {"Lt", "Gt"} -> "Less" [] OTHER -> "LessEq",
      skip_if |-> IF op = "Ne" THEN ~skip_if ELSE skip_if,
      left |-> IF swapped THEN r ELSE l, right |-> IF swapped THEN l ELSE r]

\* The right operand, in the same register, unless the test jumps over it.
Otherwise(s, skip, test, r, dest) ==
  Then(Discharge(With(s, Jump(TakeLabel(Emit(Top(s), test)), skip)), r, Register(dest)), LAMBDA right :
    [s |-> With(right.s, JumpTarget(Top(right.s), skip)), r |-> dest])

\* Mutant: the left operand is not copied to the destination.
ShortCircuitKeeps(s, op, l, r, dest) ==
  Then(expr_any_register(s, l), LAMBDA a :
    Then(new_destination(ReleaseIf(a.s, a), dest), LAMBDA d :
      Otherwise(d.s, Unique(Top(d.s)), [k |-> "Test", value |-> a.r, is_true |-> op = "and"], r, d.r)))

ShortCircuit(s, op, l, r, dest) ==
  Then(expr_any_register(s, l), LAMBDA a :
    Then(new_destination(ReleaseIf(a.s, a), dest), LAMBDA d :
      Otherwise(d.s, Unique(Top(d.s)),
                IF a.r = d.r THEN [k |-> "Test", value |-> a.r, is_true |-> op = "and"]
                ELSE [k |-> "TestSet", dest |-> d.r, value |-> a.r, is_true |-> op = "and"], r, d.r)))

Comparison(s, op, l, r, dest) ==
  Then(Operands(s, l, r), LAMBDA o :
    Then(new_destination(o.s, dest), LAMBDA d :
      [s |-> FoldLeft(Put, d.s,
               <<comparison_binop_operation(op, o.left, o.right, FALSE), JumpOp(1, None),
                 [k |-> "LoadBool", dest |-> d.r, value |-> FALSE, skip_next |-> TRUE],
                 [k |-> "LoadBool", dest |-> d.r, value |-> TRUE, skip_next |-> FALSE]>>),
       r |-> d.r]))

\* Array fields, FieldsPerFlush at a time; only the last ones may be variable.
SetList(s, table, count) == PopStack(Put(s, [k |-> "SetList", base |-> table, count |-> count]), table + 2)
RECURSIVE SetLists(_, _, _)
SetLists(s, table, xs) ==
  LET full == FoldLeft(LAMBDA t, i : Discharge(t, xs[i], Register(StackTop(s) + i - 1)).s,
                       PushN(s, FieldsPerFlush), [i \in 1..FieldsPerFlush |-> i])
  IN CASE xs = << >> -> s
       [] Len(xs) \in 1..FieldsPerFlush -> Then(PushArguments(s, xs), LAMBDA a : SetList(a.s, table, a.n))
       [] OTHER -> SetLists(SetList(full, table, FieldsPerFlush), table,
                            SubSeq(xs, FieldsPerFlush + 1, Len(xs)))

\* The table, the register after it that counts its array fields, and they.
ArrayFields(s, table, xs) ==
  IF StackTop(s) # table + 1 THEN With(s, Fail(Top(s), "panic"))
  ELSE Release(SetLists(Load(PushN(s, 1), Integer(0), Register(table + 1)).s, table, xs), table + 1)
Moved(s, dest, r) ==
  IF dest[1] # "Register" THEN [s |-> s, r |-> r]
  ELSE [s |-> Release(Put(s, [k |-> "Move", dest |-> dest[2], source |-> r]), r), r |-> dest[2]]
TableConstructor(s, array, record, dest) ==
  Then(StackTop(s), LAMBDA table :
    Then(FoldLeft(LAMBDA t, f : set_rtable(t, table, f[1], f[2]),
                  Put(PushN(s, 1), [k |-> "NewTable", dest |-> table]), record), LAMBDA t :
      Moved(ArrayFields(t, table, array), dest, table)))

\* The operands are pushed; when registers run out, what there is becomes one.
\* With not even a second register the code would try again for ever.
RECURSIVE ConcatRest(_, _, _, _)
ConcatRest(s, xs, source, count) ==
  LET flush == [k |-> "Concat", dest |-> source, source |-> source, count |-> count]
  IN IF xs = << >> \/ Top(s).err # "none" THEN [s |-> s, n |-> count]
     ELSE IF CanPush(Top(s).alloc, 1)
     THEN ConcatRest(Discharge(PushN(s, 1), xs[1], Register(StackTop(s))).s, Tail(xs), source, count + 1)
     ELSE IF CanPush(PopTo(Top(s).alloc, source + 1), 1)
     THEN ConcatRest(PopStack(Put(s, flush), source + 1), xs, source, 1)
     ELSE [s |-> With(s, Fail(Top(s), "panic")), n |-> count]

Concat(s, xs, dest) ==
  Then(new_destination(s, dest), LAMBDA d :
    Then(Discharge(d.s, xs[1], PushNew), LAMBDA first :
      Then(ConcatRest(first.s, Tail(xs), first.r, 1), LAMBDA all :
        [s |-> PopStack(Put(all.s, [k |-> "Concat", dest |-> d.r, source |-> first.r, count |-> all.n]), first.r),
         r |-> d.r])))

UnaryOps == [not |-> "Not", neg |-> "Minus", bnot |-> "BitNot", len |-> "Length"]

expr_discharge(s, x, dest) ==
  CASE x[1] = "Variable" -> LoadVariable(s, x[2], dest)
    [] x[1] = "Constant" -> Load(s, x[2], dest)
    [] x[1] = "VarArgs" -> Into(new_destination(s, dest), [k |-> "VarArgs", count |-> 1])
    [] x[1] = "Unary" ->
         Then(expr_any_register(s, x[3]), LAMBDA u :
           Into(new_destination(ReleaseIf(u.s, u), dest), [k |-> UnaryOps[x[2]], source |-> u.r]))
    [] x[1] = "Binary" ->
         Then(Operands(s, x[3], x[4]), LAMBDA o :
           Into(new_destination(o.s, dest), [k |-> x[2], left |-> o.left, right |-> o.right]))
    [] x[1] = "Comparison" -> Comparison(s, x[2], x[3], x[4], dest)
    [] x[1] = "ShortCircuit" -> ShortCircuit(s, x[2], x[3], x[4], dest)
    [] x[1] = "Table" -> TableConstructor(s, x[2], x[3], dest)
    [] x[1] = "Field" -> get_table(s, x[2], x[3], dest)
    \* the prototype itself, not its index
    [] x[1] = "Closure" -> Into(new_destination(s, dest), [k |-> "Closure", proto |-> x[2]])
    [] x[1] = "Call" -> Returned(CallFunction(s, x[2], x[3], 1), dest)
    [] x[1] = "Method" -> Returned(CallMethod(s, x[2], x[3], x[4], 1), dest)
    [] x[1] = "Concat" -> Concat(s, x[2], dest)
    [] x[1] = "Group" -> Discharge(s, x[2], dest)

\* `count` values in new registers at the top of the stack.
expr_push_count(s, x, count) ==
  Then([s |-> PushN(s, count), r |-> StackTop(s)], LAMBDA pushed :
    CASE x[1] \in {"Call", "Method"} ->
           Then(IF x[1] = "Call" THEN CallFunction(s, x[2], x[3], count)
                ELSE CallMethod(s, x[2], x[3], x[4], count), LAMBDA c :
             [s |-> PushN(c.s, count), r |-> c.r])
      [] x[1] = "VarArgs" -> Into(pushed, [k |-> "VarArgs", count |-> count])
      [] x = ConstX(Nil) -> Into(pushed, [k |-> "LoadNil", count |-> count])
      [] OTHER ->
           Then(Discharge(s, x, PushNew), LAMBDA one :
             IF count = 1 THEN one
             ELSE [s |-> Put(PushN(one.s, count - 1), [k |-> "LoadNil", dest |-> one.r + 1, count |-> count - 1]),
                   r |-> one.r]))

\* Skips the next instruction if the expression's truth is skip_if.
gen_comparison(s, x, skip_if) ==
  Then(Operands(s, x[3], x[4]), LAMBDA o :
    Put(o.s, comparison_binop_operation(x[2], o.left, o.right, skip_if)))
gen_test(s, x, is_true) ==
  Then(expr_any_register(s, x), LAMBDA a :
    Put(ReleaseIf(a.s, a), [k |-> "Test", value |-> a.r, is_true |-> is_true]))
expr_test(s, x, skip_if) ==
  CASE IsConst(x) -> IF to_bool(x[2]) = skip_if THEN Put(s, JumpOp(1, None)) ELSE s
    [] x[1] = "Comparison" -> gen_comparison(s, x, skip_if)
    [] x[1] = "Unary" /\ x[2] = "not" ->
         IF x[3][1] = "Comparison" THEN gen_comparison(s, x[3], ~skip_if) ELSE gen_test(s, x[3], ~skip_if)
    [] OTHER -> gen_test(s, x, skip_if)

-----------------------------------------------------------------------------
(* Statements that are lists of expressions. *)

\* A single call is a tail call.
return_statement(s, es) ==
  Then(Expressions(s, es), LAMBDA r :
    CASE Len(es) = 1 /\ r.xs[1][1] = "Call" -> CallFunction(r.s, r.xs[1][2], r.xs[1][3], TailCall).s
      [] Len(es) = 1 /\ r.xs[1][1] = "Method" ->
           CallMethod(r.s, r.xs[1][2], r.xs[1][3], r.xs[1][4], TailCall).s
      [] OTHER -> Then(PushArguments(r.s, r.xs), LAMBDA p :
                    Put(p.s, [k |-> "Return", start |-> StackTop(p.s), count |-> p.n])))

\* Names with their attributes, in registers from r on.
AddLocals(s, names, r) ==
  With(s, FoldLeft(LAMBDA F, i : AddLocal(F, names[i][1], names[i][2], r + i - 1, Nowhere), Top(s),
                   [i \in 1..Len(names) |-> i]))

\* A value that nothing is assigned from.
Discard(s, x) == Then(Discharge(s, x, AllocateNew), LAMBDA d : Release(d.s, d.r))

local_statement(s, names, es) ==
  LET n == Len(names)
      v == Len(es)
      value(t, i) ==
        Then(Expression(t, es[i]), LAMBDA e :
          CASE i > n -> Discard(e.s, e.x)
            [] i < v /\ i <= n ->
                 Then(Discharge(e.s, e.x, PushNew), LAMBDA d : AddLocals(d.s, <<names[i]>>, d.r))
            [] i = v /\ i <= n ->
                 Then(expr_push_count(e.s, e.x, 1 + n - v), LAMBDA d : AddLocals(d.s, SubSeq(names, i, n), d.r)))
      close == {i \in 1..n : names[i][2] = "close"}
  IN IF close # {} THEN With(s, Fail(Top(s), IF Cardinality(close) > 1 THEN "MultipleClose" ELSE "CloseUnsupported"))
     ELSE IF v = 0
     THEN AddLocals(Put(PushN(s, n), [k |-> "LoadNil", dest |-> StackTop(s), count |-> n]), names, StackTop(s))
     ELSE FoldLeft(value, s, [i \in 1..v |-> i])

AssignName(s, name, x) ==
  Then(NameX(s, name), LAMBDA t :
    CASE t.x[2].attr = "const" -> With(s, Fail(Top(s), "AssignToConst"))
      [] t.x[2].kind = "Local" -> Discharge(t.s, x, Register(t.x[2].index)).s
      [] t.x[2].kind = "UpValue" ->
           Then(expr_any_register(t.s, x), LAMBDA a :
             ReleaseIf(Put(a.s, [k |-> "SetUpValue", source |-> a.r, dest |-> t.x[2].index]), a))
      [] t.x[2].kind = "Global" ->
           Then(get_environment(t.s), LAMBDA e : set_table(e.s, e.x, ConstX(Str(name)), x)))

assign(s, target, x) ==
  IF target[1] = "name" THEN AssignName(s, target[2], x)
  ELSE Then(suffixed_expression(s, target[2]), LAMBDA t :
         Then(FieldKey(t.s, target[3]), LAMBDA k : set_table(k.s, t.x, k.x, x)))

\* One target takes its value where it is; with several, the values are first
\* put in registers and then assigned from the last one on.
AssignOne(s, target, es) ==
  LET discard(t, e) == Then(Expression(t, e), LAMBDA x : Discard(x.s, x.x))
  IN FoldLeft(discard, Then(Expression(s, es[1]), LAMBDA e : assign(e.s, target, e.x)), Tail(es))
AssignAll(s, targets, es) ==
  LET n == Len(targets)
      v == Len(es)
      value(a, i) ==
        Then(Expression(a.s, es[i]), LAMBDA e :
          CASE i > n -> [a EXCEPT !.s = Discard(e.s, e.x)]
            [] i < v /\ i <= n ->
                 Then(Discharge(e.s, e.x, AllocateNew), LAMBDA d : [s |-> d.s, regs |-> Append(a.regs, d.r)])
            [] i = v /\ i <= n ->
                 Then(expr_push_count(e.s, e.x, 1 + n - v), LAMBDA d :
                   [s |-> d.s, regs |-> a.regs \o [j \in 1..(1 + n - i) |-> d.r + j - 1]]))
  IN Then(FoldLeft(value, [s |-> s, regs |-> << >>], [i \in 1..v |-> i]), LAMBDA a :
       FoldLeft(LAMBDA t, i : Release(assign(t, targets[i], LocalX(a.regs[i])), a.regs[i]), a.s,
                [i \in 1..n |-> n + 1 - i]))
assignment_statement(s, targets, es) ==
  IF Len(targets) = 1 THEN AssignOne(s, targets[1], es) ELSE AssignAll(s, targets, es)

function_call_statement(s, e) ==
  Then(suffixed_expression(s, [e EXCEPT !.suffixes = Front(@)]), LAMBDA h :
    Then(Last(e.suffixes), LAMBDA call :
      Then(Expressions(h.s, call[3]), LAMBDA a :
        IF call[2] = "" THEN CallFunction(a.s, h.x, a.xs, 0).s
        ELSE CallMethod(a.s, h.x, ConstX(Str(call[2])), a.xs, 0).s)))

Leave(s) == With(s, ExitBlock(Top(s)))
block(s, b) == Leave(BlockStatements(With(s, EnterBlock(Top(s))), b))

\* Each part jumps to the next one when its condition does not hold, and, when
\* another one follows, to the end after its block.
IfPart(s, part, next, end, jumps) ==
  Then(Expression(s, part[1]), LAMBDA c :
    Then(expr_test(c.s, c.x, TRUE), LAMBDA t :
      Then(BlockStatements(With(t, EnterBlock(Jump(Top(t), next))), part[2]), LAMBDA b :
        Leave(IF jumps THEN With(b, Jump(Top(b), end)) ELSE b))))
if_statement(s, st) ==
  LET n == Len(st.parts)
      end == Unique(Top(s))
      part(a, i) ==
        Then(With(a.s, TakeLabel(JumpTarget(Top(a.s), a.next))), LAMBDA t :
          [s |-> IfPart(t, st.parts[i], Unique(Top(a.s)), end, i # n \/ st.else # << >>),
           next |-> Unique(Top(a.s))])
  IN Then(FoldLeft(part, [s |-> With(s, TakeLabel(TakeLabel(Top(s)))), next |-> Unique(TakeLabel(Top(s)))],
                   [i \in 1..n |-> i]), LAMBDA all :
       Then(With(all.s, JumpTarget(Top(all.s), all.next)), LAMBDA last :
         Then(IF st.else = << >> THEN last ELSE block(last, st.else[1]), LAMBDA t :
           With(t, JumpTarget(Top(t), end)))))

while_statement(s, st) ==
  LET start == Unique(Top(s))
      end == Unique(TakeLabel(Top(s)))
  IN Then(Expression(With(s, JumpTarget(TakeLabel(TakeLabel(Top(s))), start)), st.condition), LAMBDA c :
       Then(expr_test(c.s, c.x, TRUE), LAMBDA t :
         Then(BlockStatements(With(t, EnterBlock(Jump(Top(t), end))), st.block), LAMBDA b :
           With(b, JumpTarget(ExitBlock(JumpTarget(Jump(Top(b), start), Break)), end)))))

\* The condition is in the scope of the body's variables.
repeat_statement(s, st) ==
  LET start == Unique(Top(s))
  IN Then(StatementsOf(With(s, JumpTarget(EnterBlock(EnterBlock(TakeLabel(Top(s)))), start)), st.body), LAMBDA b :
       Then(Expression(b, st.until), LAMBDA c :
         Then(expr_test(c.s, c.x, TRUE), LAMBDA t :
           With(t, ExitBlock(JumpTarget(ExitBlock(Jump(Top(t), start)), Break))))))

\* The block of a loop's variables in the one for Break.
EnterLoop(s, names) ==
  Then(StackTop(s), LAMBDA r :
    AddLocals(PushN(With(s, EnterBlock(EnterBlock(Top(s)))), Len(names)), names, r))
LeaveLoop(s, base) ==
  PopStack(With(s, ExitBlock(JumpTarget(Top(s), Break))), base)
PushEach(s, es) ==
  FoldLeft(LAMBDA t, e : Then(Expression(t, e), LAMBDA x : Discharge(x.s, x.x, PushNew).s), s, es)

\* Patches the placeholder and adds the jump back.
NumericLoop(s, prep, loop, base) ==
  LET patched == [k |-> "NumericForPrep", base |-> base, jump |-> jump_offset(prep, loop)]
  IN Put(With(s, [Top(s) EXCEPT !.ops = SubSeq(@, 1, prep) \o <<patched>> \o SubSeq(@, prep + 2, loop)]),
         [k |-> "NumericForLoop", base |-> base, jump |-> jump_offset(loop, prep + 1)])
ForNumeric(s, st) ==
  LET base == StackTop(s)
      one == [head |-> <<"simple", <<"const", Integer(1)>>>>, tail |-> << >>]
  IN Then(PushEach(s, IF Len(st.range) = 3 THEN st.range ELSE Append(st.range, one)), LAMBDA p :
       Then(Put(p, [k |-> "NumericForPrep", base |-> base, jump |-> 0]), LAMBDA t :
         Then(Leave(BlockStatements(EnterLoop(t, <<<<st.name, "none">>>>), st.body)), LAMBDA b :
           IF Top(b).err # "none" THEN b
           ELSE LeaveLoop(NumericLoop(b, Here(Top(p)), Here(Top(b)), base), base))))

\* One argument gives all three values; of several, each gives one of them.
GenericArguments(s, es) ==
  IF Len(es) = 1 THEN Then(Expression(s, es[1]), LAMBDA x : expr_push_count(x.s, x.x, 3).s)
  ELSE LET nil == [head |-> <<"simple", <<"const", Nil>>>>, tail |-> << >>]
       IN PushEach(s, [i \in 1..3 |-> IF i <= Len(es) THEN es[i] ELSE nil])
GenericLoop(s, start, base, n) ==
  Then(Put(s, [k |-> "GenericForCall", base |-> base, var_count |-> n]), LAMBDA t :
    Put(t, [k |-> "GenericForLoop", base |-> base + 2, jump |-> jump_offset(Here(Top(t)), start)]))
ForGeneric(s, st) ==
  LET label == Unique(Top(s))
      base == StackTop(s)
      names == [i \in 1..Len(st.names) |-> <<st.names[i], "none">>]
  IN Then(EnterLoop(GenericArguments(With(s, TakeLabel(Top(s))), st.arguments), names), LAMBDA p :
       Then(With(p, Jump(Top(p), label)), LAMBDA t :
         Then(Leave(BlockStatements(t, st.body)), LAMBDA b :
           LeaveLoop(GenericLoop(With(b, JumpTarget(Top(b), label)), Here(Top(t)), base, Len(names)), base))))

\* function name.field:method(): the table of the last field, then the function.
FieldTable(s, names) ==
  Then(NameX(s, names[1]), LAMBDA t :
    [s |-> t.s, x |-> FoldLeft(LAMBDA x, n : <<"Field", x, ConstX(Str(n))>>, t.x, Tail(names))])
StoreFunction(s, t, names, P) ==
  IF Len(names) = 1 THEN AssignName(s, names[1], P) ELSE set_table(s, t, ConstX(Str(Last(names))), P)
function_statement(s, st) ==
  LET method == IF st.method = "" THEN << >> ELSE <<st.method>>
      names == <<st.name>> \o st.fields \o method
      self == IF method = << >> THEN << >> ELSE <<"self">>
  IN Then(IF Len(names) = 1 THEN [s |-> s, x |-> << >>] ELSE FieldTable(s, Front(names)), LAMBDA t :
       Then(NewPrototype(t.s, [st.definition EXCEPT !.params = self \o @]), LAMBDA p :
         StoreFunction(p.s, t.x, names, p.x)))

\* The variable is there before its function is compiled.
local_function_statement(s, st) ==
  Then(StackTop(s), LAMBDA r :
    Then(NewPrototype(AddLocals(PushN(s, 1), <<<<st.name, "none">>>>, r), st.definition), LAMBDA p :
      Put(p.s, [k |-> "Closure", proto |-> p.x[2], dest |-> r])))

statement(s, st) ==
  CASE st.k = "if" -> if_statement(s, st)
    [] st.k = "while" -> while_statement(s, st)
    [] st.k = "do" -> block(s, st.block)
    [] st.k = "for" -> ForNumeric(s, st)
    [] st.k = "forin" -> ForGeneric(s, st)
    [] st.k = "repeat" -> repeat_statement(s, st)
    [] st.k = "function" -> function_statement(s, st)
    [] st.k = "localfunction" -> local_function_statement(s, st)
    [] st.k = "local" -> local_statement(s, st.names, st.values)
    [] st.k = "label" -> With(s, JumpTarget(Top(s), Named(st.name)))
    [] st.k = "break" -> With(s, Jump(Top(s), Break))
    [] st.k = "goto" -> With(s, Jump(Top(s), Named(st.name)))
    [] st.k = "call" -> function_call_statement(s, st.call)
    [] st.k = "assignment" -> assignment_statement(s, st.targets, st.values)

statements(s, b) ==
  Then(FoldLeft(statement, s, b.statements), LAMBDA t :
    IF b.returns = << >> THEN t ELSE return_statement(t, b.returns[1]))

\* A block that does not return is in a scope of its own, without the labels at
\* its end.
block_statements(s, b) ==
  LET n == SelectLastInSeq(b.statements, LAMBDA st : st.k # "label")
  IN IF b.returns # << >> THEN StatementsOf(s, b)
     ELSE StatementsOf(
            Leave(StatementsOf(With(s, EnterBlock(Top(s))), [b EXCEPT !.statements = SubSeq(@, 1, n)])),
            [b EXCEPT !.statements = SubSeq(@, n + 1, Len(@))])

new_prototype(s, f) ==
  Then(block(Append(s, NewFunction(f.params)), f.body), LAMBDA inner :
    Then(Finish(Top(inner)), LAMBDA P :
      [s |-> IF P.err = "none" THEN Pop(inner) ELSE With(Pop(inner), Fail(Top(Pop(inner)), P.err)),
       x |-> <<"Closure", P>>]))

Generate(f, s, a) ==
  CASE f = "expression" -> expression(s, a)
    [] f = "new_prototype" -> new_prototype(s, a)
    [] f = "expr_discharge" -> expr_discharge(s, a[1], a[2])
    [] f = "push_arguments" -> push_arguments(s, a)
    [] f = "call_function" -> call_function(s, a[1], a[2], a[3])
    [] f = "call_method" -> call_method(s, a[1], a[2], a[3], a[4])
    [] f = "block_statements" -> block_statements(s, a)
    [] f = "statements" -> statements(s, a)

compile_chunk(chunk) == Finish(Top(block(<<NewFunction(<< >>)>>, chunk)))
=============================================================================
