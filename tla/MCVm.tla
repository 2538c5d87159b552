--------------------------------- MODULE MCVm ---------------------------------
(* Families of small programs for Vm. *)
EXTENDS Vm

C(c) == <<"const", c>>
N(n) == <<"name", n>>
B(op, l, r) == <<"binary", op, l, r>>
Call(f, args) == <<"call", f, args>>
S(k, to, es) == [k |-> k, to |-> to, es |-> es]
Returns(es) == S("return", << >>, es)
Observed == Returns(<<N("a"), N("b"), N("u"), N("x"), N("y")>>)

Names4 == {N("a"), N("b"), N("u"), N("g")}
Constants4 == {C(Integer(1)), C(Str("s")), C(Nil), C(Bool(FALSE))}
Leaves == Names4 \cup Constants4 \cup {<<"varargs">>, Call(N("f"), << >>)}
Few == {N("a"), N("u"), C(Integer(1)), Call(N("f"), << >>)}
Table(fs) == <<"table", fs>>
Item(e) == <<"array", e>>
Field0(k, e) == <<"record", k, e>>

\* One operator of each kind.
Ops == {"Add", "Lt", "Ge", "Ne", "Concat", "and", "or", "Pow"}
Binary == {B(op, l, r) : op \in Ops, l \in Leaves, r \in Leaves}
Unary == {<<"unary", op, e>> : op \in {"not", "neg", "bnot", "len"}, e \in Leaves}
Some == {B("Add", N("u"), N("b")), B("Gt", N("a"), N("b")), B("Concat", N("a"), N("u")),
         B("and", N("u"), N("a")), <<"unary", "not", N("a")>>, <<"unary", "neg", N("g")>>,
         B("or", Call(N("f"), << >>), N("b")), <<"index", N("a"), N("u")>>,
         <<"paren", <<"varargs">>>>, <<"function", "a">>, <<"function", "u">>,
         <<"method", N("a"), "m", <<Call(N("f"), << >>)>>>>,
         Table(<<Item(N("a")), Field0(C(Str("k")), N("u")), Item(Call(N("f"), << >>))>>)}
Nested == {B(op, l, r) : op \in Ops, l \in Some, r \in Some \cup Few}
          \cup {B(op, l, r) : op \in Ops, l \in Few, r \in Some}
          \cup {<<"unary", op, e>> : op \in {"not", "neg"}, e \in Some}

\* Every operator inside of every other, on either side, so that each pair of
\* precedences, and each associativity, decides how some program is read.
UnaryOperators == {"not", "neg", "bnot", "len"}
BinaryOperators == UNION {Levels[i] : i \in DOMAIN Levels} \ UnaryOperators
U(op, e) == <<"unary", op, e>>
InUnary(l, r) == {U(op, B(p, l, r)) : op \in UnaryOperators, p \in BinaryOperators}
InBinary(p, q, x, y, z) ==
  {B(p, B(q, x, y), z), B(p, x, B(q, y, z)), B(p, B(q, x, U("neg", y)), z), B(p, x, U("neg", B(q, y, z)))}
Precedence ==
  UNION {InBinary(p, q, N("a"), N("b"), N("u")) \cup InBinary(p, q, N("b"), N("a"), N("u"))
           : p \in BinaryOperators, q \in BinaryOperators}
  \cup InUnary(N("a"), N("u"))
  \cup UNION {{B(p, U(op, N("a")), N("u")), B(p, N("a"), U(op, N("u")))}
               : op \in UnaryOperators, p \in BinaryOperators}
  \cup {U("neg", B("Pow", x, x)) : x \in {C(Integer(1)), U("neg", C(Integer(1)))}}
  \cup {B("Pow", x, B("Pow", x, x)) : x \in {C(Integer(1)), U("bnot", C(Integer(1)))}}

SecondLists == {<<x, y>> : x \in Leaves, y \in Leaves \cup Some}
Lists == {<< >>} \cup {<<x>> : x \in Leaves} \cup SecondLists
Suffixed ==
  {<<"index", x, y>> : x \in Some \cup Few, y \in Few \cup {C(Str("k"))}}
  \cup {Call(N("a"), l) : l \in Lists} \cup {<<"method", N("u"), "m", l>> : l \in Lists}
  \cup {Call(x, <<y>>) : x \in Some, y \in Some}
Tables ==
  {Table([i \in 1..Len(l) |-> Item(l[i])]) : l \in Lists}
  \cup {Table(<<Item(x), Item(y), Item(z)>>) : x \in Few, y \in Few, z \in Few \cup {<<"varargs">>}}
  \cup {Table(<<Item(x), Field0(k, y), Item(z)>>) : x \in Few, k \in Few, y \in Some, z \in Few}
Chain[n \in 1..9] ==
  IF n = 1 THEN C(Str("s")) ELSE B("Concat", IF n % 3 = 0 THEN C(Integer(1)) ELSE C(Str("s")), Chain[n - 1])

Expressions1 ==
  Leaves \cup Binary \cup Unary \cup Nested \cup Precedence \cup Suffixed \cup Tables \cup {Chain[9]}

Targets1 == {N("a"), N("u"), N("g"), <<"field", N("a"), C(Str("k"))>>, <<"field", N("u"), N("b")>>}
Statements1 ==
  {S("local", <<"x">>, <<e>>) : e \in Some \cup Leaves}
  \cup {S("local", <<"x", "y">>, l) : l \in Lists}
  \cup {S("local", <<"x">>, l) : l \in SecondLists}
  \cup {S("assign", <<t>>, <<e>>) : t \in Targets1, e \in Some \cup Leaves}
  \cup {S("assign", <<N("b"), t>>, l) : t \in {N("u"), N("g")}, l \in Lists \ {<< >>}}
  \cup {S("call", << >>, <<e>>) : e \in {s \in Suffixed : s[1] # "index"}}

\* Blocks and loops.  Every condition of a loop asks the world, whose answers
\* end; loops with no end, and what README.md calls a difference, are left out.
Blocks(k, es, body) == [k |-> k, to |-> << >>, es |-> es, body |-> body]
If(es, bodies) == [k |-> "if", to |-> << >>, es |-> es, bodies |-> bodies]
For(k, to, es, body) == [k |-> k, to |-> to, es |-> es, body |-> body]
Plain(k) == S(k, << >>, << >>)
Asks == Call(N("f"), << >>)
Assign(n, e) == S("assign", <<N(n)>>, <<e>>)
Minus1 == <<"unary", "neg", C(Integer(1))>>

Bodies ==
  {<< >>, <<Assign("u", N("x"))>>, <<Assign("a", <<"function", "x">>)>>,
   <<S("local", <<"z">>, <<N("u"), N("x")>>), Assign("a", N("z")), Assign("u", <<"function", "z">>)>>,
   <<If(<<N("g")>>, <<<<Plain("goto")>>>>), S("call", << >>, <<Asks>>), Plain("label")>>,
   <<If(<<B("Eq", N("a"), N("x"))>>, <<<<Returns(<<N("x"), Asks>>)>>>>), Assign("b", <<"varargs">>)>>,
   <<Blocks("do", << >>, <<S("local", <<"z">>, <<N("x")>>), S("localfunction", <<"w">>, <<<<"function", "z">>>>),
                           Assign("a", N("w"))>>), Assign("b", N("a"))>>}
LoopBodies ==
  Bodies \cup {<<Plain("break")>>,
               <<If(<<N("g")>>, <<<<Assign("b", N("x")), Plain("break")>>>>), Assign("u", N("a"))>>}
Ifs ==
  {If(<<c>>, <<b>>) : c \in Leaves \cup Some, b \in {<<Assign("a", N("u"))>>, <<Plain("goto")>>}}
  \cup {If(<<c>>, <<<<Assign("a", N("u"))>>, <<Assign("b", N("u"))>>>>) : c \in Leaves \cup Some}
  \cup {If(<<c, d>>, <<<<Assign("a", N("u"))>>, <<Assign("b", N("u"))>>, <<Assign("u", N("a"))>>>>)
         : c \in Few, d \in Few \cup Some}
Ranges ==
  {<<C(Integer(1)), C(Integer(3))>>, <<C(Integer(3)), C(Integer(1))>>, <<C(Integer(3)), C(Integer(1)), Minus1>>,
   <<C(Integer(1)), C(Integer(4)), C(Integer(2))>>, <<C(Integer(126)), C(Integer(127))>>,
   <<Minus1, C(Integer(0)), C(Integer(100))>>,
   <<C(Integer(1)), Asks>>, <<N("b"), C(Integer(1))>>, <<C(Integer(1)), C(Integer(2)), N("u")>>}
Generators == {<<Asks>>, <<N("g")>>, <<N("a"), N("u"), Asks>>, <<<<"varargs">>>>}
Loops(body) ==
  {Blocks("while", <<c>>, body) : c \in {Asks, B("and", Asks, N("u")), B("Ne", Asks, C(Nil))}}
  \cup {Blocks("repeat", <<<<"unary", "not", N("x")>>>>, <<S("local", <<"x">>, <<Asks>>)>> \o body)}
  \cup {For("for", <<"x">>, es, body) : es \in Ranges}
  \cup {For("forin", <<"x">>, es, body) : es \in Generators}
  \cup {For("forin", <<"x", "y">>, <<Asks>>, body)}
Functions1 ==
  {S("function", <<t>>, <<<<"function", "u">>>>)
     : t \in {N("a"), N("u"), N("g"), <<"field", N("a"), C(Str("k")), FALSE>>,
               <<"field", <<"index", N("g"), C(Str("j"))>>, C(Str("k")), FALSE>>,
               <<"field", N("u"), C(Str("m")), TRUE>>}}
  \cup {S("localfunction", <<n>>, <<<<"function", v>>>>) : n \in {"x", "a"}, v \in {"b", "u"}}
Blocks1 ==
  Ifs \cup Functions1 \cup UNION {Loops(b) : b \in LoopBodies}
  \cup {Blocks("do", << >>, b) : b \in Bodies}
NestedLoops ==
  UNION {Loops(<<For("for", <<"y">>, <<C(Integer(1)), C(Integer(2))>>, b)>>) : b \in {c \in LoopBodies : Len(c) = 2}}

Every ==
  {<<Returns(<<e>>)>> : e \in Expressions1} \cup {<<Returns(l)>> : l \in Lists}
  \cup {<<S("test", << >>, <<e>>)>> : e \in Leaves \cup Binary \cup Unary}
  \cup {<<s, Observed>> : s \in Statements1}
  \cup {<<s, Plain("label"), Observed>> : s \in Blocks1 \cup NestedLoops}

\* The second value is evaluated where the first name is already declared.
LocalPrograms ==
  {<<S("local", <<"x", "y">>, <<C(Integer(1)), e>>), Observed>> : e \in {N("x"), N("a"), <<"function", "x">>}}
===============================================================================
