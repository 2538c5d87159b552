------------------------------ MODULE LuaSyntax ------------------------------
(***************************************************************************)
(* How the expressions of LuaMeaning are written: tokens, with parentheses *)
(* only where the precedence of the operators asks for them.  From Lua's   *)
(* manual, not from the parser, which is compared with it.                 *)
(***************************************************************************)
EXTENDS Integers, SequencesExt

Levels == <<{"or"}, {"and"}, {"Lt", "Gt", "Le", "Ge", "Ne", "Eq"}, {"BitOr"}, {"BitXor"}, {"BitAnd"},
            {"ShiftLeft", "ShiftRight"}, {"Concat"}, {"Add", "Sub"}, {"Mul", "Div", "IDiv", "Mod"},
            {"not", "len", "neg", "bnot"}, {"Pow"}>>
RightAssociative == {"Concat", "Pow"}
Symbols ==
  {<<"or", "or">>, <<"and", "and">>, <<"Lt", "<">>, <<"Gt", ">">>, <<"Le", "<=">>, <<"Ge", ">=">>,
   <<"Ne", "~=">>, <<"Eq", "==">>, <<"BitOr", "|">>, <<"BitXor", "~">>, <<"BitAnd", "&">>,
   <<"ShiftLeft", "<<">>, <<"ShiftRight", ">>">>, <<"Concat", "..">>, <<"Add", "+">>, <<"Sub", "-">>,
   <<"Mul", "*">>, <<"Div", "/">>, <<"IDiv", "//">>, <<"Mod", "%">>, <<"not", "not">>, <<"len", "#">>,
   <<"neg", "-">>, <<"bnot", "~">>, <<"Pow", "^">>}
Symbol(op) == (CHOOSE s \in Symbols : s[1] = op)[2]
Level(op) == CHOOSE i \in 1..Len(Levels) : op \in Levels[i]
\* Operands that are no operators bind tightest.
LevelOf(t) == IF t[1] \in {"unary", "binary"} THEN Level(t[2]) ELSE Len(Levels) + 1

Tok(x) == <<<<x>>>>
InParens(ts) == Tok("(") \o ts \o Tok(")")
NameToken(n) == <<<<"Name", n>>>>
Join(tss, x) == FlattenSeq([i \in 1..Len(tss) |-> IF i = 1 THEN tss[i] ELSE Tok(x) \o tss[i]])

Constant(c) ==
  CASE c[1] = "nil" -> Tok("nil") [] c[1] = "bool" -> Tok(IF c[2] THEN "true" ELSE "false")
    [] c[1] = "int" -> <<<<"Integer", c[2]>>>> [] c[1] = "str" -> <<<<"String", c[2]>>>>

RECURSIVE Tokens(_)
List(ts) == Join([i \in 1..Len(ts) |-> Tokens(ts[i])], ",")
Operand(t, parens) == IF parens THEN InParens(Tokens(t)) ELSE Tokens(t)
Prefix(t) == Operand(t, t[1] \notin {"name", "paren", "index", "call", "method"})
Field(f) == IF f[1] = "array" THEN Tokens(f[2])
            ELSE IF f[2][1] = "const" /\ f[2][2][1] = "str" THEN NameToken(f[2][2][2]) \o Tok("=") \o Tokens(f[3])
            ELSE Tok("[") \o Tokens(f[2]) \o Tok("]") \o Tok("=") \o Tokens(f[3])

\* A unary operator on the right needs no parentheses, whatever is before it.
Infix(op, l, r) ==
  LET n == Level(op)
      right == op \in RightAssociative
  IN Operand(l, LevelOf(l) < n \/ (LevelOf(l) = n /\ right)) \o Tok(Symbol(op))
     \o Operand(r, r[1] # "unary" /\ (LevelOf(r) < n \/ (LevelOf(r) = n /\ ~right)))

Tokens(t) ==
  CASE t[1] = "const" -> Constant(t[2])
    [] t[1] = "name" -> NameToken(t[2])
    [] t[1] = "varargs" -> Tok("...")
    [] t[1] = "paren" -> InParens(Tokens(t[2]))
    [] t[1] = "function" ->
         Tok("function") \o Tok("(") \o Tok(")") \o Tok("return") \o NameToken(t[2]) \o Tok("end")
    [] t[1] = "unary" -> Tok(Symbol(t[2])) \o Operand(t[3], LevelOf(t[3]) < Level("not"))
    [] t[1] = "binary" -> Infix(t[2], t[3], t[4])
    [] t[1] = "index" ->
         Prefix(t[2]) \o (IF t[3][1] = "const" /\ t[3][2][1] = "str" THEN Tok(".") \o NameToken(t[3][2][2])
                        ELSE Tok("[") \o Tokens(t[3]) \o Tok("]"))
    [] t[1] = "call" ->
         Prefix(t[2]) \o (IF Len(t[3]) = 1 /\ (t[3][1][1] = "table" \/ (t[3][1][1] = "const" /\ t[3][1][2][1] = "str"))
                        THEN Tokens(t[3][1]) ELSE InParens(List(t[3])))
    [] t[1] = "method" -> Prefix(t[2]) \o Tok(":") \o NameToken(t[3]) \o InParens(List(t[4]))
    [] t[1] = "table" -> Tok("{") \o Join([i \in 1..Len(t[2]) |-> Field(t[2][i])], ",") \o Tok("}")

\* Statements of LuaMeaning.
Returning(n) == Tok("(") \o Tok(")") \o Tok("return") \o NameToken(n) \o Tok("end")
TargetTokens(st, t) ==
  IF st.k # "assign" THEN NameToken(t)
  ELSE IF t[1] = "name" THEN Tokens(t) ELSE Tokens(<<"index", t[2], t[3]>>)
TargetList(st) == Join([i \in 1..Len(st.to) |-> TargetTokens(st, st.to[i])], ",")
FunctionTokens(t) ==
  IF t[1] = "name" THEN Tokens(t) ELSE Tokens(t[2]) \o Tok(IF t[4] THEN ":" ELSE ".") \o NameToken(t[3][2][2])

RECURSIVE StatementTokens(_)
Statements(body) == FlattenSeq([i \in 1..Len(body) |-> StatementTokens(body[i])])
IfTokens(st, n) ==
  FlattenSeq([i \in 1..Len(st.bodies) |->
    (IF i > n THEN Tok("else") ELSE Tok(IF i = 1 THEN "if" ELSE "elseif") \o Tokens(st.es[i]) \o Tok("then"))
    \o Statements(st.bodies[i])])
StatementTokens(st) ==
  LET values == IF st.es = << >> THEN << >> ELSE Tok("=") \o List(st.es)
      loop(head) == head \o Tok("do") \o Statements(st.body) \o Tok("end")
  IN CASE st.k = "return" -> Tok("return") \o List(st.es)
       [] st.k = "call" -> Tokens(st.es[1])
       [] st.k = "local" -> Tok("local") \o TargetList(st) \o values
       [] st.k = "assign" -> TargetList(st) \o values
       [] st.k = "test" ->
            Tok("if") \o Tokens(st.es[1]) \o Tok("then") \o Tok("return") \o Tok("true") \o Tok("else")
            \o Tok("return") \o Tok("false") \o Tok("end")
       [] st.k = "if" -> IfTokens(st, Len(st.es)) \o Tok("end")
       [] st.k = "do" -> loop(<< >>)
       [] st.k = "while" -> loop(Tok("while") \o Tokens(st.es[1]))
       [] st.k = "repeat" -> Tok("repeat") \o Statements(st.body) \o Tok("until") \o Tokens(st.es[1])
       [] st.k = "for" -> loop(Tok("for") \o TargetList(st) \o values)
       [] st.k = "forin" -> loop(Tok("for") \o TargetList(st) \o Tok("in") \o List(st.es))
       [] st.k = "function" -> Tok("function") \o FunctionTokens(st.to[1]) \o Returning(st.es[1][2])
       [] st.k = "localfunction" -> Tok("local") \o Tok("function") \o TargetList(st) \o Returning(st.es[1][2])
       [] st.k = "break" -> Tok("break")
       [] st.k = "goto" -> Tok("goto") \o NameToken("l")
       [] st.k = "label" -> Tok("::") \o NameToken("l") \o Tok("::")

\* The program is the body of a function with parameters a and b and varargs,
\* inside a chunk that has a local variable u.
ChunkTokens(program) ==
  Tok("local") \o NameToken("u") \o Tok("return") \o Tok("function") \o Tok("(")
  \o Join(<<NameToken("a"), NameToken("b"), Tok("...")>>, ",") \o Tok(")")
  \o Statements(program) \o Tok("end")
=============================================================================
