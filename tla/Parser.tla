-------------------------------- MODULE Parser --------------------------------
(***************************************************************************)
(* compiler/parser.rs: from tokens to blocks, statements and expressions.  *)
(* A token is a sequence: its kind and, for a name, a string or a number,  *)
(* its value.  A parser takes the tokens left and the number of recursion  *)
(* guards alive, and gives an error or what it read and the tokens left.   *)
(* Line numbers are left out.                                              *)
(***************************************************************************)
EXTENDS Constants, SequencesExt

CONSTANT MaxRecursion       \* MAX_RECURSION (200)
ASSUME MaxRecursionAssumption == MaxRecursion \in Nat

Parsed(v, ts) == [e |-> "", v |-> v, ts |-> ts]
Error(e) == [e |-> e, v |-> << >>, ts |-> << >>]
\* The ? operator: go on with what was parsed, or stop with the error.
Bind(r, next(_)) == IF r.e = "" THEN next(r) ELSE r

\* look_ahead and check_ahead
Ahead(ts, n) == IF n < Len(ts) THEN ts[n + 1][1] ELSE "eof"
Is(ts, kind) == Ahead(ts, 0) = kind

expect_next(ts, kind) ==
  IF ts = << >> THEN Error("EndOfStream")
  ELSE IF Is(ts, kind) THEN Parsed(kind, Tail(ts)) ELSE Error("Unexpected")
expect_name(ts) ==
  IF ts = << >> THEN Error("EndOfStream")
  ELSE IF Is(ts, "Name") THEN Parsed(ts[1][2], Tail(ts)) ELSE Error("Unexpected")

\* Something, then a token that closes it.
Closed(r, kind) == Bind(r, LAMBDA p : Bind(expect_next(p.ts, kind), LAMBDA q : Parsed(p.v, q.ts)))

-----------------------------------------------------------------------------
(* Expressions. *)

get_unary_operator(kind) ==
  CASE kind = "not" -> "not" [] kind = "-" -> "neg" [] kind = "~" -> "bnot" [] kind = "#" -> "len"
    [] OTHER -> "none"

BinaryTokens ==
  [x \in {"-", "+", "*", "%", "^", "/", "//", "&", "|", "~", "<<", ">>", "..", "~=", "==", "<", "<=",
          ">", ">=", "and", "or"} |->
     CASE x = "-" -> "Sub" [] x = "+" -> "Add" [] x = "*" -> "Mul" [] x = "%" -> "Mod" [] x = "^" -> "Pow"
       [] x = "/" -> "Div" [] x = "//" -> "IDiv" [] x = "&" -> "BitAnd" [] x = "|" -> "BitOr"
       [] x = "~" -> "BitXor" [] x = "<<" -> "ShiftLeft" [] x = ">>" -> "ShiftRight" [] x = ".." -> "Concat"
       [] x = "~=" -> "Ne" [] x = "==" -> "Eq" [] x = "<" -> "Lt" [] x = "<=" -> "Le" [] x = ">" -> "Gt"
       [] x = ">=" -> "Ge" [] x = "and" -> "and" [] x = "or" -> "or"]
get_binary_operator(kind) == IF kind \in DOMAIN BinaryTokens THEN BinaryTokens[kind] ELSE "none"

\* How strongly an operator holds on to its left and to its right operand.
binary_priority(op) ==
  CASE op \in {"Add", "Sub"} -> <<10, 10>>
    [] op \in {"Mul", "Mod", "Div", "IDiv"} -> <<11, 11>>
    [] op = "Pow" -> <<14, 13>>
    [] op = "BitAnd" -> <<6, 6>>
    [] op = "BitOr" -> <<4, 4>>
    [] op = "BitXor" -> <<5, 5>>
    [] op \in {"ShiftLeft", "ShiftRight"} -> <<7, 7>>
    [] op = "Concat" -> <<9, 8>>
    [] op \in {"Eq", "Ne", "Lt", "Le", "Gt", "Ge"} -> <<3, 3>>
    [] op = "and" -> <<2, 2>>
    [] op = "or" -> <<1, 1>>
UnaryPriority == 12

RECURSIVE parse_sub_expression(_, _, _), parse_suffixed_expression(_, _), parse_block(_, _)

parse_expression(ts, d) == parse_sub_expression(ts, 0, d)

\* One or more expressions with commas between them.
RECURSIVE parse_expression_list(_, _)
parse_expression_list(ts, d) ==
  Bind(parse_expression(ts, d), LAMBDA p :
    IF ~Is(p.ts, ",") THEN Parsed(<<p.v>>, p.ts)
    ELSE Bind(parse_expression_list(Tail(p.ts), d), LAMBDA q : Parsed(<<p.v>> \o q.v, q.ts)))

Simple(x) == [head |-> <<"simple", x>>, tail |-> << >>]

parse_constructor_field(ts, d) ==
  CASE Is(ts, "Name") /\ Ahead(ts, 1) = "=" ->
         Bind(parse_expression(Tail(Tail(ts)), d), LAMBDA p :
           Parsed(<<"record", <<"named", ts[1][2]>>, p.v>>, p.ts))
    [] Is(ts, "[") ->
         Bind(Closed(Closed(parse_expression(Tail(ts), d), "]"), "="), LAMBDA k :
           Bind(parse_expression(k.ts, d), LAMBDA p :
             Parsed(<<"record", <<"indexed", k.v>>, p.v>>, p.ts)))
    [] OTHER -> Bind(parse_expression(ts, d), LAMBDA p : Parsed(<<"array", p.v>>, p.ts))

RECURSIVE ConstructorFields(_, _)
ConstructorFields(ts, d) ==
  IF Is(ts, "}") THEN Parsed(<< >>, ts)
  ELSE Bind(parse_constructor_field(ts, d), LAMBDA p :
         IF Ahead(p.ts, 0) \in {",", ";"}
         THEN Bind(ConstructorFields(Tail(p.ts), d), LAMBDA q : Parsed(<<p.v>> \o q.v, q.ts))
         ELSE Parsed(<<p.v>>, p.ts))
parse_table_constructor(ts, d) ==
  Bind(expect_next(ts, "{"), LAMBDA p :
    Bind(Closed(ConstructorFields(p.ts, d), "}"), LAMBDA q : Parsed(<<"table", q.v>>, q.ts)))

RECURSIVE Parameters(_)
Parameters(ts) ==
  CASE Is(ts, "...") -> Parsed([params |-> << >>, varargs |-> TRUE], Tail(ts))
    [] Is(ts, "Name") ->
         IF Ahead(ts, 1) # "," THEN Parsed([params |-> <<ts[1][2]>>, varargs |-> FALSE], Tail(ts))
         ELSE Bind(Parameters(Tail(Tail(ts))), LAMBDA p :
                Parsed([p.v EXCEPT !.params = <<ts[1][2]>> \o @], p.ts))
    [] OTHER -> Error(IF ts = << >> THEN "EndOfStream" ELSE "Unexpected")

parse_function_definition(ts, d) ==
  Bind(expect_next(ts, "("), LAMBDA o :
    LET params == IF Is(o.ts, ")") THEN Parsed([params |-> << >>, varargs |-> FALSE], o.ts)
                  ELSE Parameters(o.ts)
    IN Bind(Closed(params, ")"), LAMBDA p :
         Bind(Closed(parse_block(p.ts, d), "end"), LAMBDA b :
           Parsed([params |-> p.v.params, varargs |-> p.v.varargs, body |-> b.v], b.ts))))

parse_simple_expression(ts, d) ==
  LET constant(c) == Parsed(<<"const", c>>, Tail(ts))
  IN CASE Is(ts, "Integer") -> constant(Integer(ts[1][2]))
       [] Is(ts, "String") -> constant(Str(ts[1][2]))
       [] Is(ts, "nil") -> constant(Nil)
       [] Is(ts, "true") -> constant(Bool(TRUE))
       [] Is(ts, "false") -> constant(Bool(FALSE))
       [] Is(ts, "...") -> Parsed(<<"varargs">>, Tail(ts))
       [] Is(ts, "{") -> parse_table_constructor(ts, d)
       [] Is(ts, "function") ->
            Bind(parse_function_definition(Tail(ts), d), LAMBDA p : Parsed(<<"function", p.v>>, p.ts))
       [] OTHER -> Bind(parse_suffixed_expression(ts, d), LAMBDA p : Parsed(<<"suffixed", p.v>>, p.ts))

parse_primary_expression(ts, d) ==
  CASE Is(ts, "(") ->
         Bind(Closed(parse_expression(Tail(ts), d), ")"), LAMBDA p : Parsed(<<"group", p.v>>, p.ts))
    [] Is(ts, "Name") -> Parsed(<<"name", ts[1][2]>>, Tail(ts))
    [] OTHER -> Error(IF ts = << >> THEN "EndOfStream" ELSE "Unexpected")

parse_field_suffix(ts, d) ==
  IF Is(ts, ".") THEN Bind(expect_name(Tail(ts)), LAMBDA p : Parsed(<<"named", p.v>>, p.ts))
  ELSE Bind(Closed(parse_expression(Tail(ts), d), "]"), LAMBDA p : Parsed(<<"indexed", p.v>>, p.ts))

Arguments(ts, d) ==
  CASE Is(ts, "(") -> IF Ahead(ts, 1) = ")" THEN Parsed(<< >>, Tail(Tail(ts)))
                      ELSE Closed(parse_expression_list(Tail(ts), d), ")")
    [] Is(ts, "{") -> Bind(parse_table_constructor(ts, d), LAMBDA p : Parsed(<<Simple(p.v)>>, p.ts))
    [] Is(ts, "String") -> Parsed(<<Simple(<<"const", Str(ts[1][2])>>)>>, Tail(ts))
    [] OTHER -> Error(IF ts = << >> THEN "EndOfStream" ELSE "Unexpected")

parse_call_suffix(ts, d) ==
  LET name == IF Is(ts, ":") THEN expect_name(Tail(ts)) ELSE Parsed("", ts)
  IN Bind(name, LAMBDA m : Bind(Arguments(m.ts, d), LAMBDA p : Parsed(<<"call", m.v, p.v>>, p.ts)))

parse_suffix_part(ts, d) ==
  IF Ahead(ts, 0) \in {".", "["}
  THEN Bind(parse_field_suffix(ts, d), LAMBDA p : Parsed(<<"field", p.v>>, p.ts))
  ELSE parse_call_suffix(ts, d)

RECURSIVE SuffixParts(_, _)
SuffixParts(ts, d) ==
  IF Ahead(ts, 0) \notin {".", "[", ":", "(", "{", "String"} THEN Parsed(<< >>, ts)
  ELSE Bind(parse_suffix_part(ts, d), LAMBDA p :
         Bind(SuffixParts(p.ts, d), LAMBDA q : Parsed(<<p.v>> \o q.v, q.ts)))

parse_suffixed_expression(ts, d) ==
  Bind(parse_primary_expression(ts, d), LAMBDA p :
    Bind(SuffixParts(p.ts, d), LAMBDA q : Parsed([primary |-> p.v, suffixes |-> q.v], q.ts)))

\* Operators that bind tighter than the limit, each with its right operand.
RECURSIVE BinaryTail(_, _, _)
BinaryTail(ts, limit, d) ==
  LET op == get_binary_operator(Ahead(ts, 0))
  IN IF op = "none" THEN Parsed(<< >>, ts)
     ELSE IF binary_priority(op)[1] <= limit THEN Parsed(<< >>, ts)
     ELSE Bind(parse_sub_expression(Tail(ts), binary_priority(op)[2], d), LAMBDA p :
            Bind(BinaryTail(p.ts, limit, d), LAMBDA q : Parsed(<<<<op, p.v>>>> \o q.v, q.ts)))

parse_sub_expression(ts, limit, d) ==
  LET op == get_unary_operator(Ahead(ts, 0))
      head == IF op = "none"
              THEN Bind(parse_simple_expression(ts, d + 1), LAMBDA p : Parsed(<<"simple", p.v>>, p.ts))
              ELSE Bind(parse_sub_expression(Tail(ts), UnaryPriority, d + 1), LAMBDA p :
                     Parsed(<<"unary", op, p.v>>, p.ts))
  IN IF d >= MaxRecursion THEN Error("RecursionLimit")
     ELSE IF ts = << >> THEN Error("EndOfStream")
     ELSE Bind(head, LAMBDA h :
            Bind(BinaryTail(h.ts, limit, d + 1), LAMBDA t : Parsed([head |-> h.v, tail |-> t.v], t.ts)))

-----------------------------------------------------------------------------
(* Statements. *)

parse_return_statement(ts, d) ==
  LET rest == Tail(ts)
      list == IF Ahead(rest, 0) \in {"eof", "end", ";", "else", "elseif", "until"} THEN Parsed(<< >>, rest)
              ELSE parse_expression_list(rest, d)
  IN Bind(list, LAMBDA p : Parsed(p.v, IF Is(p.ts, ";") THEN Tail(p.ts) ELSE p.ts))

\* A condition and, after `then`, a block.
Part(ts, d) ==
  Bind(Closed(parse_expression(ts, d), "then"), LAMBDA c :
    Bind(parse_block(c.ts, d), LAMBDA b : Parsed(<<c.v, b.v>>, b.ts)))
RECURSIVE ElseIfParts(_, _)
ElseIfParts(ts, d) ==
  IF ~Is(ts, "elseif") THEN Parsed(<< >>, ts)
  ELSE Bind(Part(Tail(ts), d), LAMBDA p :
         Bind(ElseIfParts(p.ts, d), LAMBDA q : Parsed(<<p.v>> \o q.v, q.ts)))
parse_if_statement(ts, d) ==
  Bind(Part(Tail(ts), d), LAMBDA p :
    Bind(ElseIfParts(p.ts, d), LAMBDA q :
      LET last == IF Is(q.ts, "else") THEN Bind(parse_block(Tail(q.ts), d), LAMBDA b : Parsed(<<b.v>>, b.ts))
                  ELSE Parsed(<< >>, q.ts)
      IN Bind(Closed(last, "end"), LAMBDA b :
           Parsed([k |-> "if", parts |-> <<p.v>> \o q.v, else |-> b.v], b.ts))))

parse_while_statement(ts, d) ==
  Bind(Closed(parse_expression(Tail(ts), d), "do"), LAMBDA c :
    Bind(Closed(parse_block(c.ts, d), "end"), LAMBDA b :
      Parsed([k |-> "while", condition |-> c.v, block |-> b.v], b.ts)))

parse_repeat_statement(ts, d) ==
  Bind(Closed(parse_block(Tail(ts), d), "until"), LAMBDA b :
    Bind(parse_expression(b.ts, d), LAMBDA c : Parsed([k |-> "repeat", body |-> b.v, until |-> c.v], c.ts)))

\* do body end, with the statement so far.
Body(r, d, statement(_, _)) ==
  Bind(Closed(r, "do"), LAMBDA p :
    Bind(Closed(parse_block(p.ts, d), "end"), LAMBDA b : Parsed(statement(p.v, b.v), b.ts)))

RECURSIVE Names(_)
Names(ts) ==
  Bind(expect_name(ts), LAMBDA p :
    IF ~Is(p.ts, ",") THEN Parsed(<<p.v>>, p.ts)
    ELSE Bind(Names(Tail(p.ts)), LAMBDA q : Parsed(<<p.v>> \o q.v, q.ts)))

\* initial, limit and, when there is another comma, step
ForRange(ts, d) ==
  Bind(Closed(parse_expression(ts, d), ","), LAMBDA i :
    Bind(parse_expression(i.ts, d), LAMBDA l :
      IF ~Is(l.ts, ",") THEN Parsed(<<i.v, l.v>>, l.ts)
      ELSE Bind(parse_expression(Tail(l.ts), d), LAMBDA s : Parsed(<<i.v, l.v, s.v>>, s.ts))))

parse_for_statement(ts, d) ==
  Bind(expect_name(Tail(ts)), LAMBDA n :
    CASE Is(n.ts, "=") ->
           Body(ForRange(Tail(n.ts), d), d, LAMBDA r, b :
             [k |-> "for", name |-> n.v, range |-> r, body |-> b])
      [] Ahead(n.ts, 0) \in {",", "in"} ->
           Bind(Closed(Names(Tail(ts)), "in"), LAMBDA ns :
             Body(parse_expression_list(ns.ts, d), d, LAMBDA es, b :
               [k |-> "forin", names |-> ns.v, arguments |-> es, body |-> b]))
      [] OTHER -> Error(IF n.ts = << >> THEN "EndOfStream" ELSE "Unexpected"))

\* name.field.field:method
RECURSIVE FunctionName(_)
FunctionName(ts) ==
  CASE Is(ts, ".") -> Bind(expect_name(Tail(ts)), LAMBDA p :
                        Bind(FunctionName(p.ts), LAMBDA q :
                          Parsed([q.v EXCEPT !.fields = <<p.v>> \o @], q.ts)))
    [] Is(ts, ":") -> Bind(expect_name(Tail(ts)), LAMBDA p : Parsed([fields |-> << >>, method |-> p.v], p.ts))
    [] OTHER -> Parsed([fields |-> << >>, method |-> ""], ts)
parse_function_statement(ts, d) ==
  Bind(expect_name(Tail(ts)), LAMBDA n :
    Bind(FunctionName(n.ts), LAMBDA f :
      Bind(parse_function_definition(f.ts, d), LAMBDA p :
        Parsed([k |-> "function", name |-> n.v, fields |-> f.v.fields, method |-> f.v.method,
                definition |-> p.v], p.ts))))

parse_local_function_statement(ts, d) ==
  Bind(expect_name(Tail(Tail(ts))), LAMBDA n :
    Bind(parse_function_definition(n.ts, d), LAMBDA p :
      Parsed([k |-> "localfunction", name |-> n.v, definition |-> p.v], p.ts)))

\* name <const>
AttributedName(ts) ==
  Bind(expect_name(ts), LAMBDA n :
    IF ~Is(n.ts, "<") THEN Parsed(<<n.v, "none">>, n.ts)
    ELSE Bind(Closed(expect_name(Tail(n.ts)), ">"), LAMBDA a :
           IF a.v \in {"const", "close"} THEN Parsed(<<n.v, a.v>>, a.ts) ELSE Error("InvalidAttribute")))
RECURSIVE AttributedNames(_)
AttributedNames(ts) ==
  Bind(AttributedName(ts), LAMBDA p :
    IF ~Is(p.ts, ",") THEN Parsed(<<p.v>>, p.ts)
    ELSE Bind(AttributedNames(Tail(p.ts)), LAMBDA q : Parsed(<<p.v>> \o q.v, q.ts)))
parse_local_statement(ts, d) ==
  Bind(AttributedNames(Tail(ts)), LAMBDA ns :
    LET values == IF Is(ns.ts, "=") THEN parse_expression_list(Tail(ns.ts), d) ELSE Parsed(<< >>, ns.ts)
    IN Bind(values, LAMBDA p : Parsed([k |-> "local", names |-> ns.v, values |-> p.v], p.ts)))

parse_label_statement(ts) ==
  Bind(Closed(expect_name(Tail(ts)), "::"), LAMBDA n : Parsed([k |-> "label", name |-> n.v], n.ts))
parse_goto_statement(ts) ==
  Bind(expect_name(Tail(ts)), LAMBDA n : Parsed([k |-> "goto", name |-> n.v], n.ts))

\* What can be assigned to: a name, or an expression whose last suffix is a field.
CanAssign(x) ==
  IF x.suffixes = << >> THEN x.primary[1] = "name" ELSE Last(x.suffixes)[1] = "field"
Target(x) ==
  IF x.suffixes = << >> THEN x.primary
  ELSE <<"field", [x EXCEPT !.suffixes = Front(@)], Last(x.suffixes)[2]>>
RECURSIVE Targets(_, _, _)
Targets(x, ts, d) ==
  IF ~CanAssign(x) THEN Error("AssignToExpression")
  ELSE IF ~Is(ts, ",") THEN Parsed(<<Target(x)>>, ts)
  ELSE Bind(parse_suffixed_expression(Tail(ts), d), LAMBDA p :
         Bind(Targets(p.v, p.ts, d), LAMBDA q : Parsed(<<Target(x)>> \o q.v, q.ts)))

parse_expression_statement(ts, d) ==
  Bind(parse_suffixed_expression(ts, d), LAMBDA x :
    CASE Ahead(x.ts, 0) \in {"=", ","} ->
           Bind(Closed(Targets(x.v, x.ts, d), "="), LAMBDA t :
             Bind(parse_expression_list(t.ts, d), LAMBDA p :
               Parsed([k |-> "assignment", targets |-> t.v, values |-> p.v], p.ts)))
      [] OTHER ->
           IF x.v.suffixes # << >> /\ Last(x.v.suffixes)[1] = "call"
           THEN Parsed([k |-> "call", call |-> x.v], x.ts) ELSE Error("ExpressionNotStatement"))

parse_statement(ts, d) ==
  LET t == Ahead(ts, 0)
  IN CASE d >= MaxRecursion -> Error("RecursionLimit")
       [] t = "if" -> parse_if_statement(ts, d + 1)
       [] t = "while" -> parse_while_statement(ts, d + 1)
       [] t = "do" -> Bind(Closed(parse_block(Tail(ts), d + 1), "end"), LAMBDA b :
                        Parsed([k |-> "do", block |-> b.v], b.ts))
       [] t = "for" -> parse_for_statement(ts, d + 1)
       [] t = "repeat" -> parse_repeat_statement(ts, d + 1)
       [] t = "function" -> parse_function_statement(ts, d + 1)
       [] t = "local" -> IF Ahead(ts, 1) = "function" THEN parse_local_function_statement(ts, d + 1)
                         ELSE parse_local_statement(ts, d + 1)
       [] t = "::" -> parse_label_statement(ts)
       [] t = "break" -> Parsed([k |-> "break"], Tail(ts))
       [] t = "goto" -> parse_goto_statement(ts)
       [] OTHER -> parse_expression_statement(ts, d + 1)

Block(statements, returns) == [statements |-> statements, returns |-> returns]

\* Statements up to the end of the block or a return statement.
parse_block(ts, d) ==
  CASE Ahead(ts, 0) \in {"eof", "else", "elseif", "end", "until"} -> Parsed(Block(<< >>, << >>), ts)
    [] Is(ts, ";") -> parse_block(Tail(ts), d)
    [] Is(ts, "return") ->
         Bind(parse_return_statement(ts, d), LAMBDA p : Parsed(Block(<< >>, <<p.v>>), p.ts))
    [] OTHER -> Bind(parse_statement(ts, d), LAMBDA p :
                  Bind(parse_block(p.ts, d), LAMBDA q :
                    Parsed([q.v EXCEPT !.statements = <<p.v>> \o @], q.ts)))

parse_chunk(ts) ==
  Bind(parse_block(ts, 1), LAMBDA p : IF p.ts = << >> THEN p ELSE Error("EndOfStream"))
=============================================================================
