------------------------------ MODULE Constants ------------------------------
(***************************************************************************)
(* constant.rs and compiler/operators.rs: constants, and what is computed  *)
(* with them, by the compiler when it folds them and by meta_ops.rs at run *)
(* time.  A float is the operation it came from, uninterpreted: floats are *)
(* told apart but not put in order, and neither are strings.  Strings that *)
(* are numerals are left out.                                              *)
(***************************************************************************)
EXTENDS Integers

CONSTANT IntWidth         \* the width of integers (64)
ASSUME IntWidthAssumption == IntWidth \in Nat \ {0, 1}

Nil == <<"nil">>
Bool(b) == <<"bool", b>>
Integer(n) == <<"int", n>>
Number(x) == <<"float", x>>
Str(x) == <<"str", x>>
to_bool(v) == v # Nil /\ v # Bool(FALSE)

\* Two's complement: the wrapping_ operations.
Wrap(n) == ((n + 2^(IntWidth - 1)) % 2^IntWidth) - 2^(IntWidth - 1)

Arithmetic == {"Add", "Sub", "Mul", "Mod", "IDiv"}
\* Rust's / and %, which truncate.
Rem(a, b) == LET m == (IF a < 0 THEN -a ELSE a) % (IF b < 0 THEN -b ELSE b) IN IF a < 0 THEN -m ELSE m
Quot(a, b) == (a - Rem(a, b)) \div b

floor_divide(a, b) ==
  LET d == Wrap(Quot(a, b))
      r == Rem(a, b)
  IN IF (r > 0 /\ b < 0) \/ (r < 0 /\ b > 0) THEN d - 1 ELSE d

\* Left out: the smallest integer % -1, where Rust's % panics.
modulo(a, b) == Rem(Wrap(Rem(a, b) + b), b)

\* Arithmetic on numbers; anything else is left to metamethods.  Division by
\* the integer zero has no constant value.
IsInt(a, b) == a[1] = "int" /\ b[1] = "int"
CanFold(op, a, b) ==
  /\ op \in Arithmetic \cup {"Div", "Pow"} /\ {a[1], b[1]} \subseteq {"int", "float"}
  /\ op \in {"Mod", "IDiv"} /\ IsInt(a, b) => b[2] # 0
FoldIntegers(op, a, b) ==
  CASE op = "Add" -> Wrap(a + b)
    [] op = "Sub" -> Wrap(a - b)
    [] op = "Mul" -> Wrap(a * b)
    [] op = "Mod" -> modulo(a, b)
    [] op = "IDiv" -> floor_divide(a, b)
Fold(op, a, b) ==
  IF op \in Arithmetic /\ IsInt(a, b) THEN Integer(FoldIntegers(op, a[2], b[2])) ELSE Number(<<op, a, b>>)

Comparisons == {"Eq", "Ne", "Lt", "Le", "Gt", "Ge"}
CanCompare(op, a, b) == op \in {"Eq", "Ne"} \/ IsInt(a, b)
Compare(op, a, b) ==
  CASE op = "Eq" -> a = b
    [] op = "Ne" -> a # b
    [] op = "Lt" -> a[2] < b[2]
    [] op = "Le" -> a[2] <= b[2]
    [] op = "Gt" -> b[2] < a[2]
    [] op = "Ge" -> b[2] <= a[2]

\* ~ is taken of integers only: a float that is integral is left out.  The
\* binary bitwise operators are never folded.
CanFoldUnary(op, c) ==
  \/ op = "not"
  \/ op = "neg" /\ c[1] \in {"int", "float"}
  \/ op = "bnot" /\ c[1] = "int"
FoldUnary(op, c) ==
  CASE op = "not" -> Bool(~to_bool(c))
    [] op = "bnot" -> Integer(-c[2] - 1)
    [] op = "neg" -> IF c[1] = "int" THEN Integer(Wrap(-c[2])) ELSE Number(<<op, c>>)
=============================================================================
