--------------------------- MODULE MCTableLibrary ---------------------------
EXTENDS TableLibrary

Meta(i, n, l) == [index |-> i, newindex |-> n, len |-> l]

\* No metatable, each metamethod alone, proxies made of functions and of tables,
\* and metamethods that cannot be called.
SomeMetatables ==
  {Plain, Meta("none", "none", "function"), Meta("function", "none", "none"),
   Meta("none", "function", "none"), Meta("function", "function", "function"),
   Meta("table", "table", "none"), Meta("table", "function", "function"),
   Meta("bad", "none", "none"), Meta("none", "bad", "function"), Meta("none", "none", "bad")}

SomeLens == {-1, 0, 2, 3, 4}
SomeIndices == {-4, 0, 1, 2, 4}
MinInteger == -5
=============================================================================
