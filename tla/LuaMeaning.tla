------------------------------ MODULE LuaMeaning ------------------------------
(***************************************************************************)
(* What Lua expressions mean, said without registers or instructions: the  *)
(* reference that compiled code is compared with.                          *)
(*                                                                         *)
(* What happens outside of an expression (calls, metamethods, accesses to  *)
(* objects) is a trace of events; the n-th event has the results           *)
(* <<"res", n, j>>, but the first one is nil after `lasts` events, which   *)
(* ends every loop over calls.                                             *)
(***************************************************************************)
EXTENDS Constants, SequencesExt

Object(name) == <<"obj", name>>
World(lasts) == [trace |-> << >>, heap |-> << >>, lasts |-> lasts]

ResultOf(E, j) == IF j = 1 /\ Len(E.trace) > E.lasts THEN Nil ELSE <<"res", Len(E.trace), j>>
Event(E, e) ==
  LET F == [E EXCEPT !.trace = Append(@, e)] IN [v |-> ResultOf(F, 1), E |-> F]

Index(E, t, k) ==
  IF t[1] # "table" THEN Event(E, <<"index", t, k>>)
  ELSE LET h == E.heap[t[2]] IN [v |-> IF k \in DOMAIN h THEN h[k] ELSE Nil, E |-> E]

NewIndex(E, t, k, v) ==
  IF t[1] # "table" THEN Event(E, <<"newindex", t, k, v>>).E
  ELSE [E EXCEPT !.heap[t[2]] = [x \in DOMAIN @ \cup {k} |-> IF x = k THEN v ELSE @[x]]]

NewTable(E) == [v |-> <<"table", Len(E.heap) + 1>>, E |-> [E EXCEPT !.heap = Append(@, << >>)]]

Operate(E, op, a, b) ==
  IF CanFold(op, a, b) THEN [v |-> Fold(op, a, b), E |-> E] ELSE Event(E, <<op, a, b>>)
OperateUnary(E, op, a) ==
  IF CanFoldUnary(op, a) THEN [v |-> FoldUnary(op, a), E |-> E] ELSE Event(E, <<op, a>>)

\* Eq, Less or LessEq.
Relate(E, op, a, b) ==
  LET plain(v) == v[1] \in {"nil", "bool", "int", "float", "str", "cat"}
      bool(x) == [v |-> Bool(x), E |-> E]
      asked == [Event(E, <<op, a, b>>) EXCEPT !.v = Bool(@ # Nil)]
  IN CASE op = "Eq" -> IF a = b THEN bool(TRUE) ELSE IF plain(a) \/ plain(b) THEN bool(FALSE) ELSE asked
       [] op = "Less" -> IF CanCompare("Lt", a, b) THEN bool(a[2] < b[2]) ELSE asked
       [] op = "LessEq" -> IF CanCompare("Le", a, b) THEN bool(a[2] <= b[2]) ELSE asked

\* meta_ops::concat_many, from the right.
Pieces(v) == IF v[1] = "cat" THEN v[2] ELSE <<v>>
ConcatTwo(E, a, b) ==
  IF {a[1], b[1]} \subseteq {"int", "float", "str", "cat"} THEN [v |-> <<"cat", Pieces(a) \o Pieces(b)>>, E |-> E]
  ELSE Event(E, <<"Concat", a, b>>)
ConcatMany(E, vs) ==
  FoldRight(LAMBDA a, r : ConcatTwo(r.E, a, r.v), Front(vs), [v |-> Last(vs), E |-> E])

\* Every call has two results.
CallValue(E, f, args) ==
  LET r == Event(E, <<"call", f, args>>) IN [vs |-> <<r.v, ResultOf(r.E, 2)>>, E |-> r.E]

\* The values of a list that is cut or filled up with nil.
Adjust(vs, n) == [i \in 1..n |-> IF i <= Len(vs) THEN vs[i] ELSE Nil]

-----------------------------------------------------------------------------
(* Evaluation.  L has the local variables, upvalues and varargs. *)

Lookup(E, L, n) ==
  IF n \in DOMAIN L.loc THEN [v |-> L.loc[n], E |-> E]
  ELSE IF n \in DOMAIN L.up THEN [v |-> L.up[n], E |-> E]
  ELSE Index(E, L.up["_ENV"], Str(n))

\* What a function that returns a variable captures.
Captured(L, n) ==
  IF n \in DOMAIN L.loc THEN L.loc[n] ELSE IF n \in DOMAIN L.up THEN L.up[n] ELSE L.up["_ENV"]

RECURSIVE Values(_, _, _)
FirstOf(r) == [v |-> Adjust(r.vs, 1)[1], E |-> r.E]
Value(E, L, t) == FirstOf(Values(E, L, t))
One(r) == [vs |-> <<r.v>>, E |-> r.E]

\* All of them, the last one with all of its values.
Joined(front, last) == [vs |-> front.vs \o last.vs, E |-> last.E]
NextValue(a, r) == [vs |-> Append(a.vs, r.v), E |-> r.E]
AllButLast(E, L, ts) == FoldLeft(LAMBDA a, t : NextValue(a, Value(a.E, L, t)), [vs |-> << >>, E |-> E], Front(ts))
AndLast(front, L, t) == Joined(front, Values(front.E, L, t))
ListValues(E, L, ts) ==
  IF ts = << >> THEN [vs |-> << >>, E |-> E] ELSE AndLast(AllButLast(E, L, ts), L, Last(ts))

\* Fields with keys are set before the list is evaluated.
SetRecord(v, k, t) == NewIndex(v.E, t, k.v, v.v)
RecordField(k, L, f, t) == SetRecord(Value(k.E, L, f[3]), k, t)
SetItems(r, t) ==
  [v |-> t, E |-> FoldLeft(LAMBDA E, i : NewIndex(E, t, Integer(i), r.vs[i]), r.E, [i \in 1..Len(r.vs) |-> i])]
OfKind(fields, kind) == SelectSeq(fields, LAMBDA f : f[1] = kind)
Items(fields) == LET arrays == OfKind(fields, "array") IN [i \in 1..Len(arrays) |-> arrays[i][2]]
FillTable(t, L, fields) ==
  SetItems(ListValues(FoldLeft(LAMBDA E, f : RecordField(Value(E, L, f[2]), L, f, t.v), t.E, OfKind(fields, "record")),
                      L, Items(fields)), t.v)

UnaryValue(a, op) == OperateUnary(a.E, op, a.v)
Negated(r) == [r EXCEPT !.v = Bool(~to_bool(@))]
Combine(op, a, b) ==
  CASE op = "and" -> IF to_bool(a.v) THEN b ELSE a
    [] op = "or" -> IF to_bool(a.v) THEN a ELSE b
    [] op = "Concat" -> ConcatTwo(b.E, a.v, b.v)
    [] op = "Eq" -> Relate(b.E, "Eq", a.v, b.v)
    [] op = "Ne" -> Negated(Relate(b.E, "Eq", a.v, b.v))
    [] op = "Lt" -> Relate(b.E, "Less", a.v, b.v)
    [] op = "Le" -> Relate(b.E, "LessEq", a.v, b.v)
    [] op = "Gt" -> Relate(b.E, "Less", b.v, a.v)
    [] op = "Ge" -> Relate(b.E, "LessEq", b.v, a.v)
    [] OTHER -> Operate(b.E, op, a.v, b.v)
BinaryValue(a, L, op, r) == Combine(op, a, Value(a.E, L, r))

Keyed(a, k) == Index(k.E, a.v, k.v)
IndexValue(a, L, k) == Keyed(a, Value(a.E, L, k))
CallWith(f, before, a) == CallValue(a.E, f.v, before \o a.vs)
CallOn(f, before, L, args) == CallWith(f, before, ListValues(f.E, L, args))
MethodOn(o, L, name, args) == CallOn(Index(o.E, o.v, Str(name)), <<o.v>>, L, args)

Values(E, L, t) ==
  CASE t[1] = "const" -> [vs |-> <<t[2]>>, E |-> E]
    [] t[1] = "name" -> One(Lookup(E, L, t[2]))
    [] t[1] = "varargs" -> [vs |-> L.va, E |-> E]
    [] t[1] = "paren" -> One(Value(E, L, t[2]))
    [] t[1] = "function" -> [vs |-> <<<<"function", Captured(L, t[2])>>>>, E |-> E]
    [] t[1] = "unary" -> One(UnaryValue(Value(E, L, t[3]), t[2]))
    [] t[1] = "binary" -> One(BinaryValue(Value(E, L, t[3]), L, t[2], t[4]))
    [] t[1] = "index" -> One(IndexValue(Value(E, L, t[2]), L, t[3]))
    [] t[1] = "call" -> CallOn(Value(E, L, t[2]), << >>, L, t[3])
    [] t[1] = "method" -> MethodOn(Value(E, L, t[2]), L, t[3], t[4])
    [] t[1] = "table" -> One(FillTable(NewTable(E), L, t[2]))
    [] t[1] = "list" -> ListValues(E, L, t[2])

-----------------------------------------------------------------------------
(* Statements: the world and the variables after them, what is returned,   *)
(* and how they end: "", "return", "break", "goto" or "error".  There is   *)
(* one label, gotos go forward, and a block declares new names only.       *)

After(E, L, out, ret) == [E |-> E, L |-> L, out |-> out, ret |-> ret]

Extend(f, names, vs) ==
  [n \in DOMAIN f \cup Range(names) |->
     IF n \in Range(names) THEN vs[SelectLastInSeq(names, LAMBDA x : x = n)] ELSE f[n]]

\* One value of each.
Each(E, L, ts) == Values(E, L, <<"list", [i \in 1..Len(ts) |-> <<"paren", ts[i]>>]>>)

StoreField(a, r, v) == [a EXCEPT !.E = NewIndex(r.E, r.vs[1], r.vs[2], v)]
Store(a, target, v) ==
  CASE target[1] = "field" -> StoreField(a, Each(a.E, a.L, <<target[2], target[3]>>), v)
    [] target[2] \in DOMAIN a.L.loc -> [a EXCEPT !.L.loc[target[2]] = v]
    [] target[2] \in DOMAIN a.L.up -> [a EXCEPT !.L.up[target[2]] = v]
    [] OTHER -> [a EXCEPT !.E = NewIndex(a.E, a.L.up["_ENV"], Str(target[2]), v)]

\* The order in which Lua evaluates an assignment is undefined.  Here one field
\* is evaluated before its value, and several targets after all the values and
\* from the last one on.
OneField(st) == st.k \in {"assign", "function"} /\ Len(st.to) = 1 /\ Len(st.es) = 1 /\ st.to[1][1] = "field"
SetField(r, L) == After(NewIndex(r.E, r.vs[1], r.vs[2], r.vs[3]), L, "", << >>)
Assigned(r, L, to) ==
  FoldLeft(LAMBDA a, i : Store(a, to[i], Adjust(r.vs, Len(to))[i]), After(r.E, L, "", << >>),
           Reverse([i \in 1..Len(to) |-> i]))
Effect(r, L, st) ==
  CASE st.k = "return" -> After(r.E, L, "return", r.vs)
    [] st.k = "test" -> After(r.E, L, "return", <<Bool(to_bool(r.vs[1]))>>)
    [] st.k = "call" -> After(r.E, L, "", << >>)
    [] st.k \in {"local", "localfunction"} ->
         After(r.E, [L EXCEPT !.loc = Extend(@, st.to, Adjust(r.vs, Len(st.to)))], "", << >>)
    [] st.k \in {"assign", "function"} -> Assigned(r, L, st.to)
SimpleEffect(E, L, st) ==
  IF OneField(st) THEN SetField(Each(E, L, <<st.to[1][2], st.to[1][3], st.es[1]>>), L)
  ELSE Effect(Values(E, L, <<"list", st.es>>), L, st)

\* Loops and blocks: what is done (first component) from a state on.
RECURSIVE Perform(_, _, _)
InBlock(s, body) == Perform(<<"block">>, s, body)
WithLocals(s, names, vs) == [s EXCEPT !.L.loc = Extend(@, names, vs)]
\* The end of one round of a loop.
Round(b, job, st) ==
  CASE b.out = "" -> Perform(job, b, st) [] b.out = "break" -> [b EXCEPT !.out = ""] [] OTHER -> b
Scoped(b, s) == [b EXCEPT !.L.loc = [n \in DOMAIN s.L.loc |-> b.L.loc[n]]]

WhileRound(c, s, st) ==
  IF to_bool(c.v) THEN Round(InBlock([s EXCEPT !.E = c.E], st.body), <<"while">>, st) ELSE [s EXCEPT !.E = c.E]

Until(c, b) == [b EXCEPT !.E = c.E, !.out = IF to_bool(c.v) THEN "break" ELSE ""]
RepeatBody(s, st) == Perform(<<"statements">>, s, st.body)
RepeatRound(b, s, st) ==
  Round(Scoped(IF b.out = "" THEN Until(Value(b.E, b.L, st.es[1]), b) ELSE b, s), <<"repeat">>, st)

\* i, limit and step are integers that do not wrap.
ForRound(s, st, i, limit, step) ==
  IF (step > 0 /\ i > limit) \/ (step < 0 /\ i < limit) THEN s
  ELSE Round(Scoped(InBlock(WithLocals(s, st.to, <<Integer(i)>>), st.body), s), <<"for", i + step, limit, step>>, st)
ForStart(r, s, st) ==
  LET vs == IF Len(r.vs) = 3 THEN r.vs ELSE Append(r.vs, Integer(1))
  IN IF \A i \in 1..3 : vs[i][1] = "int"
     THEN ForRound([s EXCEPT !.E = r.E], st, vs[1][2], vs[2][2], vs[3][2])
     ELSE [s EXCEPT !.E = r.E, !.out = "error"]

InRound(c, s, st, f, state) ==
  IF c.vs[1] = Nil THEN [s EXCEPT !.E = c.E]
  ELSE Round(Scoped(InBlock(WithLocals([s EXCEPT !.E = c.E], st.to, Adjust(c.vs, Len(st.to))), st.body), s),
             <<"forin", f, state, c.vs[1]>>, st)
InStart(r, s, st) ==
  Perform(<<"forin", r.vs[1], Adjust(r.vs, 3)[2], Adjust(r.vs, 3)[3]>>, [s EXCEPT !.E = r.E], st)

\* The first condition that holds decides; the last body may have none.
Chosen(c, s, st) ==
  IF to_bool(c.v) THEN InBlock([s EXCEPT !.E = c.E], st.bodies[1])
  ELSE Perform(<<"if">>, [s EXCEPT !.E = c.E], [st EXCEPT !.es = Tail(@), !.bodies = Tail(@)])

Meaning(s, st) ==
  CASE st.k = "do" -> InBlock(s, st.body)
    [] st.k \in {"while", "repeat", "if"} -> Perform(<<st.k>>, s, st)
    [] st.k = "for" -> ForStart(Each(s.E, s.L, st.es), s, st)
    [] st.k = "forin" -> InStart(ListValues(s.E, s.L, st.es), s, st)
    [] st.k \in {"break", "goto"} -> [s EXCEPT !.out = st.k]
    [] st.k = "label" -> s
    [] OTHER -> SimpleEffect(s.E, s.L, st)
Step(s, st) ==
  CASE s.out = "" -> Meaning(s, st) [] s.out = "goto" /\ st.k = "label" -> [s EXCEPT !.out = ""] [] OTHER -> s

Perform(job, s, st) ==
  CASE job[1] = "statements" -> FoldLeft(Step, s, st)
    [] job[1] = "block" -> Scoped(FoldLeft(Step, s, st), s)
    [] job[1] = "while" -> WhileRound(Value(s.E, s.L, st.es[1]), s, st)
    [] job[1] = "repeat" -> RepeatRound(RepeatBody(s, st), s, st)
    [] job[1] = "for" -> ForRound(s, st, job[2], job[3], job[4])
    [] job[1] = "forin" -> InRound(CallValue(s.E, job[2], <<job[3], job[4]>>), s, st, job[2], job[3])
    [] job[1] = "if" ->
         IF st.bodies = << >> THEN s ELSE IF st.es = << >> THEN InBlock(s, st.bodies[1])
         ELSE Chosen(Value(s.E, s.L, st.es[1]), s, st)
=============================================================================
