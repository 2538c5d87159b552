------------------------- MODULE ThreadStackProofs -------------------------
(***************************************************************************)
(* The theorems about ThreadStack: the stack of a thread keeps the         *)
(* variables of every frame, and every closure sees the variables it       *)
(* captured, for any number of frames, registers, upvalues and variables.  *)
(*                                                                         *)
(* None of these is inductive by itself.  StackInv adds what the code      *)
(* relies on without saying it: frames lie above one another's variables,  *)
(* no two registers hold the same variable, no two upvalues capture it, an *)
(* open upvalue lies on the variable it captured and a closed one's is in  *)
(* no register; and which frames can be where, so that a call or a return  *)
(* finds its window.                                                       *)
(***************************************************************************)
EXTENDS ThreadStack, StackLemmas, FiniteSetTheorems

-----------------------------------------------------------------------------
(* The inductive invariant. *)

\* The first index above a frame's variables.
Floor(g) == g.base + Len(g.locals)

Formed(g) ==
  /\ g \in Frame
  /\ g.base = g.bottom + Len(g.extra) /\ Len(g.locals) <= g.size
  /\ g.kind # "Lua" => g.locals = << >> /\ g.extra = << >>
  /\ g.kind = "Lua" => g.size = StackSize
  /\ g.expect.tag = "MetaRegister" => g.expect.n \in Nat

\* Frames lie above one another, and their variables below n.
Nested(fs, n) ==
  /\ \A i \in 1..Len(fs) : Formed(fs[i]) /\ Floor(fs[i]) <= n
  /\ \A i, j \in 1..Len(fs) : i < j => Floor(fs[i]) <= fs[j].bottom

\* Variables and variable arguments are where they should be.
Holds(g, st, m) ==
  /\ \A k \in 1..Len(g.locals) : st[g.base + k] = m[g.locals[k]]
  /\ \A k \in 1..Len(g.extra) : st[g.bottom + k] = g.extra[k]

\* No two registers hold the same variable.
Apart(fs) ==
  \A i, j \in 1..Len(fs) : \A k \in 1..Len(fs[i].locals), l \in 1..Len(fs[j].locals) :
    fs[i].locals[k] = fs[j].locals[l] => i = j /\ k = l

FramesInv(fs, n, st, m) ==
  /\ fs \in Seq(Frame) /\ st \in Seq(Values) /\ n \in 0..Len(st) /\ m \in [Cells -> Values]
  /\ Nested(fs, n) /\ Apart(fs)
  /\ \A i \in 1..Len(fs) : Holds(fs[i], st, m)

UpValue == [open : BOOLEAN, ind : Nat, val : Values]
Listed(ou, u) == \E i \in 1..Len(ou) : ou[i] = u
Sorted(ou, uv) == \A i, j \in 1..Len(ou) : i < j => uv[ou[i]].ind < uv[ou[j]].ind

\* An open upvalue lies on the variable it captured, a closed one has its value,
\* and no register holds that variable any more.
Placed(fs, o, c) ==
  \E i \in 1..Len(fs) : \E k \in 1..Len(fs[i].locals) :
    o.ind = fs[i].base + k - 1 /\ c = fs[i].locals[k]
Gone(fs, c) == \A i \in 1..Len(fs) : \A k \in 1..Len(fs[i].locals) : fs[i].locals[k] # c
Sees(fs, m, o, c) == IF o.open THEN Placed(fs, o, c) ELSE Gone(fs, c) /\ o.val = m[c]

\* The upvalue of a frame's closure is not among the frame's own registers.
Outside(g, uv, us) ==
  /\ g.fn \in {Cb, Main} \cup us
  /\ g.fn \in us /\ uv[g.fn].open => uv[g.fn].ind < g.bottom

UpValuesInv(fs, m, ou, uv, us, co) ==
  /\ us \subseteq UpVals /\ ou \in Seq(us) /\ uv \in [UpVals -> UpValue] /\ co \in [UpVals -> Cells]
  /\ Sorted(ou, uv)
  /\ \A u \in us : uv[u].open <=> Listed(ou, u)
  /\ \A u \in us : Sees(fs, m, uv[u], co[u])
  /\ \A u, v \in us : co[u] = co[v] => u = v
  /\ \A i \in 1..Len(fs) : Outside(fs[i], uv, us)

\* Frames that wait for what they called.
Covered(fs) ==
  /\ \A i \in 1..Len(fs) : fs[i].kind \in {"Lua", "Sequence"}
  /\ fs # << >> => fs[1].bottom = 0

\* The frame on top, and how much of the stack it has.
OnTop(fs, n) ==
  LET g == Top(fs) IN
  /\ fs[1].bottom = 0
  /\ g.kind # "Result" => Covered(Pop(fs))
  /\ g.kind = "Result" /\ Len(fs) > 1 =>
       Covered(Pop(Pop(fs))) /\ Top(Pop(fs)).kind = "Yielded" /\ Top(Pop(fs)).bottom = g.bottom
  /\ g.kind \in {"Yielded", "WaitThread"} => n = g.bottom
  /\ g.kind = "Start" => Len(fs) = 1
  /\ g.kind = "Start" \/ (g.kind = "Error" /\ Len(fs) = 1) => n = 0
  /\ g.kind = "Lua" /\ ~g.is_variable => n = g.base + g.size
TopInv(fs, n) == IF fs = << >> THEN n = 0 ELSE OnTop(fs, n)

StackInv ==
  /\ FramesInv(frames, Len(stack), stack, mem)
  /\ UpValuesInv(frames, mem, open_upvalues, upval, used, cell_of)
  /\ TopInv(frames, Len(stack))

-----------------------------------------------------------------------------
(* Frames. *)

\* The fields of a frame.
LEMMA FrameFields ==
  ASSUME NEW g \in Frame
  PROVE  /\ g.kind \in FrameKinds /\ g.bottom \in Nat /\ g.base \in Nat /\ g.size \in Nat
         /\ g.is_variable \in BOOLEAN /\ g.fn \in {Cb, Main} \cup UpVals
         /\ g.locals \in Seq(Cells) /\ Len(g.locals) \in Nat
         /\ \A k \in 1..Len(g.locals) : g.locals[k] \in Cells
         /\ g.extra \in Seq(Values) /\ Len(g.extra) \in Nat
         /\ \A k \in 1..Len(g.extra) : g.extra[k] \in Values
         /\ Floor(g) \in Nat /\ g.base <= Floor(g)
<1>1. /\ g.kind \in FrameKinds /\ g.bottom \in Nat /\ g.base \in Nat /\ g.size \in {0, StackSize}
      /\ g.is_variable \in BOOLEAN /\ g.fn \in {Cb, Main} \cup UpVals
      /\ g.locals \in Seq(Cells) /\ g.extra \in Seq(Values)
  BY DEF Frame
<1>2. g.size \in Nat
  BY <1>1, StackAssumption
<1>3. Len(g.locals) \in Nat /\ Len(g.extra) \in Nat
  BY <1>1
<1>4. Floor(g) \in Nat /\ g.base <= Floor(g)
  BY <1>1, <1>3 DEF Floor
<1>5. /\ \A k \in 1..Len(g.locals) : g.locals[k] \in Cells
      /\ \A k \in 1..Len(g.extra) : g.extra[k] \in Values
  BY <1>1
<1> QED
  BY <1>1, <1>2, <1>3, <1>4, <1>5

\* A frame with all its parts in place starts below its variables.
LEMMA FormedFields ==
  ASSUME NEW g, Formed(g)
  PROVE  g \in Frame /\ g.bottom <= g.base /\ g.bottom <= Floor(g)
<1>1. g \in Frame /\ g.base = g.bottom + Len(g.extra)
  BY DEF Formed
<1> QED
  BY <1>1, FrameFields

\* Stacks that are the same below n hold the same variables.
LEMMA SameBelow ==
  ASSUME NEW fs, NEW n, NEW st, NEW m, FramesInv(fs, n, st, m),
         NEW t \in Seq(Values), NEW p \in n..Len(t), \A j \in 1..n : t[j] = st[j]
  PROVE  FramesInv(fs, p, t, m)
<1>1. /\ fs \in Seq(Frame) /\ n \in Nat /\ m \in [Cells -> Values] /\ Nested(fs, n) /\ Apart(fs)
      /\ \A i \in 1..Len(fs) : Holds(fs[i], st, m)
  BY DEF FramesInv
<1>2. p \in Nat /\ p \in 0..Len(t) /\ n <= p
  BY <1>1
<1>3. Nested(fs, p)
  <2>1. ASSUME NEW i \in 1..Len(fs) PROVE Formed(fs[i]) /\ Floor(fs[i]) <= p
    <3>1. Formed(fs[i]) /\ Floor(fs[i]) <= n /\ Floor(fs[i]) \in Nat
      BY <1>1, FormedFields, FrameFields DEF Nested
    <3> QED
      BY <1>1, <1>2, <3>1
  <2> QED
    BY <1>1, <2>1 DEF Nested
<1>4. ASSUME NEW i \in 1..Len(fs) PROVE Holds(fs[i], t, m)
  <2> DEFINE g == fs[i]
  <2>1. /\ Formed(g) /\ Floor(g) <= n /\ Holds(g, st, m) /\ g.bottom <= Floor(g)
        /\ g.bottom \in Nat /\ g.base \in Nat /\ Len(g.locals) \in Nat /\ Len(g.extra) \in Nat
        /\ g.bottom <= g.base /\ Floor(g) = g.base + Len(g.locals)
        /\ g.base = g.bottom + Len(g.extra)
    <3>1. Formed(g) /\ Floor(g) <= n /\ Holds(g, st, m)
      BY <1>1 DEF Nested
    <3>2. g \in Frame /\ g.bottom <= g.base /\ g.bottom <= Floor(g)
      BY <3>1, FormedFields
    <3> QED
      BY <3>1, <3>2, FrameFields DEF Floor, Formed
  <2> HIDE DEF g
  <2>2. ASSUME NEW k \in 1..Len(g.locals) PROVE g.base + k \in 1..n
    <3> DEFINE b == g.base
               e == Len(g.locals)
    <3>1. b \in Nat /\ e \in Nat /\ n \in Nat /\ b + e <= n /\ k \in 1..e
      BY <1>1, <2>1
    <3> HIDE DEF b, e
    <3>2. b + k \in 1..n
      BY ONLY <3>1
    <3> QED
      BY <3>2 DEF b
  <2>3. ASSUME NEW k \in 1..Len(g.extra) PROVE g.bottom + k \in 1..n
    <3> DEFINE a == g.bottom
               b == g.base
               e == Len(g.extra)
    <3>1. a \in Nat /\ b \in Nat /\ e \in Nat /\ n \in Nat /\ b <= n /\ b = a + e /\ k \in 1..e
      BY <1>1, <2>1
    <3> HIDE DEF a, b, e
    <3>2. a + k \in 1..n
      BY <3>1
    <3> QED
      BY <3>2 DEF a
  <2>4. Holds(g, t, m)
    BY <2>1, <2>2, <2>3 DEF Holds
  <2> QED
    BY <2>4 DEF g
<1> QED
  BY <1>1, <1>2, <1>3, <1>4 DEF FramesInv

\* Without the top frame, nothing is left above its bottom.
LEMMA PopFrames ==
  ASSUME NEW fs, NEW n, NEW st, NEW m, FramesInv(fs, n, st, m), fs # << >>
  PROVE  FramesInv(Pop(fs), Top(fs).bottom, st, m) /\ Top(fs).bottom <= n
<1>1. /\ fs \in Seq(Frame) /\ n \in 0..Len(st) /\ m \in [Cells -> Values] /\ Nested(fs, n)
      /\ Apart(fs) /\ st \in Seq(Values) /\ \A i \in 1..Len(fs) : Holds(fs[i], st, m)
  BY DEF FramesInv
<1> DEFINE l == Len(fs)
           q == Pop(fs)
<1>2. /\ l \in Nat /\ l > 0 /\ q \in Seq(Frame) /\ Len(q) = l - 1 /\ Top(fs) = fs[l]
      /\ \A i \in 1..(l - 1) : q[i] = fs[i]
  BY <1>1, NonEmpty, PopElements DEF Top
<1> HIDE DEF l, q
<1>3. /\ \A i \in 1..Len(q) : q[i] = fs[i] /\ i \in 1..l /\ i < l
      /\ l \in 1..l
  BY <1>2
<1>4. Top(fs).bottom \in Nat /\ Top(fs).bottom <= n /\ n <= Len(st) /\ n \in Nat /\ Len(st) \in Nat
  <2>1. Formed(fs[l]) /\ Floor(fs[l]) <= n
    BY <1>1, <1>3 DEF Nested, l
  <2>2. fs[l].bottom \in Nat /\ fs[l].bottom <= Floor(fs[l]) /\ Floor(fs[l]) \in Nat
    BY <2>1, FormedFields, FrameFields
  <2>3. n \in Nat /\ Len(st) \in Nat /\ n <= Len(st)
    BY <1>1
  <2> QED
    BY <1>2, <2>1, <2>2, <2>3
<1>5. Nested(q, Top(fs).bottom)
  BY <1>1, <1>2, <1>3 DEF Nested, l
<1>6. Apart(q)
  <2> SUFFICES ASSUME NEW i \in 1..Len(q), NEW j \in 1..Len(q),
                      NEW k \in 1..Len(q[i].locals), NEW h \in 1..Len(q[j].locals),
                      q[i].locals[k] = q[j].locals[h]
               PROVE  i = j /\ k = h
    BY DEF Apart
  <2>1. /\ i \in 1..Len(fs) /\ j \in 1..Len(fs)
        /\ k \in 1..Len(fs[i].locals) /\ h \in 1..Len(fs[j].locals)
        /\ fs[i].locals[k] = fs[j].locals[h]
    BY <1>3 DEF l
  <2>2. Apart(fs)
    BY <1>1
  <2>3. \A x \in 1..Len(fs[i].locals), y \in 1..Len(fs[j].locals) :
          fs[i].locals[x] = fs[j].locals[y] => i = j /\ x = y
    BY ONLY <2>1, <2>2 DEF Apart
  <2> QED
    BY ONLY <2>1, <2>3
<1>7. \A i \in 1..Len(q) : Holds(q[i], st, m)
  BY <1>1, <1>3 DEF l
<1>8. Top(fs).bottom \in 0..Len(st)
  BY <1>4
<1> QED
  BY <1>1, <1>2, <1>4, <1>5, <1>6, <1>7, <1>8 DEF FramesInv, q

\* A frame whose variables and arguments end below p leaves the rest of the stack.
LEMMA LowerTop ==
  ASSUME NEW fs, NEW n, NEW st, NEW m, FramesInv(fs, n, st, m), fs # << >>,
         NEW p \in Floor(Top(fs))..Len(st)
  PROVE  FramesInv(fs, p, st, m)
<1>1. /\ fs \in Seq(Frame) /\ n \in 0..Len(st) /\ m \in [Cells -> Values] /\ Nested(fs, n)
      /\ Apart(fs) /\ st \in Seq(Values) /\ \A i \in 1..Len(fs) : Holds(fs[i], st, m)
  BY DEF FramesInv
<1> DEFINE l == Len(fs)
<1>2. l \in Nat /\ l > 0 /\ Top(fs) = fs[l] /\ l \in 1..l
  BY <1>1, NonEmpty DEF Top
<1>3. ASSUME NEW i \in 1..l
      PROVE  /\ Formed(fs[i]) /\ Floor(fs[i]) \in Nat /\ fs[i].bottom \in Nat
             /\ fs[i].bottom <= Floor(fs[i])
  BY <1>1, FormedFields, FrameFields DEF Nested
<1> HIDE DEF l
<1>4. Floor(fs[l]) \in Nat /\ p \in Nat /\ Floor(fs[l]) <= p /\ p \in 0..Len(st)
  BY <1>1, <1>2, <1>3
<1>5. ASSUME NEW i \in 1..l PROVE Floor(fs[i]) <= p
  <2>1. CASE i = l
    BY <1>4, <2>1
  <2>2. CASE i # l
    <3>1. i < l
      BY <1>2, <2>2
    <3>2. Floor(fs[i]) <= fs[l].bottom
      BY <1>1, <1>2, <3>1 DEF Nested, l
    <3> QED
      BY <1>2, <1>3, <1>4, <3>2
  <2> QED
    BY <2>1, <2>2
<1>6. Nested(fs, p)
  BY <1>1, <1>5 DEF Nested, l
<1> QED
  BY <1>1, <1>4, <1>6 DEF FramesInv

\* Frames that differ only in what they expect and how much they evaluate.
Alike(g, h) ==
  /\ h.kind = g.kind /\ h.bottom = g.bottom /\ h.base = g.base /\ h.fn = g.fn
  /\ h.locals = g.locals /\ h.extra = g.extra

\* They hold the same variables in the same places.
LEMMA AlikeFrames ==
  ASSUME NEW fs, NEW n, NEW st, NEW m, FramesInv(fs, n, st, m), NEW gs \in Seq(Frame),
         Len(gs) = Len(fs), \A i \in 1..Len(fs) : Formed(gs[i]) /\ Alike(fs[i], gs[i])
  PROVE  FramesInv(gs, n, st, m)
<1>1. /\ n \in 0..Len(st) /\ m \in [Cells -> Values] /\ Nested(fs, n)
      /\ Apart(fs) /\ st \in Seq(Values) /\ \A i \in 1..Len(fs) : Holds(fs[i], st, m)
  BY DEF FramesInv
<1>2. \A i \in 1..Len(fs) : Floor(gs[i]) = Floor(fs[i]) /\ gs[i].bottom = fs[i].bottom
  BY DEF Floor, Alike
<1>3. Nested(gs, n)
  BY <1>1, <1>2 DEF Nested
<1>4. Apart(gs)
  <2>1. \A i \in 1..Len(fs) : gs[i].locals = fs[i].locals
    BY DEF Alike
  <2> SUFFICES ASSUME NEW i \in 1..Len(gs), NEW j \in 1..Len(gs),
                      NEW k \in 1..Len(gs[i].locals), NEW h \in 1..Len(gs[j].locals),
                      gs[i].locals[k] = gs[j].locals[h]
               PROVE  i = j /\ k = h
    BY DEF Apart
  <2>2. /\ k \in 1..Len(fs[i].locals) /\ h \in 1..Len(fs[j].locals)
        /\ fs[i].locals[k] = fs[j].locals[h] /\ i \in 1..Len(fs) /\ j \in 1..Len(fs)
    BY <2>1
  <2>3. Apart(fs)
    BY <1>1
  <2>4. \A x \in 1..Len(fs[i].locals), y \in 1..Len(fs[j].locals) :
          fs[i].locals[x] = fs[j].locals[y] => i = j /\ x = y
    BY ONLY <2>2, <2>3 DEF Apart
  <2> QED
    BY ONLY <2>2, <2>4
<1>5. ASSUME NEW i \in 1..Len(fs) PROVE Holds(gs[i], st, m)
  <2>1. Holds(fs[i], st, m) /\ Alike(fs[i], gs[i])
    BY <1>1
  <2> QED
    BY ONLY <2>1 DEF Holds, Alike
<1> QED
  BY <1>1, <1>3, <1>4, <1>5 DEF FramesInv

\* Values of other variables may change.
Keeps(fs, m, m2) ==
  \A i \in 1..Len(fs) : \A k \in 1..Len(fs[i].locals) : m2[fs[i].locals[k]] = m[fs[i].locals[k]]

\* The variables of a frame are in no other register.
Fresh(fs, g) ==
  /\ \A k, l \in 1..Len(g.locals) : g.locals[k] = g.locals[l] => k = l
  /\ \A k \in 1..Len(g.locals) : Gone(fs, g.locals[k])

\* A frame is pushed above the others.
LEMMA PushFrame ==
  ASSUME NEW fs, NEW n, NEW st, NEW m, FramesInv(fs, n, st, m),
         NEW g, Formed(g), n <= g.bottom, NEW p \in Floor(g)..Len(st),
         NEW m2 \in [Cells -> Values], Keeps(fs, m, m2), Fresh(fs, g), Holds(g, st, m2)
  PROVE  FramesInv(Append(fs, g), p, st, m2)
<1>1. /\ fs \in Seq(Frame) /\ n \in 0..Len(st) /\ Nested(fs, n)
      /\ Apart(fs) /\ st \in Seq(Values) /\ \A i \in 1..Len(fs) : Holds(fs[i], st, m)
  BY DEF FramesInv
<1> DEFINE l == Len(fs)
           q == Append(fs, g)
<1>2. /\ g \in Frame /\ g.bottom \in Nat /\ Floor(g) \in Nat /\ g.bottom <= Floor(g)
  BY FormedFields, FrameFields
<1>3. /\ l \in Nat /\ q \in Seq(Frame) /\ Len(q) = l + 1 /\ q[l + 1] = g
      /\ \A i \in 1..l : q[i] = fs[i]
  BY <1>1, <1>2, PushElements
<1>4. n \in Nat /\ Len(st) \in Nat /\ p \in Nat /\ p \in 0..Len(st) /\ Floor(g) <= p
  BY <1>1, <1>2
<1>5. ASSUME NEW i \in 1..l
      PROVE  Formed(fs[i]) /\ Floor(fs[i]) <= g.bottom /\ Floor(fs[i]) <= p
  <2>1. Formed(fs[i]) /\ Floor(fs[i]) <= n
    BY <1>1 DEF Nested
  <2> DEFINE a == Floor(fs[i])
             b == g.bottom
             c == Floor(g)
  <2>2. a \in Nat /\ b \in Nat /\ c \in Nat /\ a <= n /\ n <= b /\ b <= c /\ c <= p
    BY <1>2, <1>4, <2>1, FormedFields, FrameFields
  <2> HIDE DEF a, b, c
  <2>3. a <= b /\ a <= p
    BY <1>4, <2>2
  <2> QED
    BY <2>1, <2>3 DEF a, b
<1> HIDE DEF l, q
<1>6. \A i \in 1..Len(q) : i \in 1..l \/ i = l + 1
  BY <1>3
<1>7. \A i, j \in 1..Len(q) : i < j => i \in 1..l
  BY <1>3
<1>8. Nested(q, p)
  <2>1. ASSUME NEW i \in 1..Len(q) PROVE Formed(q[i]) /\ Floor(q[i]) <= p
    BY <1>3, <1>4, <1>5, <1>6
  <2>2. ASSUME NEW i \in 1..Len(q), NEW j \in 1..Len(q), i < j PROVE Floor(q[i]) <= q[j].bottom
    <3>1. i \in 1..l /\ q[i] = fs[i]
      BY <1>3, <1>7, <2>2
    <3>2. CASE j \in 1..l
      BY <1>1, <1>3, <2>2, <3>1, <3>2 DEF Nested, l
    <3>3. CASE j = l + 1
      BY <1>3, <1>5, <3>1, <3>3
    <3> QED
      BY <1>6, <3>2, <3>3
  <2> QED
    BY <2>1, <2>2 DEF Nested
<1>9. Apart(q)
  <2> SUFFICES ASSUME NEW i \in 1..Len(q), NEW j \in 1..Len(q),
                      NEW k \in 1..Len(q[i].locals), NEW h \in 1..Len(q[j].locals),
                      q[i].locals[k] = q[j].locals[h]
               PROVE  i = j /\ k = h
    BY DEF Apart
  <2>1. CASE i \in 1..l /\ j \in 1..l
    <3>1. q[i] = fs[i] /\ q[j] = fs[j]
      BY <1>3, <2>1
    <3>2. /\ k \in 1..Len(fs[i].locals) /\ h \in 1..Len(fs[j].locals)
          /\ fs[i].locals[k] = fs[j].locals[h]
      BY <3>1
    <3>3. Apart(fs) /\ i \in 1..Len(fs) /\ j \in 1..Len(fs)
      BY <1>1, <2>1 DEF l
    <3>4. \A x \in 1..Len(fs[i].locals), y \in 1..Len(fs[j].locals) :
            fs[i].locals[x] = fs[j].locals[y] => i = j /\ x = y
      BY ONLY <3>3 DEF Apart
    <3> QED
      BY ONLY <3>2, <3>4
  <2>2. CASE i \in 1..l /\ j = l + 1
    <3>1. k \in 1..Len(fs[i].locals) /\ h \in 1..Len(g.locals) /\ fs[i].locals[k] = g.locals[h]
      BY <1>3, <2>2
    <3>2. i \in 1..Len(fs)
      BY <2>2 DEF l
    <3> QED
      BY <3>1, <3>2, Zenon DEF Fresh, Gone
  <2>3. CASE i = l + 1 /\ j \in 1..l
    <3>1. h \in 1..Len(fs[j].locals) /\ k \in 1..Len(g.locals) /\ fs[j].locals[h] = g.locals[k]
      BY <1>3, <2>3
    <3>2. j \in 1..Len(fs)
      BY <2>3 DEF l
    <3> QED
      BY <3>1, <3>2, Zenon DEF Fresh, Gone
  <2>4. CASE i = l + 1 /\ j = l + 1
    BY <1>3, <2>4 DEF Fresh
  <2>5. (i \in 1..l \/ i = l + 1) /\ (j \in 1..l \/ j = l + 1)
    BY <1>6
  <2> QED
    BY <2>1, <2>2, <2>3, <2>4, <2>5, Zenon
<1>10. ASSUME NEW i \in 1..Len(q) PROVE Holds(q[i], st, m2)
  <2>1. CASE i \in 1..l
    <3> DEFINE x == fs[i]
    <3>1. q[i] = x /\ Holds(x, st, m)
      BY <1>1, <1>3, <2>1 DEF l
    <3>2. \A k \in 1..Len(x.locals) : m2[x.locals[k]] = m[x.locals[k]]
      BY <2>1 DEF Keeps, l
    <3> HIDE DEF x
    <3> QED
      BY <3>1, <3>2 DEF Holds
  <2>2. CASE i = l + 1
    BY <1>3, <2>2
  <2> QED
    BY <1>6, <2>1, <2>2
<1> QED
  BY <1>1, <1>3, <1>4, <1>8, <1>9, <1>10 DEF FramesInv, q

\* A frame without variables.
LEMMA PushBare ==
  ASSUME NEW fs, NEW n, NEW st, NEW m, FramesInv(fs, n, st, m), NEW g, Formed(g), n <= g.bottom,
         g.locals = << >>, g.extra = << >>, g.bottom <= Len(st)
  PROVE  FramesInv(Append(fs, g), Len(st), st, m)
<1>1. Len(g.locals) = 0 /\ Len(g.extra) = 0 /\ 1..0 = {}
  OBVIOUS
<1>2. m \in [Cells -> Values] /\ Len(st) \in Nat
  BY DEF FramesInv
<1>3. Floor(g) = g.bottom /\ g.bottom \in Nat
  <2>1. g \in Frame /\ g.base = g.bottom + 0
    BY <1>1 DEF Formed
  <2> QED
    BY <1>1, <2>1, FrameFields DEF Floor
<1>4. Len(st) \in Floor(g)..Len(st)
  BY <1>2, <1>3
<1>5. Keeps(fs, m, m) /\ Fresh(fs, g) /\ Holds(g, st, m)
  BY <1>1 DEF Keeps, Fresh, Holds
<1> QED
  BY <1>2, <1>4, <1>5, PushFrame

\* Popping what was pushed.
LEMMA PopPushed ==
  ASSUME NEW S, NEW s \in Seq(S), NEW e \in S
  PROVE  Pop(Append(s, e)) = s
<1> DEFINE q == Append(s, e)
<1>1. q \in Seq(S) /\ q # << >> /\ Len(q) = Len(s) + 1 /\ \A i \in 1..Len(s) : q[i] = s[i]
  BY PushElements
<1> HIDE DEF q
<1>2. /\ Pop(q) \in Seq(S) /\ Len(Pop(q)) = Len(q) - 1
      /\ \A i \in 1..(Len(q) - 1) : Pop(q)[i] = q[i]
  BY <1>1, PopElements
<1> DEFINE p == Pop(q)
<1> HIDE DEF p
<1>3. p \in Seq(S) /\ Len(p) = Len(s) /\ \A i \in 1..Len(s) : p[i] = s[i]
  BY <1>1, <1>2 DEF p
<1>4. p = s
  BY <1>3
<1> QED
  BY <1>4 DEF p, q

\* The top frame is replaced.
LEMMA SetTopElements ==
  ASSUME NEW fs \in Seq(Frame), fs # << >>, NEW g \in Frame
  PROVE  /\ SetTop(fs, g) \in Seq(Frame) /\ SetTop(fs, g) # << >>
         /\ Len(SetTop(fs, g)) = Len(fs) /\ Top(SetTop(fs, g)) = g
         /\ SetTop(fs, g)[Len(fs)] = g
         /\ \A i \in 1..(Len(fs) - 1) : SetTop(fs, g)[i] = fs[i]
         /\ Pop(SetTop(fs, g)) = Pop(fs)
<1> DEFINE p == Pop(fs)
<1>1. /\ p \in Seq(Frame) /\ Len(p) = Len(fs) - 1 /\ \A i \in 1..(Len(fs) - 1) : p[i] = fs[i]
      /\ Len(fs) \in Nat
  BY PopElements
<1> HIDE DEF p
<1>2. SetTop(fs, g) = Append(p, g)
  BY DEF SetTop, p
<1>3. /\ Append(p, g) \in Seq(Frame) /\ Append(p, g) # << >> /\ Len(Append(p, g)) = Len(p) + 1
      /\ Append(p, g)[Len(p) + 1] = g /\ Top(Append(p, g)) = g
      /\ \A i \in 1..Len(p) : Append(p, g)[i] = p[i]
      /\ Pop(Append(p, g)) = p
  BY <1>1, PushElements, PopPushed
<1>4. Len(p) + 1 = Len(fs)
  BY <1>1
<1> QED
  BY <1>1, <1>2, <1>3, <1>4 DEF p

\* A frame that only differs from the one on top in what it expects and evaluates.
LEMMA AlikeTop ==
  ASSUME NEW fs, NEW n, NEW st, NEW m, FramesInv(fs, n, st, m), fs # << >>,
         NEW g, Formed(g), Alike(Top(fs), g)
  PROVE  FramesInv(SetTop(fs, g), n, st, m)
<1> DEFINE gs == SetTop(fs, g)
           l == Len(fs)
<1>1. fs \in Seq(Frame) /\ \A i \in 1..l : Formed(fs[i])
  BY DEF FramesInv, Nested
<1>2. g \in Frame
  BY DEF Formed
<1>3. /\ gs \in Seq(Frame) /\ Len(gs) = l /\ gs[l] = g /\ \A i \in 1..(l - 1) : gs[i] = fs[i]
  BY <1>1, <1>2, SetTopElements
<1>4. l \in Nat /\ Top(fs) = fs[l]
  BY <1>1 DEF Top
<1> HIDE DEF gs, l
<1>5. ASSUME NEW i \in 1..l PROVE Formed(gs[i]) /\ Alike(fs[i], gs[i])
  <2>1. CASE i = l
    BY <1>3, <1>4, <2>1
  <2>2. CASE i # l
    <3>1. i \in 1..(l - 1)
      BY <1>4, <2>2
    <3>2. gs[i] = fs[i]
      BY <1>3, <3>1
    <3> QED
      BY <1>1, <3>2 DEF Alike
  <2> QED
    BY <2>1, <2>2
<1>6. FramesInv(gs, n, st, m)
  BY <1>3, <1>5, AlikeFrames DEF l
<1> QED
  BY <1>6 DEF gs

\* No two variables or variable arguments have the same place.
LEMMA PlacesApart ==
  ASSUME NEW fs \in Seq(Frame), NEW n, Nested(fs, n),
         NEW i \in 1..Len(fs), NEW k \in 1..Len(fs[i].locals), NEW j \in 1..Len(fs)
  PROVE  /\ \A h \in 1..Len(fs[j].locals) :
              fs[j].base + h = fs[i].base + k => j = i /\ h = k
         /\ \A h \in 1..Len(fs[j].extra) : fs[j].bottom + h # fs[i].base + k
<1> DEFINE a == fs[i].bottom
           b == fs[i].base
           c == Len(fs[i].locals)
           x == fs[j].bottom
           y == fs[j].base
           z == Len(fs[j].locals)
           w == Len(fs[j].extra)
<1>1. /\ a \in Nat /\ b \in Nat /\ c \in Nat /\ x \in Nat /\ y \in Nat /\ z \in Nat /\ w \in Nat
      /\ a <= b /\ y = x + w
  BY FrameFields, FormedFields DEF Nested, Formed
<1>2. (i < j => b + c <= x) /\ (j < i => y + z <= a)
  BY DEF Nested, Floor
<1>3. (i = j => b = y /\ c = z) /\ k \in 1..c
  OBVIOUS
<1> HIDE DEF a, b, c, x, y, z, w
<1>4. ASSUME NEW h \in 1..z, y + h = b + k PROVE j = i /\ h = k
  <2>1. i \in Int /\ j \in Int
    BY <1>4
  <2>2. ~(i < j) /\ ~(j < i)
    BY <1>1, <1>2, <1>3, <1>4
  <2>3. i = j
    BY <2>1, <2>2
  <2> QED
    BY <1>1, <1>3, <1>4, <2>3
<1>5. ASSUME NEW h \in 1..w PROVE x + h # b + k
  <2>1. i \in Int /\ j \in Int
    BY <1>5
  <2>2. CASE i < j
    BY <1>1, <1>2, <1>3, <2>2
  <2>3. CASE j < i
    BY <1>1, <1>2, <1>3, <2>3
  <2>4. CASE i = j
    BY <1>1, <1>2, <1>3, <2>4
  <2> QED
    BY <2>1, <2>2, <2>3, <2>4
<1> QED
  BY <1>4, <1>5 DEF a, b, c, x, y, z, w

\* A variable is assigned in its register.
LEMMA StoreFrames ==
  ASSUME NEW fs, NEW n, NEW st, NEW m, FramesInv(fs, n, st, m), NEW v \in Values,
         NEW i \in 1..Len(fs), NEW k \in 1..Len(fs[i].locals)
  PROVE  FramesInv(fs, n, Write(st, fs[i].base + k - 1, v), [m EXCEPT ![fs[i].locals[k]] = v])
<1>1. /\ fs \in Seq(Frame) /\ n \in 0..Len(st) /\ m \in [Cells -> Values] /\ Nested(fs, n)
      /\ Apart(fs) /\ st \in Seq(Values) /\ \A j \in 1..Len(fs) : Holds(fs[j], st, m)
  BY DEF FramesInv
<1> DEFINE c == fs[i].locals[k]
           a == fs[i].base + k
           t == [st EXCEPT ![a] = v]
           m2 == [m EXCEPT ![c] = v]
<1>2. Write(st, fs[i].base + k - 1, v) = t
  <2>1. fs[i].base \in Nat /\ k \in Nat
    BY <1>1, FrameFields
  <2>2. fs[i].base + k - 1 + 1 = fs[i].base + k
    BY <2>1
  <2> QED
    BY <2>2 DEF Write
<1>3. c \in Cells /\ a \in 1..Len(st)
  <2>1. Floor(fs[i]) <= n /\ fs[i].base \in Nat /\ Len(fs[i].locals) \in Nat /\ c \in Cells
    BY <1>1, FrameFields DEF Nested
  <2> DEFINE x == fs[i].base
             y == Len(fs[i].locals)
             z == Len(st)
  <2>2. x \in Nat /\ y \in Nat /\ z \in Nat /\ n \in 0..z /\ x + y <= n /\ k \in 1..y
    BY <1>1, <2>1 DEF Floor
  <2> HIDE DEF x, y, z
  <2>3. x + k \in 1..z
    BY <2>2
  <2> QED
    BY <2>1, <2>3 DEF x, z
<1>4. /\ t \in Seq(Values) /\ Len(t) = Len(st) /\ t[a] = v
      /\ \A x \in 1..Len(st) : x # a => t[x] = st[x]
  BY <1>1, <1>3
<1>5. m2 \in [Cells -> Values] /\ m2[c] = v /\ \A d \in Cells : d # c => m2[d] = m[d]
  BY <1>1, <1>3
<1>6. ASSUME NEW j \in 1..Len(fs) PROVE Holds(fs[j], t, m2)
  <2>1. /\ \A h \in 1..Len(fs[j].locals) : fs[j].base + h = a => j = i /\ h = k
        /\ \A h \in 1..Len(fs[j].extra) : fs[j].bottom + h # a
    BY <1>1, PlacesApart
  <2>2. Holds(fs[j], st, m)
    BY <1>1
  <2>3. /\ Floor(fs[j]) <= n /\ fs[j].base \in Nat /\ Len(fs[j].locals) \in Nat
        /\ fs[j].bottom \in Nat /\ Len(fs[j].extra) \in Nat /\ fs[j].base = fs[j].bottom + Len(fs[j].extra)
        /\ \A h \in 1..Len(fs[j].locals) : fs[j].locals[h] \in Cells
    BY <1>1, FrameFields DEF Nested, Formed
  <2>4. /\ \A h \in 1..Len(fs[j].locals) : fs[j].base + h \in 1..Len(st)
        /\ \A h \in 1..Len(fs[j].extra) : fs[j].bottom + h \in 1..Len(st)
    <3> DEFINE x == fs[j].bottom
               y == fs[j].base
               z == Len(fs[j].locals)
               w == Len(fs[j].extra)
               s == Len(st)
    <3>1. /\ x \in Nat /\ y \in Nat /\ z \in Nat /\ w \in Nat /\ s \in Nat /\ y = x + w
          /\ y + z <= n /\ n <= s /\ n \in Nat
      BY <1>1, <2>3 DEF Floor
    <3> HIDE DEF x, y, z, w, s
    <3>2. (\A h \in 1..z : y + h \in 1..s) /\ \A h \in 1..w : x + h \in 1..s
      BY <3>1
    <3> QED
      BY <3>2 DEF x, y, z, w, s
  <2> HIDE DEF a, t, m2, c
  <2>5. ASSUME NEW h \in 1..Len(fs[j].locals) PROVE t[fs[j].base + h] = m2[fs[j].locals[h]]
    <3>1. CASE fs[j].base + h = a
      <4>1. fs[j].locals[h] = c
        BY <2>1, <3>1 DEF c
      <4> QED
        BY <1>4, <1>5, <3>1, <4>1
    <3>2. CASE fs[j].base + h # a
      <4>1. fs[j].locals[h] # c
        <5>1. SUFFICES ASSUME fs[j].locals[h] = fs[i].locals[k] PROVE FALSE
          BY DEF c
        <5>2. Apart(fs)
          BY <1>1
        <5>3. j = i /\ h = k
          BY <5>1, <5>2, Zenon DEF Apart
        <5> QED
          BY <3>2, <5>3 DEF a
      <4>2. st[fs[j].base + h] = m[fs[j].locals[h]]
        BY <2>2 DEF Holds
      <4> QED
        BY <1>4, <1>5, <2>3, <2>4, <3>2, <4>1, <4>2
    <3> QED
      BY <3>1, <3>2
  <2>6. ASSUME NEW h \in 1..Len(fs[j].extra) PROVE t[fs[j].bottom + h] = fs[j].extra[h]
    BY <1>4, <2>1, <2>2, <2>4 DEF Holds
  <2> QED
    BY <2>5, <2>6 DEF Holds
<1> HIDE DEF a, t, m2, c
<1>7. FramesInv(fs, n, t, m2)
  BY <1>1, <1>4, <1>5, <1>6 DEF FramesInv
<1> QED
  BY <1>2, <1>7 DEF m2, c

\* A variable that is in no register is assigned.
LEMMA StoreGone ==
  ASSUME NEW fs, NEW n, NEW st, NEW m, FramesInv(fs, n, st, m), NEW v \in Values,
         NEW c \in Cells, Gone(fs, c)
  PROVE  FramesInv(fs, n, st, [m EXCEPT ![c] = v])
<1> DEFINE m2 == [m EXCEPT ![c] = v]
<1>1. /\ fs \in Seq(Frame) /\ m \in [Cells -> Values] /\ \A j \in 1..Len(fs) : Holds(fs[j], st, m)
  BY DEF FramesInv
<1>2. m2 \in [Cells -> Values] /\ \A d \in Cells : d # c => m2[d] = m[d]
  BY <1>1
<1> HIDE DEF m2
<1>3. ASSUME NEW j \in 1..Len(fs) PROVE Holds(fs[j], st, m2)
  <2>1. \A h \in 1..Len(fs[j].locals) : fs[j].locals[h] \in Cells
    BY <1>1, FrameFields
  <2> QED
    BY <1>1, <1>2, <2>1 DEF Holds, Gone
<1>4. FramesInv(fs, n, st, m2)
  BY <1>2, <1>3 DEF FramesInv
<1> QED
  BY <1>4 DEF m2

-----------------------------------------------------------------------------
(* Upvalues. *)

\* The binary search of a sorted list: the upvalues below an index come first.
LEMMA PositionSplits ==
  ASSUME UpValuesInv(frames, mem, open_upvalues, upval, used, cell_of), NEW ind \in Nat
  PROVE  /\ Position(ind) \in 0..Len(open_upvalues)
         /\ \A i \in 1..Len(open_upvalues) :
              i <= Position(ind) <=> upval[open_upvalues[i]].ind < ind
<1> DEFINE n == Len(open_upvalues)
           P(i) == upval[open_upvalues[i]].ind < ind
           T == {i \in 1..(n + 1) : i = n + 1 \/ ~P(i)}
<1>1. /\ n \in Nat /\ \A i \in 1..n : upval[open_upvalues[i]].ind \in Nat
      /\ \A i, j \in 1..n : i < j => upval[open_upvalues[i]].ind < upval[open_upvalues[j]].ind
  <2>1. /\ open_upvalues \in Seq(used) /\ used \subseteq UpVals /\ upval \in [UpVals -> UpValue]
        /\ Sorted(open_upvalues, upval)
    BY DEF UpValuesInv
  <2>2. ASSUME NEW i \in 1..n PROVE upval[open_upvalues[i]].ind \in Nat
    BY <2>1 DEF UpValue
  <2> QED
    BY <2>1, <2>2 DEF Sorted
<1>2. PICK x \in T : \A y \in T : x <= y
  <2>1. T \in SUBSET Nat /\ n + 1 \in T
    BY <1>1
  <2> HIDE DEF T
  <2> QED
    BY <2>1, Least
<1> HIDE DEF n
<1>3. \A i \in 1..n : i <= x - 1 <=> P(i)
  <2> SUFFICES ASSUME NEW i \in 1..n PROVE i <= x - 1 <=> P(i)
    OBVIOUS
  <2>1. x \in 1..(n + 1) /\ (x = n + 1 \/ ~P(x))
    OBVIOUS
  <2>2. ASSUME i <= x - 1 PROVE P(i)
    BY <1>1, <1>2, <2>1, <2>2
  <2>3. ASSUME ~(i <= x - 1) PROVE ~P(i)
    <3>1. x <= i /\ x \in 1..n /\ ~P(x)
      BY <1>1, <2>1, <2>3
    <3>2. CASE x = i
      BY <3>1, <3>2
    <3>3. CASE x < i
      BY <1>1, <3>1, <3>3
    <3> QED
      BY <1>1, <3>1, <3>2, <3>3
  <2> QED
    BY <2>2, <2>3
<1>4. x - 1 \in 0..n
  BY <1>1
<1>5. {i \in 1..n : P(i)} = 1..(x - 1)
  BY <1>1, <1>3, <1>4
<1>6. Cardinality(1..(x - 1)) = x - 1
  BY <1>1, <1>4, FS_Interval
<1>7. Position(ind) = x - 1
  BY <1>5, <1>6 DEF Position, n
<1> QED
  BY <1>3, <1>4, <1>7 DEF n

\* The place of an open upvalue holds the variable it captured.
LEMMA PlaceHolds ==
  ASSUME NEW fs, NEW n, NEW st, NEW m, FramesInv(fs, n, st, m), NEW o \in UpValue, NEW c,
         Placed(fs, o, c)
  PROVE  o.ind + 1 \in 1..n /\ n <= Len(st) /\ st[o.ind + 1] = m[c] /\ c \in Cells
<1>1. /\ fs \in Seq(Frame) /\ n \in 0..Len(st) /\ m \in [Cells -> Values] /\ Nested(fs, n)
      /\ st \in Seq(Values) /\ \A i \in 1..Len(fs) : Holds(fs[i], st, m)
  BY DEF FramesInv
<1>0. PICK i \in 1..Len(fs) : \E k \in 1..Len(fs[i].locals) :
        o.ind = fs[i].base + k - 1 /\ c = fs[i].locals[k]
  BY DEF Placed
<1>2. PICK k \in 1..Len(fs[i].locals) : o.ind = fs[i].base + k - 1 /\ c = fs[i].locals[k]
  BY <1>0
<1>3. /\ Floor(fs[i]) <= n /\ fs[i].base \in Nat /\ Len(fs[i].locals) \in Nat /\ c \in Cells
  BY <1>1, <1>2, FrameFields DEF Nested
<1> DEFINE x == fs[i].base
           y == Len(fs[i].locals)
           z == Len(st)
<1>4. /\ x \in Nat /\ y \in Nat /\ z \in Nat /\ n \in 0..z /\ x + y <= n /\ k \in 1..y
      /\ o.ind = x + k - 1
  BY <1>1, <1>2, <1>3 DEF Floor
<1>5. st[x + k] = m[c]
  BY <1>1, <1>2 DEF Holds
<1> HIDE DEF x, y, z
<1>6. o.ind + 1 = x + k /\ x + k \in 1..n /\ n <= z
  BY <1>4
<1> QED
  BY <1>3, <1>5, <1>6 DEF z

\* close_upvalues: those below the index stay as they are, the others take their
\* values and leave the list.
LEMMA CloseFromEffect ==
  ASSUME FramesInv(frames, Len(stack), stack, mem),
         UpValuesInv(frames, mem, open_upvalues, upval, used, cell_of),
         NEW b \in Nat, CloseFrom(b)
  PROVE  /\ used' = used /\ cell_of' = cell_of /\ open_upvalues' \in Seq(used)
         /\ upval' \in [UpVals -> UpValue] /\ Sorted(open_upvalues', upval')
         /\ \A u \in used :
              /\ upval'[u].open <=> upval[u].open /\ upval[u].ind < b
              /\ upval'[u].open <=> Listed(open_upvalues', u)
              /\ ~upval[u].open \/ upval[u].ind < b => upval'[u] = upval[u]
              /\ upval[u].open /\ ~(upval[u].ind < b) => upval'[u].val = mem[cell_of[u]]
<1> DEFINE p == Position(b)
           ou == open_upvalues
           n == Len(ou)
           closing == {ou[i] : i \in (p + 1)..n}
<1>1. /\ used \subseteq UpVals /\ ou \in Seq(used) /\ upval \in [UpVals -> UpValue]
      /\ Sorted(ou, upval) /\ \A u \in used : upval[u].open <=> Listed(ou, u)
      /\ \A u \in used : Sees(frames, mem, upval[u], cell_of[u])
  BY DEF UpValuesInv
<1>2. /\ n \in Nat /\ p \in 0..n
      /\ \A i \in 1..n : ou[i] \in used /\ (i <= p <=> upval[ou[i]].ind < b)
  <2>1. /\ Position(b) \in 0..Len(open_upvalues)
        /\ \A i \in 1..Len(open_upvalues) :
             i <= Position(b) <=> upval[open_upvalues[i]].ind < b
    BY PositionSplits
  <2>2. n \in Nat /\ \A i \in 1..n : ou[i] \in used
    BY <1>1
  <2> QED
    BY <2>1, <2>2
<1>3. /\ upval' = [u \in UpVals |->
             IF u \in closing THEN [open |-> FALSE, ind |-> 0, val |-> stack[upval[u].ind + 1]]
                              ELSE upval[u]]
      /\ open_upvalues' = Truncate(ou, p) /\ used' = used /\ cell_of' = cell_of
  BY DEF CloseFrom
<1>4. /\ Truncate(ou, p) \in Seq(used) /\ Len(Truncate(ou, p)) = p
      /\ \A i \in 1..p : Truncate(ou, p)[i] = ou[i] /\ i \in 1..n
  <2> HIDE DEF ou, p
  <2>1. Truncate(ou, p) = SubSeq(ou, 1, p)
    BY <1>2 DEF Truncate, n
  <2>2. SubSeq(ou, 1, p) \in Seq(used) /\ Len(SubSeq(ou, 1, p)) = p
    BY <1>1, <1>2
  <2>3. \A i \in 1..p : SubSeq(ou, 1, p)[i] = ou[i]
    BY <1>1, <1>2
  <2>4. \A i \in 1..p : i \in 1..n
    BY <1>2
  <2> QED
    BY <2>1, <2>2, <2>3, <2>4
<1>5. ASSUME NEW u \in used PROVE u \in closing <=> upval[u].open /\ ~(upval[u].ind < b)
  <2>1. ASSUME u \in closing PROVE upval[u].open /\ ~(upval[u].ind < b)
    <3>1. PICK i \in (p + 1)..n : u = ou[i]
      BY <2>1
    <3>2. i \in 1..n /\ ~(i <= p)
      BY <1>2, <3>1
    <3> HIDE DEF ou, p, n, closing
    <3>3. upval[u].open
      BY <1>1, <3>1, <3>2 DEF Listed, n
    <3> QED
      BY <1>2, <3>1, <3>2, <3>3
  <2>2. ASSUME upval[u].open, ~(upval[u].ind < b) PROVE u \in closing
    <3>1. PICK i \in 1..n : ou[i] = u
      BY <1>1, <2>2 DEF Listed
    <3>2. ~(i <= p)
      BY <1>2, <2>2, <3>1
    <3>3. i \in (p + 1)..n
      BY <1>2, <3>2
    <3> QED
      BY <3>1, <3>3
  <2> QED
    BY <2>1, <2>2
<1>6. ASSUME NEW u \in used
      PROVE  /\ upval[u].open => stack[upval[u].ind + 1] = mem[cell_of[u]]
             /\ upval[u].open => stack[upval[u].ind + 1] \in Values
  <2>1. ASSUME upval[u].open
        PROVE  stack[upval[u].ind + 1] = mem[cell_of[u]] /\ mem[cell_of[u]] \in Values
    <3>1. Placed(frames, upval[u], cell_of[u]) /\ upval[u] \in UpValue
      BY <1>1, <2>1 DEF Sees
    <3>2. stack[upval[u].ind + 1] = mem[cell_of[u]] /\ cell_of[u] \in Cells
      BY <3>1, PlaceHolds
    <3> QED
      BY <3>2 DEF FramesInv
  <2> QED
    BY <2>1
<1>7. closing \subseteq used
  <2>1. ASSUME NEW i \in (p + 1)..n PROVE i \in 1..n
    BY <1>2
  <2> QED
    BY <1>2, <2>1
<1> HIDE DEF ou, p, n, closing
<1>8. ASSUME NEW u \in UpVals
      PROVE  /\ upval'[u] \in UpValue
             /\ u \in closing => ~upval'[u].open /\ upval'[u].val = stack[upval[u].ind + 1]
             /\ u \notin closing => upval'[u] = upval[u]
  <2>1. CASE u \in closing
    <3>1. upval'[u] = [open |-> FALSE, ind |-> 0, val |-> stack[upval[u].ind + 1]]
      BY <1>3, <2>1
    <3>2. stack[upval[u].ind + 1] \in Values
      BY <1>5, <1>6, <1>7, <2>1
    <3> QED
      BY <2>1, <3>1, <3>2 DEF UpValue
  <2>2. CASE u \notin closing
    BY <1>1, <1>3, <2>2
  <2> QED
    BY <2>1, <2>2
<1>9. upval' \in [UpVals -> UpValue]
  BY <1>3, <1>8
<1>10. ASSUME NEW i \in 1..p PROVE upval'[ou[i]] = upval[ou[i]] /\ ou[i] \in used
  BY <1>1, <1>2, <1>4, <1>5, <1>8
<1>11. Sorted(open_upvalues', upval')
  <2> SUFFICES ASSUME NEW i \in 1..p, NEW j \in 1..p, i < j
               PROVE  upval'[open_upvalues'[i]].ind < upval'[open_upvalues'[j]].ind
    BY <1>3, <1>4 DEF Sorted
  <2>1. open_upvalues'[i] = ou[i] /\ open_upvalues'[j] = ou[j] /\ i \in 1..n /\ j \in 1..n
    BY <1>3, <1>4
  <2>2. upval[ou[i]].ind < upval[ou[j]].ind
    BY <1>1, <2>1 DEF Sorted, n
  <2> QED
    BY <1>10, <2>1, <2>2
<1>12. ASSUME NEW u \in used
       PROVE  Listed(open_upvalues', u) <=> upval[u].open /\ upval[u].ind < b
  <2>1. Listed(open_upvalues', u) <=> \E i \in 1..p : ou[i] = u
    BY <1>3, <1>4 DEF Listed
  <2>2. ASSUME NEW i \in 1..p, ou[i] = u PROVE upval[u].open /\ upval[u].ind < b
    <3>1. i \in 1..n /\ i <= p
      BY <1>2, <2>2
    <3> QED
      BY <1>1, <1>2, <2>2, <3>1 DEF Listed, n
  <2>3. ASSUME upval[u].open, upval[u].ind < b PROVE \E i \in 1..p : ou[i] = u
    <3>1. PICK i \in 1..n : ou[i] = u
      BY <1>1, <2>3 DEF Listed, n
    <3>2. i <= p
      BY <1>2, <2>3, <3>1
    <3>3. i \in 1..p
      BY <1>2, <3>2
    <3> QED
      BY <3>1, <3>3
  <2> QED
    BY <2>1, <2>2, <2>3
<1>13. ASSUME NEW u \in used
       PROVE  /\ upval'[u].open <=> upval[u].open /\ upval[u].ind < b
              /\ ~upval[u].open \/ upval[u].ind < b => upval'[u] = upval[u]
              /\ upval[u].open /\ ~(upval[u].ind < b) => upval'[u].val = mem[cell_of[u]]
  BY <1>1, <1>5, <1>6, <1>8, <1>13
<1> QED
  BY <1>3, <1>4, <1>9, <1>11, <1>12, <1>13

\* gs is fs without the variables from b on.
Cut(gs, fs, b) ==
  /\ Len(gs) <= Len(fs)
  /\ \A i \in 1..Len(gs) :
       /\ gs[i].bottom = fs[i].bottom /\ gs[i].base = fs[i].base /\ gs[i].fn = fs[i].fn
       /\ \A k \in 1..Len(gs[i].locals) :
            k \in 1..Len(fs[i].locals) /\ gs[i].locals[k] = fs[i].locals[k]
  /\ \A i \in 1..Len(fs) : \A k \in 1..Len(fs[i].locals) :
       fs[i].base + k - 1 < b <=> i \in 1..Len(gs) /\ k \in 1..Len(gs[i].locals)

\* close_upvalues, and the variables it was called for are gone.
LEMMA CloseCut ==
  ASSUME FramesInv(frames, Len(stack), stack, mem),
         UpValuesInv(frames, mem, open_upvalues, upval, used, cell_of),
         NEW b \in Nat, CloseFrom(b), NEW gs \in Seq(Frame), Cut(gs, frames, b)
  PROVE  UpValuesInv(gs, mem, open_upvalues', upval', used', cell_of')
<1>1. /\ used' = used /\ cell_of' = cell_of /\ open_upvalues' \in Seq(used)
      /\ upval' \in [UpVals -> UpValue] /\ Sorted(open_upvalues', upval')
      /\ \A u \in used :
           /\ upval'[u].open <=> upval[u].open /\ upval[u].ind < b
           /\ upval'[u].open <=> Listed(open_upvalues', u)
           /\ ~upval[u].open \/ upval[u].ind < b => upval'[u] = upval[u]
           /\ upval[u].open /\ ~(upval[u].ind < b) => upval'[u].val = mem[cell_of[u]]
  BY CloseFromEffect
<1>2. /\ used \subseteq UpVals /\ cell_of \in [UpVals -> Cells]
      /\ \A u \in used : Sees(frames, mem, upval[u], cell_of[u])
      /\ \A u, v \in used : cell_of[u] = cell_of[v] => u = v
      /\ \A i \in 1..Len(frames) : Outside(frames[i], upval, used)
  BY DEF UpValuesInv
<1>3. frames \in Seq(Frame) /\ Apart(frames)
  BY DEF FramesInv
<1>4. \A i \in 1..Len(gs) : i \in 1..Len(frames)
  BY <1>3 DEF Cut
<1>5. ASSUME NEW u \in used PROVE Sees(gs, mem, upval'[u], cell_of[u])
  <2> DEFINE c == cell_of[u]
  <2>1. CASE ~upval[u].open
    <3>1. Gone(frames, c) /\ upval[u].val = mem[c] /\ upval'[u] = upval[u]
      BY <1>1, <1>2, <2>1 DEF Sees
    <3>2. Gone(gs, c)
      <4> SUFFICES ASSUME NEW i \in 1..Len(gs), NEW k \in 1..Len(gs[i].locals)
                   PROVE  gs[i].locals[k] # c
        BY DEF Gone
      <4>1. k \in 1..Len(frames[i].locals) /\ gs[i].locals[k] = frames[i].locals[k]
        BY DEF Cut
      <4>2. i \in 1..Len(frames)
        BY <1>4
      <4> QED
        BY <3>1, <4>1, <4>2 DEF Gone
    <3> QED
      BY <2>1, <3>1, <3>2 DEF Sees
  <2>2. CASE upval[u].open
    <3>0. Placed(frames, upval[u], c)
      BY <1>2, <2>2 DEF Sees
    <3>1. PICK i \in 1..Len(frames) : \E k \in 1..Len(frames[i].locals) :
            upval[u].ind = frames[i].base + k - 1 /\ c = frames[i].locals[k]
      BY <3>0 DEF Placed
    <3>2. PICK k \in 1..Len(frames[i].locals) :
            upval[u].ind = frames[i].base + k - 1 /\ c = frames[i].locals[k]
      BY <3>1
    <3>3. upval[u].ind < b <=> i \in 1..Len(gs) /\ k \in 1..Len(gs[i].locals)
      BY <3>2 DEF Cut
    <3> HIDE DEF c
    <3>4. CASE upval[u].ind < b
      <4>1. upval'[u] = upval[u] /\ i \in 1..Len(gs) /\ k \in 1..Len(gs[i].locals)
        BY <1>1, <3>3, <3>4
      <4>2. gs[i].base = frames[i].base /\ gs[i].locals[k] = frames[i].locals[k]
        BY <4>1 DEF Cut
      <4>3. Placed(gs, upval[u], c)
        BY <3>2, <4>1, <4>2 DEF Placed
      <4> QED
        BY <2>2, <4>1, <4>3 DEF Sees, c
    <3>5. CASE ~(upval[u].ind < b)
      <4>1. ~upval'[u].open /\ upval'[u].val = mem[c]
        BY <1>1, <2>2, <3>5 DEF c
      <4>2. ASSUME NEW j \in 1..Len(gs), NEW h \in 1..Len(gs[j].locals), gs[j].locals[h] = c
            PROVE  FALSE
        <5>1. /\ j \in 1..Len(frames) /\ h \in 1..Len(frames[j].locals)
              /\ frames[j].locals[h] = frames[i].locals[k]
          BY <1>4, <3>2, <4>2 DEF Cut
        <5>2. j = i /\ h = k
          BY <1>3, <5>1 DEF Apart
        <5> QED
          BY <3>3, <3>5, <5>2
      <4>3. Gone(gs, c)
        BY <4>2 DEF Gone
      <4> QED
        BY <4>1, <4>3 DEF Sees, c
    <3> QED
      BY <3>4, <3>5
  <2> QED
    BY <2>1, <2>2
<1>6. ASSUME NEW i \in 1..Len(gs) PROVE Outside(gs[i], upval', used)
  <2>1. Outside(frames[i], upval, used) /\ gs[i].fn = frames[i].fn /\ gs[i].bottom = frames[i].bottom
    BY <1>2, <1>4 DEF Cut
  <2> QED
    BY <1>1, <2>1 DEF Outside
<1> QED
  BY <1>1, <1>2, <1>5, <1>6 DEF UpValuesInv

\* The frames below the top one, as far as its bottom.
LEMMA CutPop ==
  ASSUME NEW fs, NEW n, NEW st, NEW m, FramesInv(fs, n, st, m), fs # << >>
  PROVE  Cut(Pop(fs), fs, Top(fs).bottom)
<1> DEFINE l == Len(fs)
           q == Pop(fs)
           b == fs[l].bottom
<1>1. fs \in Seq(Frame) /\ Nested(fs, n)
  BY DEF FramesInv
<1>2. /\ l \in Nat /\ l > 0 /\ Len(q) = l - 1 /\ Top(fs) = fs[l]
      /\ \A i \in 1..(l - 1) : q[i] = fs[i]
  BY <1>1, NonEmpty, PopElements DEF Top
<1> HIDE DEF q
<1>3. ASSUME NEW i \in 1..l, NEW k \in 1..Len(fs[i].locals)
      PROVE  fs[i].base + k - 1 < b <=> i \in 1..(l - 1)
  <2> DEFINE x == fs[i].base
             y == Len(fs[i].locals)
  <2>1. /\ x \in Nat /\ y \in Nat /\ b \in Nat /\ k \in 1..y
        /\ i < l => x + y <= b
        /\ i = l => b <= x
    <3>1. l \in 1..l /\ Formed(fs[i]) /\ Formed(fs[l])
      BY <1>1, <1>2 DEF Nested
    <3>2. x \in Nat /\ y \in Nat /\ b \in Nat /\ fs[l].bottom <= fs[l].base
      BY <3>1, FormedFields, FrameFields
    <3>3. i < l => x + y <= b
      BY <1>1, <3>1 DEF Nested, Floor
    <3> QED
      BY <3>2, <3>3
  <2> HIDE DEF x, y, b, l
  <2>2. x + k - 1 < b <=> i < l
    BY <1>2, <2>1
  <2>3. i < l <=> i \in 1..(l - 1)
    BY <1>2
  <2> QED
    BY <2>2, <2>3 DEF x
<1>4. /\ Len(q) <= l
      /\ \A i \in 1..Len(q) :
           /\ q[i].bottom = fs[i].bottom /\ q[i].base = fs[i].base /\ q[i].fn = fs[i].fn
           /\ \A k \in 1..Len(q[i].locals) :
                k \in 1..Len(fs[i].locals) /\ q[i].locals[k] = fs[i].locals[k]
  BY <1>2
<1>5. \A i \in 1..l : \A k \in 1..Len(fs[i].locals) :
        fs[i].base + k - 1 < b <=> i \in 1..Len(q) /\ k \in 1..Len(q[i].locals)
  BY <1>2, <1>3
<1>6. Cut(q, fs, b)
  BY <1>4, <1>5 DEF Cut
<1> QED
  BY <1>2, <1>6 DEF q

\* Frames with the same variables and functions.
LEMMA AlikeUpValues ==
  ASSUME NEW fs, NEW m, NEW ou, NEW uv, NEW us, NEW co, UpValuesInv(fs, m, ou, uv, us, co),
         NEW gs, Len(gs) = Len(fs), \A i \in 1..Len(fs) : Alike(fs[i], gs[i])
  PROVE  UpValuesInv(gs, m, ou, uv, us, co)
<1>1. /\ \A u \in us : Sees(fs, m, uv[u], co[u])
      /\ \A i \in 1..Len(fs) : Outside(fs[i], uv, us)
  BY DEF UpValuesInv
<1>2. \A i \in 1..Len(fs) : /\ gs[i].locals = fs[i].locals /\ gs[i].base = fs[i].base
                            /\ gs[i].fn = fs[i].fn /\ gs[i].bottom = fs[i].bottom
  BY DEF Alike
<1>3. ASSUME NEW u \in us PROVE Sees(gs, m, uv[u], co[u])
  <2>1. Placed(fs, uv[u], co[u]) => Placed(gs, uv[u], co[u])
    BY <1>2 DEF Placed
  <2>2. Gone(fs, co[u]) => Gone(gs, co[u])
    BY <1>2 DEF Gone
  <2> QED
    BY <1>1, <2>1, <2>2 DEF Sees
<1>4. \A i \in 1..Len(gs) : Outside(gs[i], uv, us)
  BY <1>1, <1>2 DEF Outside
<1> QED
  BY <1>3, <1>4 DEF UpValuesInv

-----------------------------------------------------------------------------
(* What the operations on the stack leave in place. *)

\* Truncate keeps the first values.
LEMMA TruncateElements ==
  ASSUME NEW S, NEW s \in Seq(S), NEW n \in Nat
  PROVE  /\ Truncate(s, n) \in Seq(S)
         /\ Len(Truncate(s, n)) = (IF n < Len(s) THEN n ELSE Len(s))
         /\ \A j \in 1..Len(Truncate(s, n)) : Truncate(s, n)[j] = s[j] /\ j \in 1..Len(s)
<1> DEFINE l == IF n < Len(s) THEN n ELSE Len(s)
<1>1. l \in 0..Len(s) /\ Len(s) \in Nat
  OBVIOUS
<1> HIDE DEF l
<1>2. /\ SubSeq(s, 1, l) \in Seq(S) /\ Len(SubSeq(s, 1, l)) = l
      /\ \A j \in 1..l : SubSeq(s, 1, l)[j] = s[j] /\ j \in 1..Len(s)
  BY <1>1
<1>3. Truncate(s, n) = SubSeq(s, 1, l)
  BY DEF Truncate, l
<1> QED
  BY <1>2, <1>3 DEF l

\* The values from an index on.
LEMMA FromElements ==
  ASSUME NEW S, NEW s \in Seq(S), NEW n \in 0..Len(s)
  PROVE  /\ From(s, n) \in Seq(S) /\ Len(From(s, n)) = Len(s) - n
         /\ \A j \in 1..(Len(s) - n) : From(s, n)[j] = s[n + j] /\ n + j \in 1..Len(s)
<1>1. Len(s) \in Nat /\ n \in Nat /\ n <= Len(s)
  OBVIOUS
<1> DEFINE q == From(s, n)
           l == Len(s) - n
<1>2. l \in Nat /\ l = Len(s) - (n + 1) + 1 /\ \A j \in 1..l : n + j \in 1..Len(s)
  BY <1>1
<1>3. q = SubSeq(s, n + 1, Len(s))
  BY DEF From
<1> HIDE DEF q, l
<1>4. Len(q) = l
  BY <1>1, <1>2, <1>3
<1>5. q \in Seq(S)
  BY <1>1, <1>2, <1>3
<1>6. \A j \in 1..l : q[j] = s[n + j]
  BY <1>1, <1>2, <1>3
<1> QED
  BY <1>2, <1>4, <1>5, <1>6 DEF q, l

\* Vec::resize keeps what fits and fills the rest with nil.
LEMMA ResizeElements ==
  ASSUME NEW s \in Seq(Values), NEW n \in Nat
  PROVE  /\ Resize(s, n) \in Seq(Values) /\ Len(Resize(s, n)) = n
         /\ \A j \in 1..n : Resize(s, n)[j] = IF j <= Len(s) THEN s[j] ELSE Nil
<1>1. ASSUME NEW j \in 1..n PROVE (IF j <= Len(s) THEN s[j] ELSE Nil) \in Values
  <2>1. CASE j <= Len(s)
    <3>1. j \in 1..Len(s)
      BY <2>1
    <3> QED
      BY <2>1, <3>1
  <2>2. CASE ~(j <= Len(s))
    BY <2>2 DEF Values
  <2> QED
    BY <2>1, <2>2
<1> DEFINE q == [i \in 1..n |-> IF i <= Len(s) THEN s[i] ELSE Nil]
<1>2. q \in [1..n -> Values]
  BY <1>1
<1>3. q \in Seq(Values) /\ Len(q) = n
  BY <1>2
<1>4. \A j \in 1..n : q[j] = IF j <= Len(s) THEN s[j] ELSE Nil
  OBVIOUS
<1> QED
  BY <1>3, <1>4 DEF Resize

\* One value is written.
LEMMA WriteElements ==
  ASSUME NEW s \in Seq(Values), NEW i \in Nat, NEW v \in Values
  PROVE  /\ Write(s, i, v) \in Seq(Values) /\ Len(Write(s, i, v)) = Len(s)
         /\ \A j \in 1..Len(s) : j # i + 1 => Write(s, i, v)[j] = s[j]
         /\ i + 1 <= Len(s) => Write(s, i, v)[i + 1] = v
<1> DEFINE q == [s EXCEPT ![i + 1] = v]
           l == Len(s)
<1>1. l \in Nat /\ \A j \in 1..l : s[j] \in Values
  OBVIOUS
<1>2. DOMAIN s = 1..l
  OBVIOUS
<1>3. \A j \in 1..l : q[j] = IF j = i + 1 THEN v ELSE s[j]
  BY <1>2
<1>4. q \in [1..l -> Values]
  BY <1>1, <1>2
<1>5. i + 1 <= l => i + 1 \in 1..l
  BY <1>1
<1> HIDE DEF q, l
<1>6. q \in Seq(Values) /\ Len(q) = l
  BY <1>1, <1>4
<1> QED
  BY <1>3, <1>5, <1>6 DEF Write, q, l

\* t is s as far as an index.
KeptBelow(t, s, dest) ==
  t \in Seq(Values) /\ Len(t) = Len(s) /\ \A j \in 1..Len(s) : j <= dest => t[j] = s[j]

\* copy_within leaves everything below its destination.
LEMMA CopyElements ==
  ASSUME NEW s \in Seq(Values), NEW from \in Nat, NEW n \in Nat, NEW dest \in Nat,
         from + n <= Len(s)
  PROVE  KeptBelow(CopyWithin(s, from, n, dest), s, dest)
<1> DEFINE l == Len(s)
           q == [i \in 1..l |-> IF i - 1 \in dest..(dest + n - 1) THEN s[i + from - dest] ELSE s[i]]
<1>1. l \in Nat /\ \A i \in 1..l : s[i] \in Values
  OBVIOUS
<1>2. ASSUME NEW i \in 1..l
      PROVE  (IF i - 1 \in dest..(dest + n - 1) THEN s[i + from - dest] ELSE s[i]) \in Values
  <2>1. CASE i - 1 \in dest..(dest + n - 1)
    <3>1. i + from - dest \in 1..l
      BY <1>1, <2>1
    <3> QED
      BY <1>1, <2>1, <3>1
  <2>2. CASE ~(i - 1 \in dest..(dest + n - 1))
    BY <1>1, <2>2
  <2> QED
    BY <2>1, <2>2
<1>3. q \in [1..l -> Values]
  BY <1>2
<1>4. ASSUME NEW j \in 1..l, j <= dest PROVE q[j] = s[j]
  <2>1. ~(j - 1 \in dest..(dest + n - 1))
    BY <1>4
  <2> QED
    BY <2>1
<1> HIDE DEF l
<1>5. q \in Seq(Values) /\ Len(q) = l
  BY <1>1, <1>3
<1> QED
  BY <1>4, <1>5 DEF CopyWithin, KeptBelow, l

\* One sequence after the other.
LEMMA ConcatElements ==
  ASSUME NEW S, NEW s \in Seq(S), NEW t \in Seq(S)
  PROVE  /\ s \o t \in Seq(S) /\ Len(s \o t) = Len(s) + Len(t)
         /\ \A j \in 1..Len(s) : (s \o t)[j] = s[j]
         /\ \A j \in 1..Len(t) : (s \o t)[Len(s) + j] = t[j]
  OBVIOUS

-----------------------------------------------------------------------------
(* New variables. *)

\* As many variables as there is room for, no two of them the same.
LEMMA NewCellsApart ==
  ASSUME NEW n \in Nat, n <= Cardinality(FreeCells)
  PROVE  /\ NewCells(n) \in Seq(Cells) /\ Len(NewCells(n)) = n
         /\ \A i \in 1..n : NewCells(n)[i] \in FreeCells
         /\ \A i, j \in 1..n : NewCells(n)[i] = NewCells(n)[j] => i = j
<1> DEFINE S == FreeCells
           N == Cardinality(S)
           P(cs) == \A i, j \in 1..n : cs[i] = cs[j] => i = j
<1>1. IsFiniteSet(S)
  BY StackAssumption, FS_Subset DEF FreeCells
<1>2. S \subseteq Cells
  BY DEF FreeCells
<1> HIDE DEF S
<1>3. N \in Nat /\ ExistsBijection(1..N, S)
  BY <1>1, FS_CardinalityType
<1>4. PICK h \in [1..N -> S] : \A a, b \in 1..N : h[a] = h[b] => a = b
  BY <1>3 DEF ExistsBijection, Bijection, Injection, IsInjective
<1>5. n <= N
  BY DEF S
<1> HIDE DEF N
<1>6. \A i \in 1..n : i \in 1..N
  BY <1>3, <1>5
<1> DEFINE g == [i \in 1..n |-> h[i]]
<1>7. g \in [1..n -> S] /\ P(g)
  BY <1>4, <1>6
<1> HIDE DEF P
<1>8. NewCells(n) = CHOOSE cs \in [1..n -> S] : P(cs)
  BY DEF NewCells, P, S
<1>9. NewCells(n) \in [1..n -> S] /\ P(NewCells(n))
  BY <1>7, <1>8
<1> DEFINE cs == NewCells(n)
<1>10. cs \in [1..n -> S] /\ P(cs)
  BY <1>9
<1> HIDE DEF cs, g
<1>11. cs \in [1..n -> Cells]
  BY <1>2, <1>10
<1>12. cs \in Seq(Cells) /\ Len(cs) = n
  BY <1>11
<1> QED
  BY <1>10, <1>12 DEF cs, P, S

\* Nothing holds or captures them.
LEMMA FreeCellsGone ==
  ASSUME FramesInv(frames, Len(stack), stack, mem), NEW c \in FreeCells
  PROVE  c \in Cells /\ Gone(frames, c) /\ \A u \in used : cell_of[u] # c
<1>1. /\ c \in Cells /\ \A u \in used : cell_of[u] # c
      /\ \A i \in Lua(frames) : \A k \in 1..Len(frames[i].locals) : frames[i].locals[k] # c
  BY DEF FreeCells
<1>2. \A i \in 1..Len(frames) : Formed(frames[i])
  BY DEF FramesInv, Nested
<1>3. Len(<< >>) = 0 /\ 1..0 = {}
  OBVIOUS
<1>4. ASSUME NEW i \in 1..Len(frames), NEW k \in 1..Len(frames[i].locals)
      PROVE  frames[i].locals[k] # c
  <2>1. CASE frames[i].kind = "Lua"
    BY <1>1, <2>1 DEF Lua
  <2>2. CASE frames[i].kind # "Lua"
    <3>1. frames[i].locals = << >>
      BY <1>2, <2>2 DEF Formed
    <3> QED
      BY <1>3, <3>1
  <2> QED
    BY <2>1, <2>2
<1> QED
  BY <1>1, <1>4 DEF Gone

-----------------------------------------------------------------------------
(* Upvalues under changes of frames and of variables. *)

\* Assignments to variables that no closed upvalue has captured.
LEMMA KeepUpValues ==
  ASSUME NEW fs, NEW m, NEW ou, NEW uv, NEW us, NEW co, UpValuesInv(fs, m, ou, uv, us, co),
         NEW m2, \A u \in us : ~uv[u].open => m2[co[u]] = m[co[u]]
  PROVE  UpValuesInv(fs, m2, ou, uv, us, co)
<1>1. \A u \in us : Sees(fs, m2, uv[u], co[u])
  BY DEF UpValuesInv, Sees
<1> QED
  BY <1>1 DEF UpValuesInv

\* Assignments to a variable that a register holds.
LEMMA StoreUpValues ==
  ASSUME NEW fs, NEW m, NEW ou, NEW uv, NEW us, NEW co, UpValuesInv(fs, m, ou, uv, us, co),
         m \in [Cells -> Values], NEW i \in 1..Len(fs), NEW k \in 1..Len(fs[i].locals), NEW v
  PROVE  UpValuesInv(fs, [m EXCEPT ![fs[i].locals[k]] = v], ou, uv, us, co)
<1> DEFINE c == fs[i].locals[k]
           m2 == [m EXCEPT ![c] = v]
<1>1. ASSUME NEW u \in us, ~uv[u].open PROVE m2[co[u]] = m[co[u]]
  <2>1. co[u] # c
    BY <1>1 DEF UpValuesInv, Sees, Gone
  <2>2. co[u] \in Cells
    BY DEF UpValuesInv
  <2> QED
    BY <2>1, <2>2
<1> HIDE DEF c, m2
<1>2. UpValuesInv(fs, m2, ou, uv, us, co)
  BY <1>1, KeepUpValues
<1> QED
  BY <1>2 DEF c, m2

\* A frame is pushed whose variables no closure has captured.
LEMMA PushUpValues ==
  ASSUME NEW fs \in Seq(Frame), NEW m, NEW ou, NEW uv, NEW us, NEW co,
         UpValuesInv(fs, m, ou, uv, us, co), NEW g \in Frame, Outside(g, uv, us),
         \A u \in us : \A k \in 1..Len(g.locals) : g.locals[k] # co[u]
  PROVE  UpValuesInv(Append(fs, g), m, ou, uv, us, co)
<1> DEFINE gs == Append(fs, g)
           l == Len(fs)
<1>1. l \in Nat /\ Len(gs) = l + 1 /\ gs[l + 1] = g /\ \A i \in 1..l : gs[i] = fs[i]
  BY PushElements
<1> HIDE DEF gs
<1>2. /\ \A u \in us : Sees(fs, m, uv[u], co[u])
      /\ \A i \in 1..l : Outside(fs[i], uv, us)
  BY DEF UpValuesInv
<1> HIDE DEF l
<1>3. /\ \A i \in 1..Len(gs) : i \in 1..l \/ i = l + 1
      /\ \A i \in 1..l : i \in 1..Len(gs)
  BY <1>1
<1>4. ASSUME NEW u \in us PROVE Sees(gs, m, uv[u], co[u])
  <2>1. Placed(fs, uv[u], co[u]) => Placed(gs, uv[u], co[u])
    <3>1. SUFFICES ASSUME Placed(fs, uv[u], co[u]) PROVE Placed(gs, uv[u], co[u])
      OBVIOUS
    <3>2. PICK i \in 1..l : \E k \in 1..Len(fs[i].locals) :
            uv[u].ind = fs[i].base + k - 1 /\ co[u] = fs[i].locals[k]
      BY <3>1 DEF Placed, l
    <3> QED
      BY <1>1, <1>3, <3>2 DEF Placed
  <2>2. Gone(fs, co[u]) => Gone(gs, co[u])
    <3>1. SUFFICES ASSUME Gone(fs, co[u]), NEW i \in 1..Len(gs), NEW k \in 1..Len(gs[i].locals)
                   PROVE  gs[i].locals[k] # co[u]
      BY DEF Gone
    <3>2. CASE i \in 1..l
      BY <1>1, <3>1, <3>2 DEF Gone, l
    <3>3. CASE i = l + 1
      BY <1>1, <3>3
    <3> QED
      BY <1>3, <3>2, <3>3
  <2> QED
    BY <1>2, <2>1, <2>2 DEF Sees
<1>5. \A i \in 1..Len(gs) : Outside(gs[i], uv, us)
  BY <1>1, <1>2, <1>3
<1>6. UpValuesInv(gs, m, ou, uv, us, co)
  BY <1>4, <1>5 DEF UpValuesInv
<1> QED
  BY <1>6 DEF gs

\* A frame without variables and without upvalues of its own is pushed.
LEMMA PushBareUpValues ==
  ASSUME NEW fs \in Seq(Frame), NEW m, NEW ou, NEW uv, NEW us, NEW co,
         UpValuesInv(fs, m, ou, uv, us, co), NEW g \in Frame, g.locals = << >>, g.fn = Cb
  PROVE  UpValuesInv(Append(fs, g), m, ou, uv, us, co)
<1>1. Len(<< >>) = 0 /\ 1..0 = {}
  OBVIOUS
<1>2. \A u \in us : \A k \in 1..Len(g.locals) : g.locals[k] # co[u]
  BY <1>1
<1>3. Cb \notin us
  BY StackAssumption DEF UpValuesInv
<1>4. Outside(g, uv, us)
  BY <1>3 DEF Outside
<1> QED
  BY <1>2, <1>4, PushUpValues

\* A frame without variables is popped.
LEMMA PopUpValues ==
  ASSUME NEW fs \in Seq(Frame), fs # << >>, NEW m, NEW ou, NEW uv, NEW us, NEW co,
         UpValuesInv(fs, m, ou, uv, us, co), Top(fs).locals = << >>
  PROVE  UpValuesInv(Pop(fs), m, ou, uv, us, co)
<1> DEFINE gs == Pop(fs)
           l == Len(fs)
<1>1. l \in Nat /\ l > 0 /\ Len(gs) = l - 1 /\ \A i \in 1..(l - 1) : gs[i] = fs[i]
  BY NonEmpty, PopElements
<1>2. Len(fs[l].locals) = 0 /\ 1..0 = {}
  BY DEF Top
<1> HIDE DEF gs
<1>3. /\ \A u \in us : Sees(fs, m, uv[u], co[u])
      /\ \A i \in 1..l : Outside(fs[i], uv, us)
  BY DEF UpValuesInv
<1> HIDE DEF l
<1>4. /\ \A i \in 1..Len(gs) : i \in 1..l /\ gs[i] = fs[i]
      /\ \A i \in 1..l : i = l \/ i \in 1..Len(gs)
  BY <1>1
<1>5. ASSUME NEW u \in us PROVE Sees(gs, m, uv[u], co[u])
  <2>1. Placed(fs, uv[u], co[u]) => Placed(gs, uv[u], co[u])
    <3>1. SUFFICES ASSUME Placed(fs, uv[u], co[u]) PROVE Placed(gs, uv[u], co[u])
      OBVIOUS
    <3>2. PICK i \in 1..l : \E k \in 1..Len(fs[i].locals) :
            uv[u].ind = fs[i].base + k - 1 /\ co[u] = fs[i].locals[k]
      BY <3>1 DEF Placed, l
    <3>3. i # l
      BY <1>2, <3>2
    <3> QED
      BY <1>4, <3>2, <3>3 DEF Placed
  <2>2. Gone(fs, co[u]) => Gone(gs, co[u])
    BY <1>4 DEF Gone, l
  <2> QED
    BY <1>3, <2>1, <2>2 DEF Sees
<1>6. \A i \in 1..Len(gs) : Outside(gs[i], uv, us)
  BY <1>3, <1>4
<1>7. UpValuesInv(gs, m, ou, uv, us, co)
  BY <1>5, <1>6 DEF UpValuesInv
<1> QED
  BY <1>7 DEF gs

\* A frame without variables on top does not count for a cut.
LEMMA CutBare ==
  ASSUME NEW fs \in Seq(Frame), fs # << >>, Top(fs).locals = << >>, NEW gs, NEW b,
         Cut(gs, Pop(fs), b), Len(gs) \in Nat
  PROVE  Cut(gs, fs, b)
<1> DEFINE q == Pop(fs)
           l == Len(fs)
           z == Len(gs)
<1>1. l \in Nat /\ l > 0 /\ Len(q) = l - 1 /\ \A i \in 1..(l - 1) : q[i] = fs[i]
  BY NonEmpty, PopElements
<1>2. Len(fs[l].locals) = 0 /\ 1..0 = {}
  BY DEF Top
<1> HIDE DEF q
<1>3. /\ z <= Len(q)
      /\ \A i \in 1..z :
           /\ gs[i].bottom = q[i].bottom /\ gs[i].base = q[i].base /\ gs[i].fn = q[i].fn
           /\ \A k \in 1..Len(gs[i].locals) :
                k \in 1..Len(q[i].locals) /\ gs[i].locals[k] = q[i].locals[k]
      /\ \A i \in 1..Len(q) : \A k \in 1..Len(q[i].locals) :
           q[i].base + k - 1 < b <=> i \in 1..z /\ k \in 1..Len(gs[i].locals)
  BY DEF Cut, q
<1> HIDE DEF l, z
<1>4. /\ z <= l /\ z \in Nat
      /\ \A i \in 1..z : q[i] = fs[i]
      /\ \A i \in 1..l : i = l \/ (i \in 1..Len(q) /\ q[i] = fs[i])
  BY <1>1, <1>3 DEF z
<1>5. ASSUME NEW i \in 1..l, NEW k \in 1..Len(fs[i].locals)
      PROVE  fs[i].base + k - 1 < b <=> i \in 1..z /\ k \in 1..Len(gs[i].locals)
  <2>1. i # l
    BY <1>2
  <2>2. i \in 1..Len(q) /\ q[i] = fs[i]
    BY <1>4, <2>1
  <2>3. k \in 1..Len(q[i].locals)
    BY <2>2
  <2>4. q[i].base + k - 1 < b <=> i \in 1..z /\ k \in 1..Len(gs[i].locals)
    BY <1>3, <2>2, <2>3
  <2> QED
    BY <2>2, <2>4
<1>6. \A i \in 1..z :
        /\ gs[i].bottom = fs[i].bottom /\ gs[i].base = fs[i].base /\ gs[i].fn = fs[i].fn
        /\ \A k \in 1..Len(gs[i].locals) :
             k \in 1..Len(fs[i].locals) /\ gs[i].locals[k] = fs[i].locals[k]
  BY <1>3, <1>4
<1> QED
  BY <1>4, <1>5, <1>6 DEF Cut, l, z

-----------------------------------------------------------------------------
(* Calls. *)

\* A frame other than a Lua frame.
LEMMA PlainFormed ==
  ASSUME NEW k \in FrameKinds \ {"Lua"}, NEW b \in Nat
  PROVE  /\ Plain(k, b) \in Frame /\ Formed(Plain(k, b))
         /\ Plain(k, b).kind = k /\ Plain(k, b).bottom = b /\ Plain(k, b).fn = Cb
         /\ Plain(k, b).locals = << >> /\ Plain(k, b).extra = << >> /\ Floor(Plain(k, b)) = b
<1> DEFINE g == Plain(k, b)
<1>1. /\ g.kind = k /\ g.bottom = b /\ g.base = b /\ g.size = 0 /\ g.is_variable = FALSE
      /\ g.expect = [tag |-> "None", n |-> 0] /\ g.fn = Cb /\ g.locals = << >> /\ g.extra = << >>
  BY DEF Plain, Expect
<1>2. << >> \in Seq(Cells) /\ << >> \in Seq(Values) /\ Len(<< >>) = 0
  OBVIOUS
<1>3. g \in Frame
  BY DEF Plain, Expect, Frame, Tags, FrameKinds
<1> HIDE DEF g
<1>4. Formed(g)
  BY <1>1, <1>2, <1>3 DEF Formed
<1>5. Floor(g) = b
  BY <1>1, <1>2 DEF Floor
<1> QED
  BY <1>1, <1>3, <1>4, <1>5 DEF g

\* What is asked of a frame that is pushed on frames that wait for it.
Pushable(fs, g, n) ==
  /\ g \in Frame
  /\ fs = << >> => g.bottom = 0
  /\ g.kind = "Result" => fs = << >>
  /\ g.kind \in {"Yielded", "WaitThread"} => n = g.bottom
  /\ g.kind = "Start" => fs = << >>
  /\ g.kind = "Start" \/ (g.kind = "Error" /\ fs = << >>) => n = 0
  /\ g.kind = "Lua" /\ ~g.is_variable => n = g.base + g.size

\* It is then on top.
LEMMA TopPushed ==
  ASSUME NEW fs \in Seq(Frame), Covered(fs), NEW g, NEW n, Pushable(fs, g, n)
  PROVE  TopInv(Append(fs, g), n)
<1> DEFINE gs == Append(fs, g)
<1>1. g \in Frame
  BY DEF Pushable
<1>2. /\ gs # << >> /\ Len(gs) = Len(fs) + 1 /\ Top(gs) = g /\ Pop(gs) = fs /\ Len(fs) \in Nat
      /\ \A i \in 1..Len(fs) : gs[i] = fs[i]
      /\ gs[Len(fs) + 1] = g
  BY <1>1, PushElements, PopPushed
<1> HIDE DEF gs
<1>3. fs = << >> <=> Len(gs) = 1
  <2>1. fs = << >> <=> Len(fs) = 0
    OBVIOUS
  <2> QED
    BY <1>2, <2>1
<1>4. gs[1].bottom = 0
  <2>1. CASE fs = << >>
    <3>1. Len(fs) + 1 = 1
      BY <1>2, <1>3, <2>1
    <3>2. gs[1] = g
      BY <1>2, <3>1
    <3> QED
      BY <2>1, <3>2 DEF Pushable
  <2>2. CASE fs # << >>
    <3>1. 1 \in 1..Len(fs)
      BY <1>2, <1>3, <2>2
    <3>2. gs[1] = fs[1]
      BY <1>2, <3>1
    <3> QED
      BY <2>2, <3>2 DEF Covered
  <2> QED
    BY <2>1, <2>2
<1>5. OnTop(gs, n)
  <2>1. g.kind = "Result" => Len(gs) = 1
    BY <1>3 DEF Pushable
  <2>2. ~(Len(gs) = 1 /\ Len(gs) > 1)
    BY <1>2
  <2> QED
    BY <1>2, <1>3, <1>4, <2>1, <2>2 DEF OnTop, Pushable
<1> QED
  BY <1>2, <1>5 DEF TopInv, gs

\* push_call rotates the extra arguments below the fixed ones.
Surplus(args, fixed) == IF Len(args) > fixed THEN Len(args) - fixed ELSE 0

\* The extra arguments come first, then the fixed ones.
LEMMA Rotated ==
  ASSUME NEW args \in Seq(Values), NEW fixed \in Nat, NEW var, var = Surplus(args, fixed)
  PROVE  /\ var \in Nat /\ var <= Len(args)
         /\ From(args, fixed) \in Seq(Values) /\ Len(From(args, fixed)) = var
         /\ RotateRight(args, var) \in Seq(Values) /\ Len(RotateRight(args, var)) = Len(args)
         /\ \A j \in 1..var : RotateRight(args, var)[j] = From(args, fixed)[j]
         /\ \A j \in 1..(Len(args) - var) : RotateRight(args, var)[var + j] = args[j]
<1> DEFINE a == Len(args)
           n == a - var
           s == From(args, n)
           t == Truncate(args, n)
<1>1. /\ a \in Nat /\ var \in Nat /\ var <= a /\ n \in 0..a /\ n \in Nat /\ a - n = var
      /\ a > fixed => n = fixed
      /\ ~(a > fixed) => var = 0 /\ n = a
  BY DEF Surplus
<1> HIDE DEF a
<1>2. s \in Seq(Values) /\ Len(s) = var
  BY <1>1, FromElements DEF a
<1>3. t \in Seq(Values) /\ Len(t) = n /\ \A j \in 1..n : t[j] = args[j]
  <2> HIDE DEF n
  <2>1. /\ t \in Seq(Values) /\ Len(t) = (IF n < Len(args) THEN n ELSE Len(args))
        /\ \A j \in 1..Len(t) : t[j] = args[j]
    BY <1>1, TruncateElements
  <2> HIDE DEF t
  <2>2. Len(t) = n
    BY <1>1, <2>1 DEF a
  <2> QED
    BY <2>1, <2>2
<1>4. /\ From(args, fixed) \in Seq(Values) /\ Len(From(args, fixed)) = var
      /\ \A j \in 1..var : s[j] = From(args, fixed)[j]
  <2>1. CASE a > fixed
    BY <1>1, <1>2, <2>1
  <2>2. CASE ~(a > fixed)
    <3>0. fixed + 1 > Len(args)
      <4>1. fixed + 1 > a
        BY ONLY <1>1, <2>2, fixed \in Nat
      <4> QED
        BY ONLY <4>1 DEF a
    <3>1. From(args, fixed) = << >>
      BY <3>0 DEF From
    <3>2. << >> \in Seq(Values) /\ Len(<< >>) = 0 /\ 1..0 = {}
      OBVIOUS
    <3> QED
      BY <1>1, <2>2, <3>1, <3>2
  <2> QED
    BY <2>1, <2>2
<1> HIDE DEF s, t
<1>5. /\ s \o t \in Seq(Values) /\ Len(s \o t) = var + n
      /\ \A j \in 1..var : (s \o t)[j] = s[j]
      /\ \A j \in 1..n : (s \o t)[var + j] = t[j]
  <2> HIDE DEF n
  <2>1. /\ s \o t \in Seq(Values) /\ Len(s \o t) = Len(s) + Len(t)
        /\ \A j \in 1..Len(s) : (s \o t)[j] = s[j]
        /\ \A j \in 1..Len(t) : (s \o t)[Len(s) + j] = t[j]
    <3>1. s \in Seq(Values) /\ t \in Seq(Values)
      BY <1>2, <1>3
    <3>2. s \o t \in Seq(Values) /\ Len(s \o t) = Len(s) + Len(t)
      BY <3>1
    <3>3. \A j \in 1..Len(s) : (s \o t)[j] = s[j]
      BY <3>1
    <3>4. \A j \in 1..Len(t) : (s \o t)[Len(s) + j] = t[j]
      BY <3>1
    <3> QED
      BY <3>2, <3>3, <3>4
  <2> QED
    BY <1>2, <1>3, <2>1
<1>6. RotateRight(args, var) = s \o t
  BY DEF RotateRight, s, t, a
<1>7. var + n = a
  BY <1>1
<1> QED
  BY <1>1, <1>3, <1>4, <1>5, <1>6, <1>7 DEF a

\* The frame that push_call pushes for a closure.
CallFrame(bottom, base, fn, cs, extra) ==
  [Plain("Lua", bottom) EXCEPT !.base = base, !.size = StackSize, !.fn = fn, !.locals = cs,
                               !.extra = extra]

IsCallFrame(g, b, base, fn, cs, extra) ==
  /\ Formed(g) /\ g \in Frame /\ g.kind = "Lua" /\ g.bottom = b /\ g.base = base
  /\ g.size = StackSize /\ g.is_variable = FALSE /\ g.fn = fn
  /\ g.locals = cs /\ g.extra = extra

\* Its parts are in place.
LEMMA CallFrameFormed ==
  ASSUME NEW b \in Nat, NEW fn \in {Cb, Main} \cup UpVals, NEW cs \in Seq(Cells),
         NEW extra \in Seq(Values), NEW base, base = b + Len(extra), Len(cs) <= StackSize
  PROVE  IsCallFrame(CallFrame(b, base, fn, cs, extra), b, base, fn, cs, extra)
<1> DEFINE g == CallFrame(b, base, fn, cs, extra)
<1>1. /\ g.kind = "Lua" /\ g.bottom = b /\ g.base = base /\ g.size = StackSize
      /\ g.is_variable = FALSE /\ g.fn = fn /\ g.locals = cs /\ g.extra = extra
      /\ g.expect = [tag |-> "None", n |-> 0]
  BY DEF CallFrame, Plain, Expect
<1>2. base \in Nat
  OBVIOUS
<1>4. g \in Frame
  BY <1>2 DEF CallFrame, Plain, Expect, Frame, FrameKinds, Tags
<1> HIDE DEF g
<1>5. Formed(g)
  BY <1>1, <1>4 DEF Formed
<1> QED
  BY <1>1, <1>4, <1>5 DEF g, IsCallFrame

\* What push_call leaves on the stack: everything below, the extra arguments, the
\* fixed ones and nil for those that are missing.
Called(st, bottom, fixed, args, extra, base, t) ==
  /\ args \in Seq(Values) /\ extra \in Seq(Values) /\ base \in Nat
  /\ base = bottom + Len(extra)
  /\ t \in Seq(Values) /\ Len(t) = base + StackSize
  /\ \A j \in 1..bottom : t[j] = st[j]
  /\ \A k \in 1..Len(extra) : t[bottom + k] = extra[k]
  /\ Resize(args, fixed) \in Seq(Values) /\ Len(Resize(args, fixed)) = fixed
  /\ \A k \in 1..fixed : t[base + k] = Resize(args, fixed)[k]

\* push_call leaves just that.
LEMMA CalledStack ==
  ASSUME NEW st \in Seq(Values), NEW bottom \in 0..Len(st), NEW fixed \in 0..StackSize,
         NEW args, args = From(st, bottom), NEW extra, extra = From(args, fixed),
         NEW var, var = Surplus(args, fixed),
         NEW base, base = bottom + var, NEW t,
         t = Resize(Truncate(st, bottom) \o RotateRight(args, var), base + StackSize)
  PROVE  Called(st, bottom, fixed, args, extra, base, t)
<1> DEFINE a == Len(args)
           q == RotateRight(args, var)
           lo == Truncate(st, bottom)
           u == lo \o q
           l == Len(st)
<1>1. args \in Seq(Values) /\ a = Len(st) - bottom /\ a \in Nat
  BY FromElements
<1>2. fixed \in Nat /\ bottom \in Nat /\ StackSize \in Nat /\ Len(st) \in Nat /\ bottom <= Len(st)
  BY StackAssumption
<1>3. /\ var \in Nat /\ var <= a /\ extra \in Seq(Values) /\ Len(extra) = var
      /\ q \in Seq(Values) /\ Len(q) = a
      /\ \A j \in 1..var : q[j] = extra[j]
      /\ \A j \in 1..(a - var) : q[var + j] = args[j]
  <2>1. /\ var \in Nat /\ var <= Len(args)
        /\ From(args, fixed) \in Seq(Values) /\ Len(From(args, fixed)) = var
        /\ RotateRight(args, var) \in Seq(Values) /\ Len(RotateRight(args, var)) = Len(args)
        /\ \A j \in 1..var : RotateRight(args, var)[j] = From(args, fixed)[j]
        /\ \A j \in 1..(Len(args) - var) : RotateRight(args, var)[var + j] = args[j]
    <3>1. args \in Seq(Values) /\ fixed \in Nat
      BY <1>1, <1>2
    <3> QED
      BY ONLY <3>1, var = Surplus(args, fixed), Rotated
  <2> QED
    BY ONLY <2>1, extra = From(args, fixed)
<1>4. lo \in Seq(Values) /\ Len(lo) = bottom /\ \A j \in 1..bottom : lo[j] = st[j]
  <2>1. /\ lo \in Seq(Values) /\ Len(lo) = (IF bottom < Len(st) THEN bottom ELSE Len(st))
        /\ \A j \in 1..Len(lo) : lo[j] = st[j]
    BY <1>2, TruncateElements
  <2> HIDE DEF lo
  <2>2. Len(lo) = bottom
    BY ONLY <1>2, <2>1
  <2> QED
    BY ONLY <2>1, <2>2
<1> HIDE DEF q, lo
<1>5. /\ u \in Seq(Values) /\ Len(u) = bottom + a
      /\ \A j \in 1..bottom : u[j] = lo[j]
      /\ \A j \in 1..a : u[bottom + j] = q[j]
  <2>0. q \in Seq(Values) /\ lo \in Seq(Values)
    BY <1>3, <1>4
  <2>1. u \in Seq(Values) /\ Len(u) = Len(lo) + Len(q)
    BY ONLY <2>0
  <2>2. \A j \in 1..Len(lo) : u[j] = lo[j]
    BY ONLY <2>0
  <2>3. \A j \in 1..Len(q) : u[Len(lo) + j] = q[j]
    BY ONLY <2>0
  <2> QED
    BY <1>3, <1>4, <2>1, <2>2, <2>3
<1> HIDE DEF u
<1>6. base \in Nat /\ base + StackSize \in Nat /\ base = bottom + var /\ bottom + var <= bottom + a
  <2>1. var \in Nat /\ var <= a
    BY <1>3
  <2> QED
    BY ONLY <1>1, <1>2, <2>1, base = bottom + var
<1>7. t = Resize(u, base + StackSize)
  BY DEF u, lo, q
<1>8. /\ t \in Seq(Values) /\ Len(t) = base + StackSize
      /\ \A j \in 1..(base + StackSize) : t[j] = IF j <= bottom + a THEN u[j] ELSE Nil
  <2>1. /\ Resize(u, base + StackSize) \in Seq(Values) /\ Len(Resize(u, base + StackSize)) = base + StackSize
        /\ \A j \in 1..(base + StackSize) :
             Resize(u, base + StackSize)[j] = IF j <= Len(u) THEN u[j] ELSE Nil
    BY <1>5, <1>6, ResizeElements
  <2> QED
    BY <1>5, <1>7, <2>1
<1>9. /\ Resize(args, fixed) \in Seq(Values) /\ Len(Resize(args, fixed)) = fixed
      /\ \A k \in 1..fixed : Resize(args, fixed)[k] = IF k <= a THEN args[k] ELSE Nil
  BY <1>1, <1>2, ResizeElements
<1>16. (var = 0 \/ a - var = fixed) /\ base = bottom + var /\ var \in Nat /\ var <= a
  BY <1>3 DEF Surplus
<1> HIDE DEF a
<1>10. ASSUME NEW j, j \in 1..bottom PROVE t[j] = st[j]
  <2>1. j \in 1..(base + StackSize) /\ j <= bottom + a
    <3>1. base = bottom + var /\ var \in Nat /\ var <= a /\ a \in Nat
      BY <1>1, <1>3
    <3> QED
      BY ONLY <1>2, <1>10, <3>1
  <2>2. t[j] = u[j]
    BY ONLY <1>8, <2>1
  <2>3. u[j] = lo[j] /\ lo[j] = st[j]
    BY ONLY <1>4, <1>5, <1>10
  <2> QED
    BY <2>2, <2>3
<1>11. ASSUME NEW k, k \in 1..var PROVE t[bottom + k] = extra[k]
  <2>1. bottom + k \in 1..(base + StackSize) /\ bottom + k <= bottom + a /\ k \in 1..a
    <3>1. base = bottom + var /\ var \in Nat /\ var <= a /\ a \in Nat
      BY <1>1, <1>3
    <3> QED
      BY ONLY <1>2, <1>11, <3>1
  <2>2. t[bottom + k] = u[bottom + k]
    BY ONLY <1>8, <2>1
  <2>3. u[bottom + k] = q[k] /\ q[k] = extra[k]
    BY ONLY <1>3, <1>5, <1>11, <2>1
  <2> QED
    BY <2>2, <2>3
<1>12. ASSUME NEW k, k \in 1..fixed PROVE t[base + k] = IF k <= a THEN args[k] ELSE Nil
  <2>0. fixed <= StackSize /\ a \in Nat
    BY <1>1
  <2>1. base + k \in 1..(base + StackSize) /\ base + k = bottom + (var + k)
    BY ONLY <1>2, <1>12, <1>16, <2>0
  <2>2. k \in Nat /\ k <= fixed /\ k >= 1
    BY ONLY <1>2, <1>12
  <2>3. CASE k <= a
    <3>1. var + k \in 1..a /\ k \in 1..(a - var) /\ base + k <= bottom + a
      BY ONLY <1>2, <1>16, <2>0, <2>2, <2>3
    <3>2. t[base + k] = u[base + k]
      BY <1>8, <2>1, <3>1
    <3>3. u[bottom + (var + k)] = q[var + k]
      BY <1>5, <3>1
    <3>4. q[var + k] = args[k]
      BY <1>3, <3>1
    <3> QED
      BY <2>1, <2>3, <3>2, <3>3, <3>4
  <2>4. CASE ~(k <= a)
    <3>1. ~(base + k <= bottom + a)
      BY ONLY <1>2, <1>16, <2>0, <2>2, <2>4
    <3> QED
      BY <1>8, <2>1, <2>4, <3>1
  <2> QED
    BY <2>3, <2>4
<1>13. \A k \in 1..fixed : t[base + k] = Resize(args, fixed)[k]
  BY <1>9, <1>12
<1>14. base = bottom + Len(extra)
  BY <1>3
<1>15. \A k \in 1..Len(extra) : t[bottom + k] = extra[k]
  BY <1>3, <1>11
<1> QED
  BY ONLY <1>1, <1>3, <1>6, <1>8, <1>9, <1>10, <1>13, <1>14, <1>15 DEF Called

\* Nothing that is free is in a register.
Occupied(fs) == \A c \in FreeCells : Gone(fs, c)

\* What a call or a return finds: frames that wait, variables in place below its
\* arguments, upvalues for these frames.
Waiting(fs, bottom, st) ==
  /\ FramesInv(fs, bottom, st, mem)
  /\ UpValuesInv(fs, mem, open_upvalues', upval', used', cell_of')
  /\ used' = used /\ cell_of' = cell_of
  /\ Covered(fs)
  /\ fs = << >> => bottom = 0
  /\ Occupied(fs)

\* Every open upvalue lies below what a call is given.
LEMMA OutsideCall ==
  ASSUME NEW fs, NEW st, NEW bottom, Waiting(fs, bottom, st), NEW g,
         g.fn \in Functions, bottom <= g.bottom, g.bottom \in Nat
  PROVE  Outside(g, upval', used')
<1>1. /\ used' = used /\ upval' \in [UpVals -> UpValue] /\ used' \subseteq UpVals
      /\ \A u \in used' : Sees(fs, mem, upval'[u], cell_of'[u])
  BY DEF Waiting, UpValuesInv
<1>2. g.fn \in {Cb, Main} \cup used'
  BY <1>1 DEF Functions
<1>3. ASSUME g.fn \in used', upval'[g.fn].open PROVE upval'[g.fn].ind < g.bottom
  <2> DEFINE o == upval'[g.fn]
  <2>1. o \in UpValue /\ Placed(fs, o, cell_of'[g.fn]) /\ o.ind \in Nat
    BY <1>1, <1>3 DEF Sees, UpValue
  <2> HIDE DEF o
  <2>2. o.ind + 1 \in 1..bottom /\ bottom \in Nat
    BY <2>1, PlaceHolds DEF Waiting, FramesInv
  <2>3. o.ind < g.bottom
    BY <2>1, <2>2
  <2> QED
    BY <2>3 DEF o
<1> QED
  BY <1>2, <1>3 DEF Outside

\* push_call.
LEMMA PushCallInv ==
  ASSUME NEW fs, NEW st, NEW bottom, Waiting(fs, bottom, st), NEW fn \in Functions,
         NEW fixed \in FixedParams, fixed <= Cardinality(FreeCells),
         PushCall(fs, st, bottom, fn, fixed)
  PROVE  StackInv'
<1>1. /\ fs \in Seq(Frame) /\ st \in Seq(Values) /\ bottom \in 0..Len(st) /\ mem \in [Cells -> Values]
      /\ FramesInv(fs, bottom, st, mem) /\ bottom \in Nat /\ bottom <= Len(st)
      /\ UpValuesInv(fs, mem, open_upvalues', upval', used', cell_of')
      /\ used' = used /\ cell_of' = cell_of /\ used \subseteq UpVals
      /\ Covered(fs) /\ (fs = << >> => bottom = 0) /\ Occupied(fs)
  BY DEF Waiting, FramesInv, UpValuesInv
<1>2. fixed \in 0..StackSize /\ fixed \in Nat
  BY StackAssumption
<1>3. CASE fn = Cb
  <2> DEFINE g == Plain("Callback", bottom)
  <2>1. frames' = Append(fs, g) /\ stack' = st /\ mem' = mem
    BY <1>3 DEF PushCall
  <2>2. /\ Formed(g) /\ g \in Frame /\ g.kind = "Callback" /\ g.bottom = bottom /\ g.fn = Cb
        /\ g.locals = << >> /\ g.extra = << >>
    BY <1>1, PlainFormed DEF FrameKinds
  <2> HIDE DEF g
  <2>3. FramesInv(Append(fs, g), Len(st), st, mem)
    BY <1>1, <2>2, PushBare
  <2>4. UpValuesInv(Append(fs, g), mem, open_upvalues', upval', used', cell_of')
    BY <1>1, <2>2, PushBareUpValues
  <2>5. Pushable(fs, g, Len(st))
    BY <1>1, <2>2 DEF Pushable
  <2>6. TopInv(Append(fs, g), Len(st))
    BY <1>1, <2>5, TopPushed
  <2> QED
    BY <2>1, <2>3, <2>4, <2>6 DEF StackInv
<1>4. CASE fn # Cb
  <2> DEFINE args == From(st, bottom)
             var == Surplus(args, fixed)
             base == bottom + var
             cs == NewCells(fixed)
             extra == From(args, fixed)
             r == Resize(args, fixed)
             t == Resize(Truncate(st, bottom) \o RotateRight(args, var), base + StackSize)
             m2 == [c \in Cells |->
                      IF \E i \in 1..fixed : cs[i] = c
                      THEN r[CHOOSE i \in 1..fixed : cs[i] = c] ELSE mem[c]]
             g == CallFrame(bottom, base, fn, cs, extra)
             gs == Append(fs, g)
  <2>1. frames' = gs /\ stack' = t /\ mem' = m2
    BY <1>4 DEF PushCall, CallFrame, Surplus
  <2> HIDE DEF args, m2
  <2>2. /\ args \in Seq(Values) /\ extra \in Seq(Values) /\ base \in Nat
        /\ base = bottom + Len(extra)
        /\ t \in Seq(Values) /\ Len(t) = base + StackSize
        /\ \A j \in 1..bottom : t[j] = st[j]
        /\ \A k \in 1..Len(extra) : t[bottom + k] = extra[k]
        /\ r \in Seq(Values) /\ Len(r) = fixed
        /\ \A k \in 1..fixed : t[base + k] = r[k]
    <3>1. st \in Seq(Values) /\ bottom \in 0..Len(st) /\ fixed \in 0..StackSize
      BY <1>1, <1>2
    <3>2. /\ args = From(st, bottom) /\ extra = From(args, fixed)
          /\ var = Surplus(args, fixed) /\ base = bottom + var /\ r = Resize(args, fixed)
          /\ t = Resize(Truncate(st, bottom) \o RotateRight(args, var), base + StackSize)
      BY DEF args
    <3> HIDE DEF var, base, extra, r, t
    <3>3. Called(st, bottom, fixed, args, extra, base, t)
      BY ONLY <3>1, <3>2, CalledStack
    <3> QED
      BY ONLY <3>2, <3>3 DEF Called
  <2>3. /\ cs \in Seq(Cells) /\ Len(cs) = fixed
        /\ \A i \in 1..fixed : cs[i] \in FreeCells
        /\ \A i, j \in 1..fixed : cs[i] = cs[j] => i = j
    BY <1>2, NewCellsApart
  <2> HIDE DEF var, base, cs, extra, r, t, g, gs
  <2>4. fn \in {Cb, Main} \cup UpVals /\ fn \in {Cb, Main} \cup used
    BY <1>1 DEF Functions
  <2>5. /\ Formed(g) /\ g \in Frame /\ g.kind = "Lua" /\ g.bottom = bottom /\ g.base = base
        /\ g.size = StackSize /\ g.is_variable = FALSE /\ g.fn = fn
        /\ g.locals = cs /\ g.extra = extra
    <3>1. Len(cs) <= StackSize
      BY <1>2, <2>3
    <3>2. /\ bottom \in Nat /\ fn \in {Cb, Main} \cup UpVals /\ cs \in Seq(Cells)
          /\ extra \in Seq(Values) /\ base = bottom + Len(extra)
      BY ONLY <1>1, <2>2, <2>3, <2>4
    <3>3. IsCallFrame(g, bottom, base, fn, cs, extra)
      BY ONLY <3>1, <3>2, CallFrameFormed DEF g
    <3> QED
      BY ONLY <3>3 DEF IsCallFrame
  <2>6. /\ m2 \in [Cells -> Values]
        /\ \A k \in 1..fixed : m2[cs[k]] = r[k]
        /\ \A c \in Cells : c \notin FreeCells => m2[c] = mem[c]
    <3>1. ASSUME NEW k \in 1..fixed PROVE m2[cs[k]] = r[k] /\ r[k] \in Values
      <4>1. cs[k] \in Cells
        BY <2>3
      <4>2. \E i \in 1..fixed : cs[i] = cs[k]
        OBVIOUS
      <4>3. (CHOOSE i \in 1..fixed : cs[i] = cs[k]) = k
        BY <2>3, <4>2
      <4>4. m2[cs[k]] = r[k]
        BY <4>1, <4>2, <4>3 DEF m2
      <4> QED
        BY <2>2, <4>4
    <3>2. ASSUME NEW c \in Cells, ~ \E i \in 1..fixed : cs[i] = c PROVE m2[c] = mem[c]
      BY <3>2 DEF m2
    <3>3. ASSUME NEW c \in Cells PROVE m2[c] \in Values
      <4>1. CASE \E i \in 1..fixed : cs[i] = c
        BY <3>1, <4>1
      <4>2. CASE ~ \E i \in 1..fixed : cs[i] = c
        BY <1>1, <3>2, <4>2
      <4> QED
        BY <4>1, <4>2
    <3>4. m2 \in [Cells -> Values]
      BY <3>3 DEF m2
    <3> QED
      BY <2>3, <3>1, <3>2, <3>4
  <2>7. FramesInv(fs, bottom, t, mem)
    <3>1. bottom \in bottom..Len(t)
      <4>1. Len(extra) \in Nat /\ StackSize \in Nat /\ bottom \in Nat
        BY <1>1, <2>2, StackAssumption
      <4> QED
        BY ONLY <2>2, <4>1
    <3> QED
      BY <1>1, <2>2, <3>1, SameBelow
  <2>8. Keeps(fs, mem, m2)
    <3>1. \A i \in 1..Len(fs) : \A k \in 1..Len(fs[i].locals) : fs[i].locals[k] \in Cells
      BY <1>1, FrameFields
    <3>2. \A i \in 1..Len(fs) : \A k \in 1..Len(fs[i].locals) : fs[i].locals[k] \notin FreeCells
      BY <1>1 DEF Occupied, Gone
    <3> QED
      BY <2>6, <3>1, <3>2 DEF Keeps
  <2>9. Fresh(fs, g)
    BY <1>1, <2>3, <2>5 DEF Fresh, Occupied
  <2>10. Holds(g, t, m2)
    BY <2>2, <2>3, <2>5, <2>6 DEF Holds
  <2>11. Len(t) \in Floor(g)..Len(t)
    <3>1. Floor(g) = base + fixed
      BY <2>3, <2>5 DEF Floor
    <3>2. fixed <= StackSize /\ StackSize \in Nat
      BY <1>2, StackAssumption
    <3>3. base \in Nat /\ Len(t) = base + StackSize
      BY <2>2
    <3> QED
      BY ONLY <1>2, <3>1, <3>2, <3>3
  <2>12. FramesInv(gs, Len(t), t, m2)
    <3>1. bottom <= g.bottom
      BY <1>1, <2>5
    <3> QED
      BY <2>5, <2>6, <2>7, <2>8, <2>9, <2>10, <2>11, <3>1, PushFrame DEF gs
  <2>13. UpValuesInv(fs, m2, open_upvalues', upval', used', cell_of')
    <3>1. ASSUME NEW u \in used' PROVE m2[cell_of'[u]] = mem[cell_of'[u]]
      <4>1. cell_of'[u] \in Cells
        BY <1>1 DEF UpValuesInv
      <4>2. cell_of'[u] \notin FreeCells
        BY <1>1 DEF FreeCells
      <4> QED
        BY <2>6, <4>1, <4>2
    <3> QED
      BY <1>1, <3>1, KeepUpValues
  <2>14. UpValuesInv(gs, m2, open_upvalues', upval', used', cell_of')
    <3>1. Outside(g, upval', used')
      BY <1>1, <2>5, OutsideCall
    <3>2. \A u \in used' : \A k \in 1..Len(g.locals) : g.locals[k] # cell_of'[u]
      BY <1>1, <2>3, <2>5 DEF FreeCells
    <3> QED
      BY <1>1, <2>5, <2>13, <3>1, <3>2, PushUpValues DEF gs
  <2>15. TopInv(gs, Len(t))
    <3>1. Pushable(fs, g, Len(t))
      BY <1>1, <2>2, <2>5 DEF Pushable
    <3> QED
      BY <1>1, <3>1, TopPushed DEF gs
  <2> QED
    BY <2>1, <2>12, <2>14, <2>15 DEF StackInv
<1> QED
  BY <1>3, <1>4

-----------------------------------------------------------------------------
(* Returns. *)

\* The stack changes above the variables of the top frame, and that frame in what
\* it expects.
LEMMA AlikeBelow ==
  ASSUME NEW fs, NEW n, NEW st, NEW m, FramesInv(fs, n, st, m), fs # << >>,
         NEW h, Formed(h), Alike(Top(fs), h), NEW t \in Seq(Values),
         NEW p \in Floor(Top(fs))..Len(t), \A j \in 1..Floor(Top(fs)) : t[j] = st[j]
  PROVE  FramesInv(SetTop(fs, h), p, t, m)
<1> DEFINE fl == Floor(Top(fs))
<1>1. fs \in Seq(Frame) /\ n \in 0..Len(st) /\ Len(st) \in Nat /\ Nested(fs, n)
  BY DEF FramesInv
<1>2. Len(fs) \in 1..Len(fs) /\ Top(fs) \in Frame
  BY <1>1, NonEmpty
<1>3. fl \in Nat /\ fl <= n
  BY <1>1, <1>2, FrameFields DEF Nested, Top
<1> HIDE DEF fl
<1>4. fl \in fl..Len(st)
  BY <1>1, <1>3
<1>5. FramesInv(fs, fl, st, m)
  BY <1>4, LowerTop DEF fl
<1>6. FramesInv(SetTop(fs, h), fl, st, m)
  BY <1>5, AlikeTop
<1>7. p \in fl..Len(t) /\ \A j \in 1..fl : t[j] = st[j]
  BY DEF fl
<1> QED
  BY <1>6, <1>7, SameBelow

\* A frame on top that only differs in what it expects and evaluates sees the same
\* upvalues.
LEMMA AlikeTopUpValues ==
  ASSUME NEW fs \in Seq(Frame), fs # << >>, NEW m, NEW ou, NEW uv, NEW us, NEW co,
         UpValuesInv(fs, m, ou, uv, us, co), NEW h \in Frame, Alike(Top(fs), h)
  PROVE  UpValuesInv(SetTop(fs, h), m, ou, uv, us, co)
<1> DEFINE gs == SetTop(fs, h)
           l == Len(fs)
<1>1. /\ Len(gs) = l /\ gs[l] = h /\ Top(fs) = fs[l] /\ l \in Nat
      /\ \A i \in 1..(l - 1) : gs[i] = fs[i]
  BY SetTopElements DEF Top
<1> HIDE DEF gs, l
<1>2. ASSUME NEW i \in 1..l PROVE Alike(fs[i], gs[i])
  <2>1. CASE i = l
    BY <1>1, <2>1
  <2>2. CASE i # l
    <3>1. i \in 1..(l - 1)
      BY <1>1, <2>2
    <3> QED
      BY <1>1, <3>1 DEF Alike
  <2> QED
    BY <2>1, <2>2
<1>3. UpValuesInv(gs, m, ou, uv, us, co)
  BY <1>1, <1>2, AlikeUpValues DEF l
<1> QED
  BY <1>3 DEF gs

\* Frames that wait, without the top one.
LEMMA CoveredPop ==
  ASSUME NEW fs \in Seq(Frame), fs # << >>, Covered(fs)
  PROVE  Covered(Pop(fs)) /\ fs[1].bottom = 0 /\ Top(fs).kind \in {"Lua", "Sequence"}
<1> DEFINE q == Pop(fs)
           l == Len(fs)
<1>1. /\ l \in Nat /\ l > 0 /\ q \in Seq(Frame) /\ Len(q) = l - 1 /\ Top(fs) = fs[l]
      /\ \A i \in 1..(l - 1) : q[i] = fs[i]
  BY NonEmpty, PopElements DEF Top
<1>2. /\ \A i \in 1..l : fs[i].kind \in {"Lua", "Sequence"}
      /\ fs[1].bottom = 0
  BY DEF Covered
<1> HIDE DEF q, l
<1>3. \A i \in 1..Len(q) : q[i].kind \in {"Lua", "Sequence"}
  BY <1>1, <1>2
<1>4. q # << >> => q[1].bottom = 0
  <2>1. ASSUME q # << >> PROVE 1 \in 1..(l - 1)
    BY <1>1, <2>1, NonEmpty
  <2> QED
    BY <1>1, <1>2, <2>1
<1>5. l \in 1..l
  BY <1>1
<1> QED
  BY <1>1, <1>2, <1>3, <1>4, <1>5 DEF Covered, q

\* The Lua frame on top is replaced by itself with other variables or flags.
LEMMA TopReplaced ==
  ASSUME NEW fs \in Seq(Frame), fs # << >>, fs[1].bottom = 0, Covered(Pop(fs)),
         NEW h \in Frame, h.kind = "Lua", h.bottom = Top(fs).bottom,
         NEW n, ~h.is_variable => n = h.base + h.size
  PROVE  TopInv(SetTop(fs, h), n)
<1>1. /\ SetTop(fs, h) = Append(Pop(fs), h) /\ Pop(fs) \in Seq(Frame)
      /\ Len(fs) \in Nat /\ Len(fs) > 0 /\ Len(Pop(fs)) = Len(fs) - 1
  BY NonEmpty, PopElements DEF SetTop
<1>2. Pop(fs) = << >> => h.bottom = 0
  <2>1. ASSUME Pop(fs) = << >> PROVE Len(fs) = 1
    <3>1. Len(Pop(fs)) = 0
      BY <2>1
    <3> QED
      BY <1>1, <3>1
  <2> QED
    BY <2>1 DEF Top
<1>3. Pushable(Pop(fs), h, n)
  BY <1>2 DEF Pushable
<1> QED
  BY <1>1, <1>3, TopPushed

\* A frame's window, restored after what is above its variables was cut off.
LEMMA WindowKeeps ==
  ASSUME NEW st \in Seq(Values), NEW g, Formed(g), Floor(g) <= Len(st),
         NEW p \in Nat, Floor(g) <= p
  PROVE  LET t == Window(Truncate(st, p), g) IN
         /\ t \in Seq(Values) /\ Len(t) = g.base + g.size /\ Len(t) \in Floor(g)..Len(t)
         /\ \A j \in 1..Floor(g) : t[j] = st[j]
<1> DEFINE q == Truncate(st, p)
           fl == Floor(g)
           w == g.base + g.size
           l == Len(st)
<1>1. g \in Frame /\ g.base \in Nat /\ g.size \in Nat /\ fl \in Nat /\ fl <= w
  <2>1. g \in Frame /\ Len(g.locals) <= g.size
    BY DEF Formed
  <2>2. g.base \in Nat /\ g.size \in Nat /\ Len(g.locals) \in Nat
    BY <2>1, FrameFields
  <2> QED
    BY <2>1, <2>2 DEF Floor
<1>2. w \in Nat /\ l \in Nat /\ fl <= l /\ fl <= p
  BY <1>1
<1>3. /\ q \in Seq(Values) /\ Len(q) = (IF p < l THEN p ELSE l)
      /\ \A j \in 1..Len(q) : q[j] = st[j]
  BY TruncateElements
<1> HIDE DEF q, fl, w, l
<1>4. fl <= Len(q)
  BY <1>1, <1>2, <1>3
<1>5. /\ Resize(q, w) \in Seq(Values) /\ Len(Resize(q, w)) = w
      /\ \A j \in 1..w : Resize(q, w)[j] = IF j <= Len(q) THEN q[j] ELSE Nil
  BY <1>2, <1>3, ResizeElements
<1>6. Window(Truncate(st, p), g) = Resize(q, w)
  BY DEF Window, q, w
<1>7. ASSUME NEW j \in 1..fl PROVE Resize(q, w)[j] = st[j]
  <2>1. Len(q) \in Nat
    BY <1>3
  <2>2. j \in 1..w /\ j <= Len(q) /\ j \in 1..Len(q)
    BY <1>1, <1>2, <1>4, <2>1
  <2> QED
    BY <1>3, <1>5, <2>2
<1>8. w \in fl..w
  BY <1>1, <1>2
<1> QED
  BY <1>5, <1>6, <1>7, <1>8 DEF w, fl

\* What return_to leaves of the frame it returns to.
Done(g, var) == [g EXCEPT !.expect = Expect("None", 0), !.is_variable = var]
IsDone(g, h, var) ==
  /\ Formed(h) /\ h \in Frame /\ Alike(g, h) /\ h.kind = "Lua" /\ h.bottom = g.bottom
  /\ h.base = g.base /\ h.size = g.size /\ h.is_variable = var /\ h.locals = g.locals

\* It has the same variables as before.
LEMMA DoneFormed ==
  ASSUME NEW g, Formed(g), g.kind = "Lua", NEW var \in BOOLEAN
  PROVE  IsDone(g, Done(g, var), var)
<1> DEFINE h == [g EXCEPT !.expect = Expect("None", 0), !.is_variable = var]
<1>1. g \in Frame
  BY DEF Formed
<1>2. /\ h.kind = g.kind /\ h.bottom = g.bottom /\ h.base = g.base /\ h.fn = g.fn
      /\ h.locals = g.locals /\ h.extra = g.extra /\ h.size = g.size /\ h.is_variable = var
      /\ h.expect = [tag |-> "None", n |-> 0]
  BY <1>1 DEF Frame, Expect
<1>3. h \in Frame
  BY <1>1 DEF Frame, Expect, Tags
<1> HIDE DEF h
<1>4. Formed(h)
  BY <1>2, <1>3 DEF Formed
<1> QED
  BY <1>2, <1>3, <1>4 DEF IsDone, Alike, Done, h

\* The stack and the frame on top, when nothing is assigned.
LEMMA ReturnedInv ==
  ASSUME NEW fs, NEW st, NEW bottom, Waiting(fs, bottom, st), fs # << >>, NEW h,
         Formed(h), h.kind = "Lua", Alike(Top(fs), h), NEW t \in Seq(Values),
         Floor(Top(fs)) <= Len(t), \A j \in 1..Floor(Top(fs)) : t[j] = st[j],
         ~h.is_variable => Len(t) = h.base + h.size,
         frames' = SetTop(fs, h), stack' = t, mem' = mem
  PROVE  StackInv'
<1>1. /\ fs \in Seq(Frame) /\ FramesInv(fs, bottom, st, mem) /\ Covered(fs)
      /\ UpValuesInv(fs, mem, open_upvalues', upval', used', cell_of')
      /\ h \in Frame /\ h.bottom = Top(fs).bottom /\ Top(fs) \in Frame
  BY NonEmpty DEF Waiting, FramesInv, Formed, Alike
<1>2. Len(t) \in Floor(Top(fs))..Len(t)
  BY <1>1, FrameFields
<1>3. FramesInv(SetTop(fs, h), Len(t), t, mem)
  BY <1>1, <1>2, AlikeBelow
<1>4. UpValuesInv(SetTop(fs, h), mem, open_upvalues', upval', used', cell_of')
  BY <1>1, AlikeTopUpValues
<1>5. TopInv(SetTop(fs, h), Len(t))
  BY <1>1, CoveredPop, TopReplaced
<1> QED
  BY <1>3, <1>4, <1>5 DEF StackInv

\* return_to.
LEMMA ReturnToInv ==
  ASSUME NEW fs, NEW st, NEW bottom, Waiting(fs, bottom, st), ReturnTo(fs, st, bottom)
  PROVE  StackInv'
<1>1. /\ fs \in Seq(Frame) /\ st \in Seq(Values) /\ bottom \in 0..Len(st) /\ mem \in [Cells -> Values]
      /\ FramesInv(fs, bottom, st, mem) /\ bottom \in Nat /\ bottom <= Len(st) /\ Len(st) \in Nat
      /\ UpValuesInv(fs, mem, open_upvalues', upval', used', cell_of')
      /\ Covered(fs) /\ (fs = << >> => bottom = 0) /\ Nested(fs, bottom)
  BY DEF Waiting, FramesInv
<1>2. CASE fs = << >>
  <2> DEFINE g == Plain("Result", bottom)
  <2>1. frames' = << g >> /\ stack' = st /\ mem' = mem
    BY <1>2 DEF ReturnTo
  <2>2. /\ Formed(g) /\ g \in Frame /\ g.kind = "Result" /\ g.bottom = bottom /\ g.fn = Cb
        /\ g.locals = << >> /\ g.extra = << >>
    BY <1>1, PlainFormed DEF FrameKinds
  <2> HIDE DEF g
  <2>3. << g >> = Append(fs, g)
    BY <1>2
  <2>4. FramesInv(Append(fs, g), Len(st), st, mem)
    BY <1>1, <2>2, PushBare
  <2>5. UpValuesInv(Append(fs, g), mem, open_upvalues', upval', used', cell_of')
    BY <1>1, <2>2, PushBareUpValues
  <2>6. Pushable(fs, g, Len(st))
    BY <1>1, <1>2, <2>2 DEF Pushable
  <2>7. TopInv(Append(fs, g), Len(st))
    BY <1>1, <2>6, TopPushed
  <2> QED
    BY <2>1, <2>3, <2>4, <2>5, <2>7 DEF StackInv
<1>3. ASSUME fs # << >>, Top(fs).kind = "Sequence", frames' = fs, stack' = st, mem' = mem
      PROVE  StackInv'
  <2>1. Len(st) \in bottom..Len(st)
    BY <1>1
  <2>2. FramesInv(fs, Len(st), st, mem)
    BY <1>1, <2>1, SameBelow
  <2>3. Covered(Pop(fs)) /\ fs[1].bottom = 0
    BY <1>1, <1>3, CoveredPop
  <2>4. TopInv(fs, Len(st))
    BY <1>3, <2>3 DEF TopInv, OnTop
  <2> QED
    BY <1>1, <1>3, <2>2, <2>4 DEF StackInv
<1>4. CASE fs # << >> /\ Top(fs).kind = "Lua"
  <2> DEFINE g == Top(fs)
             n == g.expect.n
             val == IF Len(st) > bottom THEN st[bottom + 1] ELSE Nil
             full == Window(Truncate(st, bottom), g)
             h(var) == Done(g, var)
  <2>1. Formed(g) /\ g \in Frame /\ Floor(g) \in Nat /\ Floor(g) <= bottom /\ g.kind = "Lua"
    <3>1. Len(fs) \in 1..Len(fs)
      BY <1>1, <1>4, NonEmpty
    <3> QED
      BY <1>1, <1>4, <3>1, FrameFields DEF Nested, Formed, Top
  <2>2. Floor(g) <= Len(st)
    <3> DEFINE x == Floor(g)
               y == Len(st)
    <3>1. x \in Nat /\ y \in Nat /\ x <= bottom /\ bottom <= y
      BY <1>1, <2>1
    <3> HIDE DEF x, y
    <3>2. x <= y
      BY <1>1, <3>1
    <3> QED
      BY <3>2 DEF x, y
  <2>3. n \in Nat \cup {Variable} /\ (g.expect.tag = "MetaRegister" => n \in Nat)
    BY <2>1 DEF Formed, Frame
  <2>4. ASSUME NEW var \in BOOLEAN
        PROVE  /\ Formed(h(var)) /\ h(var) \in Frame /\ Alike(g, h(var)) /\ h(var).kind = "Lua"
               /\ h(var).base = g.base /\ h(var).size = g.size /\ h(var).is_variable = var
               /\ h(var).locals = g.locals /\ h(var).bottom = g.bottom
    <3>1. IsDone(g, h(var), var)
      BY <2>1, DoneFormed
    <3> HIDE DEF h
    <3> QED
      BY <3>1, <2>1 DEF IsDone
  <2>5. ASSUME NEW p \in Nat, bottom <= p
        PROVE  LET t == Window(Truncate(st, p), g) IN
               /\ t \in Seq(Values) /\ Len(t) = g.base + g.size /\ Floor(g) <= Len(t)
               /\ \A j \in 1..Floor(g) : t[j] = st[j]
    <3>1. Floor(g) <= p
      <4> DEFINE x == Floor(g)
      <4>1. x \in Nat /\ x <= bottom
        BY <2>1
      <4> HIDE DEF x
      <4>2. x <= p
        BY <1>1, <2>5, <4>1
      <4> QED
        BY <4>2 DEF x
    <3> DEFINE t == Window(Truncate(st, p), g)
    <3>2. /\ t \in Seq(Values) /\ Len(t) = g.base + g.size /\ Len(t) \in Floor(g)..Len(t)
          /\ \A j \in 1..Floor(g) : t[j] = st[j]
      BY <1>1, <2>1, <2>2, <3>1, WindowKeeps
    <3> HIDE DEF t
    <3>3. Floor(g) <= Len(t)
      BY <3>2
    <3> QED
      BY <3>2, <3>3 DEF t
  <2>6. val \in Values
    <3>1. CASE Len(st) > bottom
      <4>1. bottom + 1 \in 1..Len(st)
        BY <1>1, <3>1
      <4> QED
        BY <1>1, <3>1, <4>1
    <3>2. CASE ~(Len(st) > bottom)
      BY <3>2 DEF Values
    <3> QED
      BY <3>1, <3>2
  <2>7. ASSUME frames' = SetTop(fs, h(TRUE)), stack' = st, mem' = mem PROVE StackInv'
    <3> HIDE DEF h
    <3> QED
      BY <1>1, <1>4, <2>2, <2>4, <2>7, ReturnedInv
  <2>8. ASSUME NEW p \in Nat, bottom <= p, frames' = SetTop(fs, h(FALSE)),
               stack' = Window(Truncate(st, p), g), mem' = mem
        PROVE  StackInv'
    <3> DEFINE t == Window(Truncate(st, p), g)
    <3> HIDE DEF h
    <3>1. /\ t \in Seq(Values) /\ Len(t) = g.base + g.size /\ Floor(g) <= Len(t)
          /\ \A j \in 1..Floor(g) : t[j] = st[j]
      BY <2>5, <2>8
    <3>2. stack' = t
      BY <2>8
    <3> HIDE DEF t
    <3> QED
      BY <1>1, <1>4, <2>4, <2>8, <3>1, <3>2, ReturnedInv
  <2>9. CASE g.expect.tag = "Normal" /\ n # Variable
    <3>1. n \in Nat
      BY <2>3, <2>9
    <3>2. bottom + n \in Nat /\ bottom <= bottom + n
      BY <1>1, <3>1
    <3>3. /\ frames' = SetTop(fs, h(FALSE)) /\ mem' = mem
          /\ stack' = Window(Truncate(st, bottom + n), g)
      BY <1>4, <2>9 DEF ReturnTo, Done
    <3> QED
      BY <2>8, <3>2, <3>3
  <2>10. CASE g.expect.tag = "Normal" /\ n = Variable
    BY <1>4, <2>7, <2>10 DEF ReturnTo, Done
  <2>11. CASE g.expect.tag = "MetaNone"
    <3>1. frames' = SetTop(fs, h(FALSE)) /\ mem' = mem /\ stack' = Window(Truncate(st, bottom), g)
      BY <1>4, <2>11 DEF ReturnTo, Done
    <3> QED
      BY <1>1, <2>8, <3>1
  <2>12. CASE g.expect.tag = "MetaRegister"
    <3> DEFINE l == Len(fs)
               q == SetTop(fs, h(FALSE))
               t == Write(full, g.base + n, val)
    <3>1. /\ frames' = q /\ stack' = t
          /\ mem' = IF n < Len(g.locals) THEN [mem EXCEPT ![g.locals[n + 1]] = val] ELSE mem
      BY <1>4, <2>12 DEF ReturnTo, Done
    <3>2. n \in Nat /\ g.base \in Nat /\ Len(g.locals) \in Nat /\ Floor(g) = g.base + Len(g.locals)
      BY <2>1, <2>3, <2>12, FrameFields DEF Floor
    <3>3. /\ full \in Seq(Values) /\ Len(full) = g.base + g.size /\ Floor(g) <= Len(full)
          /\ \A j \in 1..Floor(g) : full[j] = st[j]
      BY <1>1, <2>5
    <3> HIDE DEF full, val, h
    <3>4. /\ t \in Seq(Values) /\ Len(t) = Len(full)
          /\ \A j \in 1..Len(full) : j # g.base + n + 1 => t[j] = full[j]
      <4>1. g.base + n \in Nat /\ full \in Seq(Values)
        BY <3>2, <3>3
      <4>2. /\ t \in Seq(Values) /\ Len(t) = Len(full)
            /\ \A j \in 1..Len(full) : j # (g.base + n) + 1 => t[j] = full[j]
        BY ONLY <2>6, <4>1, WriteElements
      <4> QED
        BY <4>2
    <3>5. CASE n < Len(g.locals)
      <4>1. /\ q \in Seq(Frame) /\ Len(q) = l /\ q[l] = h(FALSE) /\ l \in 1..l /\ q # << >>
        <5>1. l \in 1..l
          BY <1>1, <1>4, NonEmpty
        <5>2. h(FALSE) \in Frame
          BY <2>4
        <5> QED
          BY <1>1, <1>4, <5>1, <5>2, SetTopElements
      <4>2. FramesInv(q, Len(full), full, mem)
        <5>1. Len(full) \in Floor(g)..Len(full)
          BY <2>1, <3>3
        <5> QED
          BY <1>1, <1>4, <2>4, <3>3, <5>1, AlikeBelow
      <4>3. UpValuesInv(q, mem, open_upvalues', upval', used', cell_of')
        BY <1>1, <1>4, <2>4, AlikeTopUpValues
      <4>4. n + 1 \in 1..Len(q[l].locals) /\ q[l].base = g.base /\ q[l].locals = g.locals
        <5>1. n + 1 \in 1..Len(g.locals)
          BY <3>2, <3>5
        <5> HIDE DEF q
        <5> QED
          BY <2>4, <4>1, <5>1
      <4>5. g.base + (n + 1) - 1 = g.base + n
        BY <3>2
      <4> HIDE DEF q, t, l
      <4>6. FramesInv(q, Len(full), Write(full, q[l].base + (n + 1) - 1, val),
                      [mem EXCEPT ![q[l].locals[n + 1]] = val])
        BY <2>6, <4>1, <4>2, <4>4, StoreFrames
      <4>7. UpValuesInv(q, [mem EXCEPT ![q[l].locals[n + 1]] = val], open_upvalues', upval', used',
                        cell_of')
        BY <1>1, <4>1, <4>3, <4>4, StoreUpValues
      <4>8. /\ Write(full, q[l].base + (n + 1) - 1, val) = t
            /\ [mem EXCEPT ![q[l].locals[n + 1]] = val] = mem'
        BY <3>1, <3>5, <4>4, <4>5 DEF t
      <4>9. TopInv(q, Len(t))
        BY <1>1, <1>4, <2>4, <3>3, <3>4, CoveredPop, TopReplaced DEF q
      <4> QED
        BY <3>1, <3>4, <4>6, <4>7, <4>8, <4>9 DEF StackInv
    <3>6. CASE ~(n < Len(g.locals))
      <4>1. ASSUME NEW j \in 1..Floor(g) PROVE t[j] = st[j]
        <5>1. j # g.base + n + 1
          BY <3>2, <3>6
        <5>2. j \in 1..Len(full)
          <6> DEFINE x == Floor(g)
                     y == Len(full)
          <6>1. x \in Nat /\ y \in Nat /\ x <= y /\ j \in 1..x
            BY <2>1, <3>3
          <6> HIDE DEF x, y
          <6>2. j \in 1..y
            BY <6>1
          <6> QED
            BY <6>2 DEF y
        <5> QED
          BY <3>3, <3>4, <5>1, <5>2
      <4>2. mem' = mem
        BY <3>1, <3>6
      <4> HIDE DEF t
      <4> QED
        BY <1>1, <1>4, <2>4, <3>1, <3>3, <3>4, <4>1, <4>2, ReturnedInv
    <3> QED
      BY <3>5, <3>6
  <2> QED
    BY <1>4, <2>9, <2>10, <2>11, <2>12 DEF ReturnTo
<1> QED
  BY <1>2, <1>3, <1>4 DEF ReturnTo

-----------------------------------------------------------------------------
(* The frame on top. *)

\* What the invariant says of it.
LEMMA TopFacts ==
  ASSUME StackInv, frames # << >>
  PROVE  /\ frames \in Seq(Frame) /\ stack \in Seq(Values) /\ mem \in [Cells -> Values]
         /\ f \in Frame /\ Formed(f) /\ Floor(f) \in Nat /\ Floor(f) <= Len(stack)
         /\ f.bottom \in Nat /\ f.bottom <= Floor(f) /\ f.bottom <= Len(stack) /\ Len(stack) \in Nat
         /\ Len(frames) \in Nat /\ Len(frames) > 0 /\ f = frames[Len(frames)]
         /\ frames[1].bottom = 0 /\ Pop(frames) \in Seq(Frame)
         /\ Pop(frames) = << >> => f.bottom = 0
         /\ f.kind # "Result" => Covered(Pop(frames))
         /\ used \subseteq UpVals
<1>1. /\ frames \in Seq(Frame) /\ stack \in Seq(Values) /\ mem \in [Cells -> Values]
      /\ Nested(frames, Len(stack)) /\ Len(stack) \in Nat
  BY DEF StackInv, FramesInv
<1>2. /\ Len(frames) \in Nat /\ Len(frames) > 0 /\ f = frames[Len(frames)] /\ f \in Frame
      /\ Pop(frames) \in Seq(Frame)
  BY <1>1, NonEmpty, PopElements DEF Top, f
<1>3. Len(frames) \in 1..Len(frames)
  BY <1>2
<1>4. Formed(f) /\ Floor(f) <= Len(stack)
  BY <1>1, <1>2, <1>3 DEF Nested
<1>5. Floor(f) \in Nat /\ f.bottom \in Nat /\ f.bottom <= Floor(f)
  BY <1>4, FormedFields, FrameFields
<1>6. f.bottom <= Len(stack)
  <2> DEFINE x == Floor(f)
             y == f.bottom
             z == Len(stack)
  <2>1. x \in Nat /\ y \in Nat /\ z \in Nat /\ y <= x /\ x <= z
    BY <1>1, <1>4, <1>5
  <2> HIDE DEF x, y, z
  <2>2. y <= z
    BY <2>1
  <2> QED
    BY <2>2 DEF y, z
<1>7. frames[1].bottom = 0 /\ (f.kind # "Result" => Covered(Pop(frames)))
  BY DEF StackInv, TopInv, OnTop, f
<1>8. Pop(frames) = << >> => f.bottom = 0
  <2>1. ASSUME Pop(frames) = << >> PROVE Len(frames) = 1
    <3>1. Len(Pop(frames)) = 0 /\ Len(Pop(frames)) = Len(frames) - 1
      BY <1>1, <2>1, PopElements
    <3> QED
      BY <1>2, <3>1
  <2> QED
    BY <1>2, <1>7, <2>1
<1>9. used \subseteq UpVals
  BY DEF StackInv, UpValuesInv
<1> QED
  BY <1>1, <1>2, <1>4, <1>5, <1>6, <1>7, <1>8, <1>9

\* The frames below it, when only the stack from its bottom on has changed.
LEMMA BelowPop ==
  ASSUME StackInv, frames # << >>, NEW t \in Seq(Values), NEW p \in (f.bottom)..Len(t),
         \A j \in 1..f.bottom : t[j] = stack[j]
  PROVE  FramesInv(Pop(frames), p, t, mem)
<1>1. FramesInv(frames, Len(stack), stack, mem)
  BY DEF StackInv
<1>2. FramesInv(Pop(frames), f.bottom, stack, mem)
  BY <1>1, PopFrames DEF f
<1> QED
  BY <1>2, SameBelow

\* What is in no register of some frames is in no register of fewer.
LEMMA OccupiedFewer ==
  ASSUME StackInv, NEW gs, Len(gs) <= Len(frames), Len(gs) \in Nat,
         \A i \in 1..Len(gs) : gs[i].locals = frames[i].locals
  PROVE  Occupied(gs)
<1>1. FramesInv(frames, Len(stack), stack, mem) /\ Len(frames) \in Nat
  BY DEF StackInv, FramesInv
<1>2. \A i \in 1..Len(gs) : i \in 1..Len(frames)
  BY <1>1
<1>3. ASSUME NEW c \in FreeCells PROVE Gone(gs, c)
  <2>1. Gone(frames, c)
    BY <1>1, FreeCellsGone
  <2> QED
    BY <1>2, <2>1 DEF Gone
<1> QED
  BY <1>3 DEF Occupied

\* In particular without the frame on top.
LEMMA OccupiedPop ==
  ASSUME StackInv, frames # << >>
  PROVE  Occupied(Pop(frames))
<1>1. /\ Len(Pop(frames)) = Len(frames) - 1 /\ Len(frames) \in Nat /\ Len(frames) > 0
      /\ \A i \in 1..(Len(frames) - 1) : Pop(frames)[i] = frames[i]
  BY TopFacts, PopElements
<1>2. Len(Pop(frames)) \in Nat /\ Len(Pop(frames)) <= Len(frames)
  BY <1>1
<1> QED
  BY <1>1, <1>2, OccupiedFewer

\* And with another frame on top that has the same variables.
LEMMA OccupiedSetTop ==
  ASSUME StackInv, frames # << >>, NEW h \in Frame, h.locals = f.locals
  PROVE  Occupied(SetTop(frames, h))
<1> DEFINE gs == SetTop(frames, h)
           l == Len(frames)
<1>1. /\ Len(gs) = l /\ gs[l] = h /\ l \in Nat /\ f = frames[l]
      /\ \A i \in 1..(l - 1) : gs[i] = frames[i]
  BY TopFacts, SetTopElements
<1> HIDE DEF gs, l
<1>2. ASSUME NEW i \in 1..l PROVE gs[i].locals = frames[i].locals
  <2>1. CASE i = l
    BY <1>1, <2>1
  <2>2. CASE i # l
    <3>1. i \in 1..(l - 1)
      BY <1>1, <2>2
    <3> QED
      BY <1>1, <3>1
  <2> QED
    BY <2>1, <2>2
<1>3. Len(gs) <= Len(frames) /\ Len(gs) \in Nat
  BY <1>1 DEF l
<1>4. Occupied(gs)
  BY <1>1, <1>2, <1>3, OccupiedFewer DEF l
<1> QED
  BY <1>4 DEF gs

\* And with one more frame that has none.
LEMMA OccupiedBare ==
  ASSUME NEW fs \in Seq(Frame), Occupied(fs), NEW g \in Frame, g.locals = << >>
  PROVE  Occupied(Append(fs, g))
<1>1. /\ Len(fs) \in Nat /\ Len(Append(fs, g)) = Len(fs) + 1
      /\ \A i \in 1..Len(fs) : Append(fs, g)[i] = fs[i]
      /\ Append(fs, g)[Len(fs) + 1] = g
  BY PushElements
<1> DEFINE gs == Append(fs, g)
<1> HIDE DEF gs
<1>2. ASSUME NEW c \in FreeCells, NEW i \in 1..Len(gs), NEW k \in 1..Len(gs[i].locals)
      PROVE  gs[i].locals[k] # c
  <2>1. Gone(fs, c)
    BY DEF Occupied
  <2>2. i \in 1..Len(fs) \/ i = Len(fs) + 1
    BY <1>1 DEF gs
  <2>3. CASE i \in 1..Len(fs)
    BY <1>1, <2>1, <2>3 DEF gs, Gone
  <2>4. CASE i = Len(fs) + 1
    <3>1. Len(<< >>) = 0 /\ 1..0 = {}
      OBVIOUS
    <3> QED
      BY <1>1, <2>4, <3>1 DEF gs
  <2> QED
    BY <2>2, <2>3, <2>4
<1> QED
  BY <1>2 DEF Occupied, Gone, gs

-----------------------------------------------------------------------------
(* Callbacks and sequences. *)

\* What Rust code passes to Lua are values.
LEMMA GivenValues ==
  ASSUME used \subseteq UpVals, NEW vals \in Given
  PROVE  vals \in Seq(Values)
<1>1. PICK k \in ArgCounts : vals \in [1..k -> ({Cb} \cup used) \cap Passed]
  BY DEF Given, SeqsOf
<1>2. k \in Nat /\ ({Cb} \cup used) \cap Passed \subseteq Values
  BY StackAssumption DEF Values
<1>3. vals \in [1..k -> Values]
  BY <1>1, <1>2
<1> QED
  BY <1>2, <1>3

\* The stack of a callback or a sequence, with its values replaced.
LEMMA OwnStack ==
  ASSUME StackInv, frames # << >>, NEW vals \in Seq(Values)
  PROVE  /\ Own(vals) \in Seq(Values) /\ Len(Own(vals)) = f.bottom + Len(vals)
         /\ \A j \in 1..f.bottom : Own(vals)[j] = stack[j]
<1> DEFINE b == f.bottom
           lo == Truncate(stack, b)
           l == Len(stack)
<1>1. stack \in Seq(Values) /\ b \in Nat /\ b <= l /\ l \in Nat
  BY TopFacts
<1>2. /\ lo \in Seq(Values) /\ Len(lo) = (IF b < l THEN b ELSE l)
      /\ \A j \in 1..Len(lo) : lo[j] = stack[j]
  BY <1>1, TruncateElements
<1> HIDE DEF lo, l, b
<1>3. Len(lo) = b
  BY <1>1, <1>2
<1>4. lo \o vals \in Seq(Values) /\ Len(lo \o vals) = b + Len(vals)
  BY <1>2, <1>3
<1>5. \A j \in 1..b : (lo \o vals)[j] = lo[j]
  BY <1>2, <1>3
<1>6. Own(vals) = lo \o vals
  BY DEF Own, lo, b
<1> QED
  BY <1>2, <1>3, <1>4, <1>5, <1>6 DEF b

\* The frames that a callback or a sequence leaves behind.
LEMMA BehindInv ==
  ASSUME StackInv, InNative, NEW then \in BOOLEAN, NEW t \in Seq(Values),
         NEW p \in (f.bottom)..Len(t), \A j \in 1..f.bottom : t[j] = stack[j]
  PROVE  /\ Behind(then) \in Seq(Frame) /\ Covered(Behind(then)) /\ Occupied(Behind(then))
         /\ FramesInv(Behind(then), p, t, mem)
         /\ UpValuesInv(Behind(then), mem, open_upvalues, upval, used, cell_of)
         /\ Behind(then) = << >> => ~then /\ f.bottom = 0
         /\ TopInv(Behind(TRUE), p)
<1> DEFINE q == Pop(frames)
           g == Plain("Sequence", f.bottom)
<1>1. /\ frames # << >> /\ f.kind \in {"Callback", "Sequence"} /\ frames \in Seq(Frame)
      /\ f.bottom \in Nat /\ Formed(f) /\ q \in Seq(Frame)
      /\ (q = << >> => f.bottom = 0) /\ Covered(q)
  BY TopFacts DEF InNative
<1>2. Occupied(q)
  BY <1>1, OccupiedPop
<1>3. FramesInv(q, p, t, mem) /\ FramesInv(q, f.bottom, t, mem)
  <2>1. f.bottom \in (f.bottom)..Len(t) /\ p \in Nat /\ p <= Len(t) /\ f.bottom <= p
    BY <1>1
  <2> QED
    BY <1>1, <2>1, BelowPop
<1>4. UpValuesInv(q, mem, open_upvalues, upval, used, cell_of)
  <2>1. f.locals = << >>
    BY <1>1 DEF Formed
  <2> QED
    BY <1>1, <2>1, PopUpValues DEF StackInv, f
<1>5. /\ Formed(g) /\ g \in Frame /\ g.kind = "Sequence" /\ g.bottom = f.bottom /\ g.fn = Cb
      /\ g.locals = << >> /\ g.extra = << >> /\ Floor(g) = f.bottom
  BY <1>1, PlainFormed DEF FrameKinds
<1> HIDE DEF q, g
<1>6. /\ Append(q, g) \in Seq(Frame) /\ Append(q, g) # << >> /\ Len(Append(q, g)) = Len(q) + 1
      /\ \A i \in 1..Len(q) : Append(q, g)[i] = q[i]
      /\ Append(q, g)[Len(q) + 1] = g /\ Top(Append(q, g)) = g /\ Len(q) \in Nat
  BY <1>1, <1>5, PushElements
<1>7. Covered(Append(q, g))
  <2> DEFINE gs == Append(q, g)
  <2> HIDE DEF gs
  <2>1. /\ \A i \in 1..Len(q) : q[i].kind \in {"Lua", "Sequence"}
        /\ q # << >> => q[1].bottom = 0
    BY <1>1 DEF Covered
  <2>2. \A i \in 1..Len(gs) : i \in 1..Len(q) \/ i = Len(q) + 1
    BY <1>6 DEF gs
  <2>3. \A i \in 1..Len(gs) : gs[i].kind \in {"Lua", "Sequence"}
    BY <1>5, <1>6, <2>1, <2>2 DEF gs
  <2>4. gs[1].bottom = 0
    <3>1. CASE q = << >>
      <4>1. Len(q) = 0 /\ Len(q) + 1 = 1
        BY <3>1
      <4> QED
        BY <1>1, <1>5, <1>6, <3>1, <4>1 DEF gs
    <3>2. CASE q # << >>
      <4>1. 1 \in 1..Len(q)
        BY <1>1, <3>2, NonEmpty
      <4> QED
        BY <1>6, <2>1, <3>2, <4>1 DEF gs
    <3> QED
      BY <3>1, <3>2
  <2> QED
    BY <2>3, <2>4 DEF Covered, gs
<1>8. Occupied(Append(q, g))
  BY <1>1, <1>2, <1>5, OccupiedBare
<1>9. FramesInv(Append(q, g), p, t, mem)
  <2>1. FramesInv(Append(q, g), Len(t), t, mem)
    <3>1. f.bottom <= g.bottom /\ g.bottom <= Len(t)
      BY <1>1, <1>5
    <3> QED
      BY <1>3, <1>5, <3>1, PushBare
  <2>2. p \in Floor(Top(Append(q, g)))..Len(t)
    BY <1>5, <1>6
  <2> QED
    BY <1>6, <2>1, <2>2, LowerTop
<1>10. UpValuesInv(Append(q, g), mem, open_upvalues, upval, used, cell_of)
  BY <1>1, <1>4, <1>5, PushBareUpValues
<1>11. Behind(TRUE) = Append(q, g) /\ Behind(FALSE) = q
  BY DEF Behind, q, g
<1>12. TopInv(Append(q, g), p)
  <2>1. Pushable(q, g, p)
    BY <1>1, <1>5 DEF Pushable
  <2> QED
    BY <1>1, <2>1, TopPushed
<1>13. CASE then = TRUE
  BY <1>6, <1>7, <1>8, <1>9, <1>10, <1>11, <1>12, <1>13
<1>14. CASE then = FALSE
  BY <1>1, <1>2, <1>3, <1>4, <1>11, <1>12, <1>14
<1> QED
  BY <1>13, <1>14

\* What is left on the stack, and where a call or a yield starts.
LEMMA NativeFacts ==
  ASSUME StackInv, InNative, NEW vals \in Given
  PROVE  /\ frames # << >> /\ vals \in Seq(Values) /\ Len(vals) \in Nat
         /\ f.bottom \in Nat /\ f.bottom <= Len(stack) /\ Len(stack) \in Nat
         /\ stack \in Seq(Values) /\ Own(vals) \in Seq(Values)
         /\ Len(Own(vals)) = f.bottom + Len(vals)
         /\ \A j \in 1..f.bottom : Own(vals)[j] = stack[j]
         /\ \A rel \in 0..Len(vals) : f.bottom + rel \in (f.bottom)..Len(Own(vals))
<1>1. frames # << >>
  BY DEF InNative
<1>2. /\ f.bottom \in Nat /\ f.bottom <= Len(stack) /\ Len(stack) \in Nat /\ stack \in Seq(Values)
      /\ used \subseteq UpVals
  BY <1>1, TopFacts
<1>3. vals \in Seq(Values) /\ Len(vals) \in Nat
  BY <1>2, GivenValues
<1>4. /\ Own(vals) \in Seq(Values) /\ Len(Own(vals)) = f.bottom + Len(vals)
      /\ \A j \in 1..f.bottom : Own(vals)[j] = stack[j]
  BY <1>1, <1>3, OwnStack
<1>5. \A rel \in 0..Len(vals) : f.bottom + rel \in (f.bottom)..Len(Own(vals))
  BY <1>2, <1>3, <1>4
<1> QED
  BY <1>1, <1>2, <1>3, <1>4, <1>5

\* It returns its values.
LEMMA NativeReturnInv ==
  ASSUME StackInv, NEW vals \in Given, NativeReturn(vals)
  PROVE  StackInv'
<1>1. InNative /\ ReturnTo(Pop(frames), Own(vals), f.bottom) /\ UNCHANGED upvalues
  BY DEF NativeReturn
<1>2. /\ Own(vals) \in Seq(Values) /\ f.bottom \in (f.bottom)..Len(Own(vals))
      /\ \A j \in 1..f.bottom : Own(vals)[j] = stack[j]
  <2>1. /\ Own(vals) \in Seq(Values) /\ Len(Own(vals)) = f.bottom + Len(vals) /\ f.bottom \in Nat
        /\ Len(vals) \in Nat /\ \A j \in 1..f.bottom : Own(vals)[j] = stack[j]
    BY <1>1, NativeFacts
  <2> QED
    BY <2>1
<1>3. Behind(FALSE) = Pop(frames)
  BY DEF Behind
<1>4. Waiting(Pop(frames), f.bottom, Own(vals))
  BY <1>1, <1>2, <1>3, BehindInv DEF Waiting, upvalues
<1> QED
  BY <1>1, <1>4, ReturnToInv

\* It leaves a sequence behind that is polled again.
LEMMA NativePendingInv ==
  ASSUME StackInv, NEW vals \in Given, NativePending(vals)
  PROVE  StackInv'
<1>1. /\ InNative /\ frames' = Behind(TRUE) /\ stack' = Own(vals)
      /\ UNCHANGED <<mem, upvalues>>
  BY DEF NativePending
<1>2. /\ Own(vals) \in Seq(Values) /\ Len(Own(vals)) \in (f.bottom)..Len(Own(vals))
      /\ \A j \in 1..f.bottom : Own(vals)[j] = stack[j]
  <2>1. /\ Own(vals) \in Seq(Values) /\ Len(Own(vals)) = f.bottom + Len(vals) /\ f.bottom \in Nat
        /\ Len(vals) \in Nat /\ \A j \in 1..f.bottom : Own(vals)[j] = stack[j]
    BY <1>1, NativeFacts
  <2> QED
    BY <2>1
<1>3. /\ FramesInv(Behind(TRUE), Len(Own(vals)), Own(vals), mem)
      /\ UpValuesInv(Behind(TRUE), mem, open_upvalues, upval, used, cell_of)
      /\ TopInv(Behind(TRUE), Len(Own(vals)))
  BY <1>1, <1>2, BehindInv
<1> QED
  BY <1>1, <1>3 DEF StackInv, upvalues

\* It calls a function with its values.
LEMMA NativeCallInv ==
  ASSUME StackInv, NEW fn \in Functions, NEW then \in BOOLEAN, NEW vals \in Given,
         NEW rel \in 0..Len(vals), NEW fixed \in FixedParams,
         NativeCall(fn, then, rel, vals, fixed)
  PROVE  StackInv'
<1>1. /\ InNative /\ StartsAt(then, rel, vals) /\ Room(Behind(then), fixed)
      /\ PushCall(Behind(then), Own(vals), f.bottom + rel, fn, fixed) /\ UNCHANGED upvalues
  BY DEF NativeCall
<1>2. /\ Own(vals) \in Seq(Values) /\ f.bottom + rel \in (f.bottom)..Len(Own(vals))
      /\ \A j \in 1..f.bottom : Own(vals)[j] = stack[j]
  BY <1>1, NativeFacts
<1>3. /\ Covered(Behind(then)) /\ Occupied(Behind(then))
      /\ FramesInv(Behind(then), f.bottom + rel, Own(vals), mem)
      /\ UpValuesInv(Behind(then), mem, open_upvalues, upval, used, cell_of)
      /\ (Behind(then) = << >> => ~then /\ f.bottom = 0)
  BY <1>1, <1>2, BehindInv
<1>4. Behind(then) = << >> => f.bottom + rel = 0
  BY <1>1, <1>3 DEF StartsAt
<1>5. Waiting(Behind(then), f.bottom + rel, Own(vals))
  BY <1>1, <1>3, <1>4 DEF Waiting, upvalues
<1>6. fixed <= Cardinality(FreeCells)
  BY <1>1 DEF Room
<1> QED
  BY <1>1, <1>5, <1>6, PushCallInv

\* It yields its values, which wait in a Result frame.
LEMMA NativeYieldInv ==
  ASSUME StackInv, NEW then \in BOOLEAN, NEW vals \in Given, NEW rel \in 0..Len(vals),
         NativeYield(then, rel, vals)
  PROVE  StackInv'
<1> DEFINE p == f.bottom + rel
           t == Own(vals)
           q == Behind(then)
           y == Plain("Yielded", p)
           r == Plain("Result", p)
<1>1. /\ InNative /\ StartsAt(then, rel, vals) /\ frames' = q \o << y, r >> /\ stack' = t
      /\ UNCHANGED <<mem, upvalues>>
  BY DEF NativeYield
<1>2. /\ t \in Seq(Values) /\ p \in (f.bottom)..Len(t) /\ f.bottom \in Nat
      /\ \A j \in 1..f.bottom : t[j] = stack[j]
  BY <1>1, NativeFacts
<1>3. /\ q \in Seq(Frame) /\ Covered(q) /\ FramesInv(q, p, t, mem)
      /\ UpValuesInv(q, mem, open_upvalues, upval, used, cell_of)
      /\ (q = << >> => ~then /\ f.bottom = 0)
  BY <1>1, <1>2, BehindInv
<1>4. q = << >> => p = 0
  BY <1>1, <1>3 DEF StartsAt
<1>5. p \in Nat /\ p <= Len(t) /\ Len(t) \in Nat
  BY <1>2
<1>6. /\ Formed(y) /\ y \in Frame /\ y.kind = "Yielded" /\ y.bottom = p /\ y.fn = Cb
      /\ y.locals = << >> /\ y.extra = << >> /\ Floor(y) = p
      /\ Formed(r) /\ r \in Frame /\ r.kind = "Result" /\ r.bottom = p /\ r.fn = Cb
      /\ r.locals = << >> /\ r.extra = << >>
  BY <1>5, PlainFormed DEF FrameKinds
<1> HIDE DEF p, t, q, y, r
<1> DEFINE a == Append(q, y)
           b == Append(a, r)
<1>7. q \o << y, r >> = b
  BY <1>3, <1>6
<1>8. /\ a \in Seq(Frame) /\ a # << >> /\ Len(a) = Len(q) + 1 /\ Top(a) = y /\ Pop(a) = q
      /\ a[Len(q) + 1] = y /\ Len(q) \in Nat /\ \A i \in 1..Len(q) : a[i] = q[i]
  BY <1>3, <1>6, PushElements, PopPushed
<1> HIDE DEF a
<1>9. /\ b \in Seq(Frame) /\ b # << >> /\ Len(b) = Len(a) + 1 /\ Top(b) = r /\ Pop(b) = a
      /\ \A i \in 1..Len(a) : b[i] = a[i]
  BY <1>6, <1>8, PushElements, PopPushed
<1>10. FramesInv(b, Len(t), t, mem)
  <2>1. FramesInv(a, Len(t), t, mem)
    BY <1>3, <1>5, <1>6, PushBare DEF a
  <2>2. p \in Floor(Top(a))..Len(t)
    BY <1>5, <1>6, <1>8
  <2>3. FramesInv(a, p, t, mem)
    BY <1>8, <2>1, <2>2, LowerTop
  <2>4. p <= r.bottom /\ r.bottom <= Len(t)
    BY <1>5, <1>6
  <2> QED
    BY <1>6, <2>3, <2>4, PushBare
<1>11. UpValuesInv(b, mem, open_upvalues, upval, used, cell_of)
  <2>1. UpValuesInv(a, mem, open_upvalues, upval, used, cell_of)
    BY <1>3, <1>6, PushBareUpValues DEF a
  <2> QED
    BY <1>6, <1>8, <2>1, PushBareUpValues
<1>12. b[1].bottom = 0
  <2>1. CASE q = << >>
    <3>1. Len(q) + 1 = 1 /\ 1 \in 1..Len(a)
      BY <1>8, <2>1
    <3>2. b[1] = y
      BY <1>8, <1>9, <3>1
    <3> QED
      BY <1>4, <1>6, <2>1, <3>2
  <2>2. CASE q # << >>
    <3>1. 1 \in 1..Len(q) /\ 1 \in 1..Len(a)
      BY <1>3, <1>8, <2>2, NonEmpty
    <3>2. b[1] = q[1]
      BY <1>8, <1>9, <3>1
    <3> QED
      BY <1>3, <2>2, <3>2 DEF Covered
  <2> QED
    BY <2>1, <2>2
<1> HIDE DEF b
<1>13. TopInv(b, Len(t))
  BY <1>3, <1>6, <1>8, <1>9, <1>12 DEF TopInv, OnTop
<1> QED
  BY <1>1, <1>7, <1>10, <1>11, <1>13 DEF StackInv, upvalues

\* A thread stops, or an error starts, at the end of the stack.
LEMMA PlainPushed ==
  ASSUME NEW fs, NEW t, FramesInv(fs, Len(t), t, mem), Covered(fs),
         UpValuesInv(fs, mem, open_upvalues', upval', used', cell_of'),
         fs = << >> => Len(t) = 0, NEW kind \in {"Yielded", "WaitThread", "Error"},
         frames' = Append(fs, Plain(kind, Len(t))), stack' = t, mem' = mem
  PROVE  StackInv'
<1> DEFINE g == Plain(kind, Len(t))
<1>1. fs \in Seq(Frame) /\ t \in Seq(Values) /\ Len(t) \in Nat
  BY DEF FramesInv
<1>2. /\ Formed(g) /\ g \in Frame /\ g.kind = kind /\ g.bottom = Len(t) /\ g.fn = Cb
      /\ g.locals = << >> /\ g.extra = << >>
  BY <1>1, PlainFormed DEF FrameKinds
<1> HIDE DEF g
<1>3. FramesInv(Append(fs, g), Len(t), t, mem)
  BY <1>1, <1>2, PushBare
<1>4. UpValuesInv(Append(fs, g), mem, open_upvalues', upval', used', cell_of')
  BY <1>1, <1>2, PushBareUpValues
<1>5. Pushable(fs, g, Len(t))
  BY <1>2 DEF Pushable
<1>6. TopInv(Append(fs, g), Len(t))
  BY <1>1, <1>5, TopPushed
<1> QED
  BY <1>3, <1>4, <1>6 DEF StackInv, g

\* It hands its values over to another thread.
LEMMA NativeHandOverInv ==
  ASSUME StackInv, NEW then \in BOOLEAN, NEW vals \in Given, NEW rel \in 0..Len(vals),
         NEW kind \in {"Yielded", "WaitThread", "Error"}, NativeHandOver(then, rel, vals, kind)
  PROVE  StackInv'
<1> DEFINE p == f.bottom + rel
           t == Truncate(Own(vals), p)
           q == Behind(then)
<1>1. /\ InNative /\ StartsAt(then, rel, vals) /\ stack' = t /\ UNCHANGED <<mem, upvalues>>
      /\ frames' = IF kind = "WaitThread" /\ q = << >> THEN << >> ELSE Append(q, Plain(kind, p))
  BY DEF NativeHandOver
<1>2. /\ Own(vals) \in Seq(Values) /\ p \in (f.bottom)..Len(Own(vals)) /\ f.bottom \in Nat
      /\ \A j \in 1..f.bottom : Own(vals)[j] = stack[j]
  BY <1>1, NativeFacts
<1> DEFINE l == Len(Own(vals))
<1>3. p \in Nat /\ l \in Nat /\ p <= l /\ f.bottom <= p
  BY <1>2
<1>4. /\ t \in Seq(Values) /\ Len(t) = (IF p < l THEN p ELSE l)
      /\ \A j \in 1..Len(t) : t[j] = Own(vals)[j]
  BY <1>2, <1>3, TruncateElements
<1> HIDE DEF p, t, q, l
<1>5. Len(t) = p
  BY <1>3, <1>4
<1>6. p \in (f.bottom)..Len(t) /\ \A j \in 1..f.bottom : t[j] = stack[j]
  <2>1. \A j \in 1..f.bottom : j \in 1..p
    BY <1>2, <1>3
  <2> QED
    BY <1>2, <1>3, <1>4, <1>5, <2>1
<1>7. /\ q \in Seq(Frame) /\ Covered(q) /\ FramesInv(q, p, t, mem)
      /\ UpValuesInv(q, mem, open_upvalues, upval, used, cell_of)
      /\ (q = << >> => ~then /\ f.bottom = 0)
  BY <1>1, <1>4, <1>6, BehindInv DEF q
<1>8. q = << >> => p = 0
  BY <1>1, <1>7 DEF StartsAt, p, q
<1>9. CASE kind = "WaitThread" /\ q = << >>
  <2>1. frames' = q /\ Len(t) = 0
    BY <1>1, <1>5, <1>8, <1>9
  <2> QED
    BY <1>1, <1>5, <1>7, <1>9, <2>1 DEF StackInv, TopInv, upvalues
<1>10. CASE ~(kind = "WaitThread" /\ q = << >>)
  <2>1. frames' = Append(q, Plain(kind, Len(t)))
    BY <1>1, <1>5, <1>10
  <2> QED
    BY <1>1, <1>5, <1>7, <1>8, <2>1, PlainPushed DEF upvalues
<1> QED
  BY <1>9, <1>10

\* It fails: its values are dropped.
LEMMA NativeErrorInv ==
  ASSUME StackInv, NativeError
  PROVE  StackInv'
<1> DEFINE t == Truncate(stack, f.bottom)
           q == Behind(FALSE)
           p == f.bottom
           l == Len(stack)
<1>1. /\ InNative /\ stack' = t /\ frames' = Append(q, Plain("Error", p))
      /\ UNCHANGED <<mem, upvalues>>
  BY DEF NativeError, SetTop, Behind
<1>2. stack \in Seq(Values) /\ p \in Nat /\ p <= l /\ l \in Nat
  BY <1>1, TopFacts DEF InNative
<1>3. /\ t \in Seq(Values) /\ Len(t) = (IF p < l THEN p ELSE l)
      /\ \A j \in 1..Len(t) : t[j] = stack[j]
  BY <1>2, TruncateElements
<1> HIDE DEF p, t, q, l
<1>4. Len(t) = p
  BY <1>2, <1>3
<1>5. p \in p..Len(t) /\ \A j \in 1..p : t[j] = stack[j]
  BY <1>2, <1>3, <1>4
<1>6. /\ Covered(q) /\ FramesInv(q, p, t, mem)
      /\ UpValuesInv(q, mem, open_upvalues, upval, used, cell_of)
      /\ (q = << >> => p = 0)
  BY <1>1, <1>3, <1>5, BehindInv DEF q, p
<1> QED
  BY <1>1, <1>4, <1>6, PlainPushed DEF upvalues

-----------------------------------------------------------------------------
(* Unwinding, and the methods of Thread. *)

\* An error passes one frame.
LEMMA UnwindInv ==
  ASSUME StackInv, Unwind
  PROVE  StackInv'
<1> DEFINE q == Pop(frames)
           above == Top(q)
           gs == Pop(q)
           b == above.bottom
           l == Len(stack)
<1>1. Len(frames) > 1 /\ f.kind = "Error" /\ mem' = mem
  BY DEF Unwind
<1>2. frames # << >>
  BY <1>1
<1>3. /\ frames \in Seq(Frame) /\ stack \in Seq(Values) /\ mem \in [Cells -> Values] /\ l \in Nat
      /\ Formed(f) /\ f.bottom \in Nat /\ f.bottom <= l /\ q \in Seq(Frame) /\ Covered(q)
      /\ Len(frames) \in Nat
  BY <1>1, <1>2, TopFacts
<1>4. q # << >> /\ Len(q) = Len(frames) - 1
  BY <1>1, <1>2, <1>3, PopElements
<1>5. f.locals = << >>
  BY <1>1, <1>3 DEF Formed
<1>6. FramesInv(q, f.bottom, stack, mem)
  BY <1>2, PopFrames DEF StackInv, f
<1>7. FramesInv(gs, b, stack, mem) /\ b <= f.bottom /\ Cut(gs, q, b)
  BY <1>4, <1>6, PopFrames, CutPop
<1>8. /\ Covered(gs) /\ q[1].bottom = 0
      /\ gs \in Seq(Frame) /\ Len(gs) = Len(q) - 1 /\ Len(gs) \in Nat
  BY <1>3, <1>4, CoveredPop, PopElements
<1>9. b \in Nat /\ b <= l
  <2>1. b \in Nat
    BY <1>7 DEF FramesInv
  <2> DEFINE z == f.bottom
  <2>2. z \in Nat /\ z <= l /\ b <= z
    BY <1>3, <1>7
  <2> HIDE DEF z, b, l
  <2> QED
    BY <1>3, <2>1, <2>2
<1>10. gs = << >> => b = 0
  <2>1. ASSUME gs = << >> PROVE Len(q) = 1
    <3>1. Len(gs) = 0
      BY <2>1
    <3> QED
      BY <1>3, <1>4, <1>8, <3>1
  <2> QED
    BY <1>8, <2>1 DEF Top
<1>11. Cut(gs, frames, b)
  BY <1>2, <1>3, <1>5, <1>7, <1>8, CutBare DEF f
<1>12. CASE above.kind = "Lua"
  <2> DEFINE t == Truncate(stack, b)
  <2>1. CloseFrom(b) /\ stack' = t /\ frames' = Append(gs, Plain("Error", b))
    BY <1>12 DEF Unwind, SetTop
  <2>2. /\ t \in Seq(Values) /\ Len(t) = (IF b < l THEN b ELSE l)
        /\ \A j \in 1..Len(t) : t[j] = stack[j]
    BY <1>3, <1>9, TruncateElements
  <2> HIDE DEF q, gs, t, b, l
  <2>3. Len(t) = b
    BY <1>3, <1>9, <2>2
  <2>4. b \in b..Len(t) /\ \A j \in 1..b : t[j] = stack[j]
    BY <1>9, <2>2, <2>3
  <2>5. FramesInv(gs, b, t, mem)
    BY <1>7, <2>2, <2>4, SameBelow
  <2>6. UpValuesInv(gs, mem, open_upvalues', upval', used', cell_of')
    BY <1>8, <1>9, <1>11, <2>1, CloseCut DEF StackInv
  <2> QED
    BY <1>1, <1>8, <1>10, <2>1, <2>3, <2>5, <2>6, PlainPushed
<1>13. CASE above.kind = "Sequence"
  <2>1. frames' = q /\ stack' = stack /\ UNCHANGED upvalues
    BY <1>13 DEF Unwind
  <2>2. UpValuesInv(q, mem, open_upvalues, upval, used, cell_of)
    BY <1>2, <1>3, <1>5, PopUpValues DEF StackInv, f
  <2>3. FramesInv(q, l, stack, mem)
    <3>1. l \in (f.bottom)..Len(stack)
      BY <1>3
    <3> QED
      BY <1>3, <1>6, <3>1, SameBelow
  <2>4. Covered(Pop(q)) /\ q[1].bottom = 0
    BY <1>8
  <2> HIDE DEF q
  <2>5. TopInv(q, l)
    BY <1>4, <1>13, <2>4 DEF TopInv, OnTop
  <2> QED
    BY <1>1, <2>1, <2>2, <2>3, <2>5 DEF StackInv, upvalues
<1> QED
  BY <1>12, <1>13 DEF Unwind

\* A thread without frames.
LEMMA NoFrames ==
  ASSUME NEW t \in Seq(Values), NEW m \in [Cells -> Values]
  PROVE  FramesInv(<< >>, 0, t, m) /\ Covered(<< >>) /\ << >> \in Seq(Frame)
<1>1. << >> \in Seq(Frame) /\ Len(<< >>) = 0 /\ 1..0 = {} /\ 0 \in 0..Len(t)
  OBVIOUS
<1>2. Nested(<< >>, 0) /\ Apart(<< >>) /\ \A i \in 1..Len(<< >>) : Holds(<< >>[i], t, m)
  BY <1>1 DEF Nested, Apart
<1> QED
  BY <1>1, <1>2 DEF FramesInv, Covered

\* Without frames nothing is in a register.
LEMMA OccupiedNone == Occupied(<< >>)
<1>1. Len(<< >>) = 0 /\ 1..0 = {}
  OBVIOUS
<1> QED
  BY <1>1 DEF Occupied, Gone

\* Thread::start.
LEMMA StartInv ==
  ASSUME StackInv, NEW fn \in Functions, NEW args \in Given, NEW fixed \in FixedParams,
         Start(fn, args, fixed)
  PROVE  StackInv'
<1>1. /\ frames = << >> /\ Room(<< >>, fixed) /\ PushCall(<< >>, args, 0, fn, fixed)
      /\ UNCHANGED upvalues
  BY DEF Start
<1>2. mem \in [Cells -> Values] /\ used \subseteq UpVals
  BY DEF StackInv, FramesInv, UpValuesInv
<1>3. args \in Seq(Values)
  BY <1>2, GivenValues
<1>4. UpValuesInv(<< >>, mem, open_upvalues, upval, used, cell_of)
  BY <1>1 DEF StackInv
<1>5. Waiting(<< >>, 0, args)
  BY <1>1, <1>2, <1>3, <1>4, NoFrames, OccupiedNone DEF Waiting, upvalues
<1>6. fixed <= Cardinality(FreeCells)
  BY <1>1 DEF Room
<1> QED
  BY <1>1, <1>5, <1>6, PushCallInv

\* Thread::start_suspended.
LEMMA StartSuspendedInv ==
  ASSUME StackInv, NEW fn \in Functions, StartSuspended(fn)
  PROVE  StackInv'
<1> DEFINE g == [Plain("Start", 0) EXCEPT !.fn = fn]
<1>1. /\ frames = << >> /\ frames' = << g >> /\ stack' = stack /\ mem' = mem /\ UNCHANGED upvalues
  BY DEF StartSuspended
<1>2. /\ mem \in [Cells -> Values] /\ used \subseteq UpVals /\ stack \in Seq(Values)
      /\ FramesInv(<< >>, Len(stack), stack, mem)
      /\ UpValuesInv(<< >>, mem, open_upvalues, upval, used, cell_of)
      /\ \A u \in used : Sees(<< >>, mem, upval[u], cell_of[u])
  BY <1>1 DEF StackInv, FramesInv, UpValuesInv
<1>3. Len(stack) = 0
  BY <1>1 DEF StackInv, TopInv
<1>4. << >> \in Seq(Frame) /\ Covered(<< >>) /\ << g >> = Append(<< >>, g)
  BY <1>2, NoFrames
<1>5. Plain("Start", 0) \in Frame
  BY PlainFormed DEF FrameKinds
<1>6. /\ g \in Frame /\ g.kind = "Start" /\ g.bottom = 0 /\ g.base = 0 /\ g.size = 0 /\ g.fn = fn
      /\ g.locals = << >> /\ g.extra = << >> /\ g.expect = [tag |-> "None", n |-> 0]
  <2>1. fn \in {Cb, Main} \cup UpVals
    BY <1>2 DEF Functions
  <2>2. g \in Frame
    BY <1>5, <2>1 DEF Frame
  <2>3. /\ g.kind = "Start" /\ g.bottom = 0 /\ g.base = 0 /\ g.size = 0 /\ g.fn = fn
        /\ g.locals = << >> /\ g.extra = << >> /\ g.expect = [tag |-> "None", n |-> 0]
    BY DEF Plain, Expect
  <2> QED
    BY <2>2, <2>3
<1> HIDE DEF g
<1>7. Len(<< >>) = 0 /\ 1..0 = {}
  OBVIOUS
<1>8. Formed(g)
  BY <1>6, <1>7 DEF Formed
<1>9. Outside(g, upval, used)
  <2>1. ASSUME NEW u \in used PROVE ~upval[u].open
    <3>1. ~Placed(<< >>, upval[u], cell_of[u])
      BY <1>7 DEF Placed
    <3> QED
      BY <1>2, <3>1 DEF Sees
  <2> QED
    BY <1>6, <2>1 DEF Outside, Functions
<1>10. FramesInv(Append(<< >>, g), Len(stack), stack, mem)
  <2>1. Len(stack) <= g.bottom /\ g.bottom <= Len(stack)
    BY <1>3, <1>6
  <2> QED
    BY <1>2, <1>6, <1>8, <2>1, PushBare
<1>11. UpValuesInv(Append(<< >>, g), mem, open_upvalues, upval, used, cell_of)
  <2>1. \A u \in used : \A k \in 1..Len(g.locals) : g.locals[k] # cell_of[u]
    BY <1>6, <1>7
  <2> QED
    BY <1>2, <1>4, <1>6, <1>9, <2>1, PushUpValues
<1>12. TopInv(Append(<< >>, g), Len(stack))
  <2>1. Pushable(<< >>, g, Len(stack))
    BY <1>3, <1>6 DEF Pushable
  <2> QED
    BY <1>4, <2>1, TopPushed
<1> QED
  BY <1>1, <1>4, <1>10, <1>11, <1>12 DEF StackInv, upvalues

\* The frame of a stopped or failed thread has no variables.
LEMMA PopBareInv ==
  ASSUME StackInv, frames # << >>, f.kind # "Lua"
  PROVE  /\ UpValuesInv(Pop(frames), mem, open_upvalues, upval, used, cell_of)
         /\ Occupied(Pop(frames))
<1>1. f.locals = << >> /\ frames \in Seq(Frame)
  BY TopFacts DEF Formed
<1>2. UpValuesInv(Pop(frames), mem, open_upvalues, upval, used, cell_of)
  BY <1>1, PopUpValues DEF StackInv, f
<1> QED
  BY <1>2, OccupiedPop

\* Thread::resume of a thread that has not run yet.
LEMMA ResumeStartInv ==
  ASSUME StackInv, NEW args \in Given, NEW fixed \in FixedParams, ResumeStart(args, fixed)
  PROVE  StackInv'
<1>1. /\ frames # << >> /\ f.kind = "Start" /\ Room(<< >>, fixed) /\ UNCHANGED upvalues
      /\ PushCall(Pop(frames), stack \o args, 0, f.fn, fixed)
  BY DEF ResumeStart
<1>2. Len(frames) = 1 /\ Len(stack) = 0
  BY <1>1 DEF StackInv, TopInv, OnTop, f
<1>3. /\ frames \in Seq(Frame) /\ stack \in Seq(Values) /\ mem \in [Cells -> Values]
      /\ used \subseteq UpVals
  BY <1>1, TopFacts
<1>4. Pop(frames) = << >>
  <2>1. Pop(frames) \in Seq(Frame) /\ Len(Pop(frames)) = Len(frames) - 1
    BY <1>1, <1>3, PopElements
  <2> DEFINE q == Pop(frames)
  <2> HIDE DEF q
  <2>2. q \in Seq(Frame) /\ Len(q) = 0
    BY <1>2, <2>1 DEF q
  <2>3. q = << >>
    BY <2>2
  <2> QED
    BY <2>3 DEF q
<1>5. stack \o args \in Seq(Values)
  BY <1>3, GivenValues
<1>6. UpValuesInv(<< >>, mem, open_upvalues, upval, used, cell_of)
  BY <1>1, <1>4, PopBareInv
<1>7. f.fn \in Functions
  <2>1. Len(frames) \in 1..Len(frames) /\ f = frames[Len(frames)]
    BY <1>2 DEF f, Top
  <2>2. Outside(f, upval, used)
    BY <2>1 DEF StackInv, UpValuesInv
  <2> QED
    BY <2>2 DEF Outside, Functions
<1>8. Waiting(<< >>, 0, stack \o args)
  BY <1>1, <1>3, <1>5, <1>6, NoFrames, OccupiedNone DEF Waiting, upvalues
<1>9. fixed <= Cardinality(FreeCells)
  BY <1>1 DEF Room
<1> QED
  BY <1>1, <1>4, <1>7, <1>8, <1>9, PushCallInv

\* Thread::resume of a thread that has yielded.
LEMMA ResumeInv ==
  ASSUME StackInv, NEW args \in Given, Resume(args)
  PROVE  StackInv'
<1> DEFINE t == stack \o args
<1>1. /\ frames # << >> /\ f.kind \in {"Yielded", "WaitThread"} /\ UNCHANGED upvalues
      /\ ReturnTo(Pop(frames), t, Len(stack))
  BY DEF Resume
<1>2. /\ stack \in Seq(Values) /\ used \subseteq UpVals /\ Len(stack) \in Nat
      /\ Covered(Pop(frames)) /\ (Pop(frames) = << >> => f.bottom = 0)
  BY <1>1, TopFacts
<1>3. Len(stack) = f.bottom
  BY <1>1 DEF StackInv, TopInv, OnTop, f
<1>4. args \in Seq(Values)
  BY <1>2, GivenValues
<1>5. /\ t \in Seq(Values) /\ Len(t) = Len(stack) + Len(args)
      /\ \A j \in 1..Len(stack) : t[j] = stack[j]
  BY <1>2, <1>4
<1> HIDE DEF t
<1>6. Len(stack) \in (f.bottom)..Len(t)
  BY <1>2, <1>3, <1>4, <1>5
<1>7. FramesInv(Pop(frames), Len(stack), t, mem)
  BY <1>1, <1>3, <1>5, <1>6, BelowPop
<1>8. Waiting(Pop(frames), Len(stack), t)
  BY <1>1, <1>2, <1>3, <1>7, PopBareInv DEF Waiting, upvalues
<1> QED
  BY <1>1, <1>8, ReturnToInv

\* Thread::resume_err.
LEMMA ResumeErrInv ==
  ASSUME StackInv, ResumeErr
  PROVE  StackInv'
<1>1. /\ frames # << >> /\ f.kind \in {"Start", "Yielded", "WaitThread"}
      /\ frames' = Append(Pop(frames), Plain("Error", Len(stack)))
      /\ stack' = stack /\ mem' = mem /\ UNCHANGED upvalues
  BY DEF ResumeErr, SetTop
<1>2. /\ stack \in Seq(Values) /\ Len(stack) \in Nat /\ f.bottom <= Len(stack) /\ f.bottom \in Nat
      /\ Covered(Pop(frames)) /\ (Pop(frames) = << >> => f.bottom = 0)
  BY <1>1, TopFacts
<1>3. f.kind = "Start" => Len(stack) = 0
  BY <1>1 DEF StackInv, TopInv, OnTop, f
<1>4. f.kind # "Start" => Len(stack) = f.bottom
  BY <1>1 DEF StackInv, TopInv, OnTop, f
<1>5. Len(stack) \in (f.bottom)..Len(stack)
  BY <1>2
<1>6. FramesInv(Pop(frames), Len(stack), stack, mem)
  BY <1>1, <1>2, <1>5, BelowPop
<1>7. UpValuesInv(Pop(frames), mem, open_upvalues', upval', used', cell_of')
  BY <1>1, PopBareInv DEF upvalues
<1>8. Pop(frames) = << >> => Len(stack) = 0
  BY <1>2, <1>3, <1>4
<1> QED
  BY <1>1, <1>2, <1>6, <1>7, <1>8, PlainPushed

\* Thread::take_result.
LEMMA TakeResultInv ==
  ASSUME StackInv, TakeResult
  PROVE  StackInv'
<1> DEFINE q == Pop(frames)
           l == Len(stack)
           b == f.bottom
           t == IF f.kind = "Result" THEN Truncate(stack, b) ELSE stack
<1>1. /\ frames # << >> /\ frames' = q /\ stack' = t /\ mem' = mem /\ UNCHANGED upvalues
      /\ f.kind = "Result" \/ (f.kind = "Error" /\ Len(frames) = 1)
  BY DEF TakeResult
<1>2. /\ frames \in Seq(Frame) /\ stack \in Seq(Values) /\ l \in Nat /\ b <= l /\ b \in Nat
      /\ q \in Seq(Frame) /\ (q = << >> => b = 0) /\ frames[1].bottom = 0 /\ Len(frames) \in Nat
  BY <1>1, TopFacts
<1>3. /\ Len(q) = Len(frames) - 1 /\ \A i \in 1..(Len(frames) - 1) : q[i] = frames[i]
  BY <1>1, <1>2, PopElements
<1>4. t \in Seq(Values) /\ Len(t) = b /\ \A j \in 1..b : t[j] = stack[j]
  <2>1. CASE f.kind = "Result"
    <3>1. /\ Truncate(stack, b) \in Seq(Values)
          /\ Len(Truncate(stack, b)) = (IF b < l THEN b ELSE l)
          /\ \A j \in 1..Len(Truncate(stack, b)) : Truncate(stack, b)[j] = stack[j]
      BY <1>2, TruncateElements
    <3>2. t = Truncate(stack, b)
      BY <2>1
    <3> HIDE DEF t, b, l
    <3>3. Len(t) = b
      BY <1>2, <3>1, <3>2
    <3> QED
      BY <3>1, <3>2, <3>3
  <2>2. CASE f.kind # "Result"
    <3>1. l = 0
      BY <1>1, <2>2 DEF StackInv, TopInv, OnTop, f
    <3>2. t = stack
      BY <2>2
    <3> HIDE DEF t
    <3> QED
      BY <1>2, <3>1, <3>2
  <2> QED
    BY <2>1, <2>2
<1> HIDE DEF t, b, l
<1>5. b \in (f.bottom)..Len(t)
  BY <1>2, <1>4 DEF b
<1>6. FramesInv(q, Len(t), t, mem)
  BY <1>1, <1>4, <1>5, BelowPop DEF b
<1>7. UpValuesInv(q, mem, open_upvalues', upval', used', cell_of')
  BY <1>1, PopBareInv DEF upvalues
<1>8. TopInv(q, b)
  <2>1. CASE q = << >>
    BY <1>2, <2>1 DEF TopInv
  <2>2. CASE q # << >>
    <3>1. Len(frames) > 1 /\ q[1] = frames[1]
      <4>1. Len(q) > 0 /\ Len(q) \in Nat
        BY <1>2, <2>2, NonEmpty
      <4>2. 1 \in 1..(Len(frames) - 1) /\ Len(frames) > 1
        BY <1>2, <1>3, <4>1
      <4>3. q[1] = frames[1]
        BY <1>3, <4>2
      <4> QED
        BY <4>2, <4>3
    <3>2. f.kind = "Result"
      <4>1. Len(frames) # 1
        <5> DEFINE n == Len(frames)
        <5>1. n > 1
          BY <3>1
        <5> HIDE DEF n
        <5>2. n # 1
          BY ONLY <5>1
        <5> QED
          BY <5>2 DEF n
      <4> QED
        BY <1>1, <4>1, Zenon
    <3>3. Covered(Pop(q)) /\ Top(q).kind = "Yielded" /\ Top(q).bottom = b
      BY <1>1, <3>1, <3>2 DEF StackInv, TopInv, OnTop, f, b
    <3> HIDE DEF q
    <3> QED
      BY <1>2, <2>2, <3>1, <3>3 DEF TopInv, OnTop
  <2> QED
    BY <2>1, <2>2
<1> QED
  BY <1>1, <1>4, <1>6, <1>7, <1>8 DEF StackInv

\* ThreadState::reset.
LEMMA ResetInv ==
  ASSUME StackInv, Reset
  PROVE  StackInv'
<1>1. frames # << >> /\ CloseFrom(0) /\ frames' = << >> /\ stack' = << >> /\ mem' = mem
  BY DEF Reset
<1>2. /\ frames \in Seq(Frame) /\ mem \in [Cells -> Values] /\ Len(frames) \in Nat
      /\ FramesInv(frames, Len(stack), stack, mem)
      /\ UpValuesInv(frames, mem, open_upvalues, upval, used, cell_of)
  BY <1>1, TopFacts DEF StackInv
<1>3. Len(<< >>) = 0 /\ 1..0 = {} /\ << >> \in Seq(Values)
  OBVIOUS
<1>4. Cut(<< >>, frames, 0)
  <2>1. ASSUME NEW i \in 1..Len(frames), NEW k \in 1..Len(frames[i].locals)
        PROVE  ~(frames[i].base + k - 1 < 0)
    <3>1. frames[i].base \in Nat /\ Len(frames[i].locals) \in Nat
      BY <1>2, FrameFields
    <3> QED
      BY <3>1
  <2>2. Len(<< >>) <= Len(frames)
    BY <1>2, <1>3
  <2>3. \A i \in 1..Len(<< >>) : FALSE
    BY <1>3
  <2> QED
    BY <2>1, <2>2, <2>3 DEF Cut
<1>5. UpValuesInv(<< >>, mem, open_upvalues', upval', used', cell_of')
  <2>1. << >> \in Seq(Frame) /\ 0 \in Nat
    OBVIOUS
  <2> QED
    BY <1>1, <1>2, <1>4, <2>1, CloseCut
<1>6. FramesInv(<< >>, 0, << >>, mem)
  BY <1>2, <1>3, NoFrames
<1> QED
  BY <1>1, <1>3, <1>5, <1>6 DEF StackInv, TopInv

-----------------------------------------------------------------------------
(* Instructions. *)

\* The Lua frame on top and its registers.
LEMMA LuaFacts ==
  ASSUME StackInv, InLua
  PROVE  /\ frames # << >> /\ f.kind = "Lua" /\ f.size = StackSize /\ StackSize \in Nat
         /\ nact \in Nat /\ nact <= StackSize /\ f.base \in Nat /\ f.bottom <= f.base
         /\ Floor(f) = f.base + nact /\ Register(nact) = Floor(f)
         /\ (Fixed => Len(stack) = f.base + StackSize)
         /\ f.locals \in Seq(Cells)
         /\ \A k \in 1..nact : f.locals[k] \in Cells
<1>1. frames # << >> /\ f.kind = "Lua"
  BY DEF InLua
<1>2. f \in Frame /\ Formed(f)
  BY <1>1, TopFacts
<1>3. /\ f.base \in Nat /\ f.locals \in Seq(Cells) /\ nact \in Nat
      /\ \A k \in 1..nact : f.locals[k] \in Cells
  BY <1>2, FrameFields DEF nact
<1>4. f.size = StackSize /\ nact <= StackSize /\ f.bottom <= f.base /\ StackSize \in Nat
  BY <1>1, <1>2, FormedFields, StackAssumption DEF Formed, nact
<1>5. Floor(f) = f.base + nact /\ Register(nact) = Floor(f)
  BY DEF Floor, Register, nact
<1>6. Fixed => Len(stack) = f.base + f.size
  BY <1>1 DEF StackInv, TopInv, OnTop, f, Fixed
<1>7. Fixed => Len(stack) = f.base + StackSize
  BY <1>4, <1>6
<1> QED
  BY <1>1, <1>3, <1>4, <1>5, <1>7

\* A register that is a variable.
LEMMA LocalFacts ==
  ASSUME StackInv, InLua, NEW r \in Locals
  PROVE  /\ r \in Nat /\ r < nact /\ r + 1 \in 1..nact /\ Register(r) \in Nat
         /\ Register(r) = f.base + (r + 1) - 1
         /\ Register(r) + 1 \in 1..Len(stack) /\ stack[Register(r) + 1] \in Values
         /\ stack[Register(r) + 1] = mem[f.locals[r + 1]]
<1> DEFINE n == nact
           l == Len(stack)
           b == f.base
<1>1. n \in Nat /\ l \in Nat /\ b \in Nat /\ b + n <= l /\ r \in 0..(n - 1) /\ frames # << >>
  BY LuaFacts, TopFacts DEF Locals
<1> HIDE DEF n, l, b
<1>2. r \in Nat /\ r < n /\ r + 1 \in 1..n /\ b + r \in Nat /\ b + r = b + (r + 1) - 1
      /\ b + r + 1 \in 1..l /\ b + r + 1 = b + (r + 1)
  BY ONLY <1>1
<1>3. stack \in Seq(Values)
  BY <1>1, TopFacts
<1>4. stack[Register(r) + 1] \in Values
  BY <1>2, <1>3 DEF l, b, Register
<1>5. stack[b + (r + 1)] = mem[f.locals[r + 1]]
  <2>1. Len(frames) \in 1..Len(frames) /\ f = frames[Len(frames)]
    BY <1>1, TopFacts
  <2>2. Holds(f, stack, mem)
    BY <2>1 DEF StackInv, FramesInv
  <2> QED
    BY <1>2, <2>2 DEF Holds, n, b, nact
<1> QED
  BY <1>2, <1>4, <1>5 DEF n, l, b, Register

\* What an instruction reads is a value, and operands fit into the window.
LEMMA OperandValues ==
  ASSUME StackInv, InLua, NEW vals \in Operands
  PROVE  vals \in Seq(Values) /\ Len(vals) \in Nat /\ (Fixed => nact + Len(vals) <= StackSize)
         /\ (~Fixed => Len(vals) = 0)
<1>1. Readable \subseteq Values
  BY LocalFacts DEF Readable, Values
<1>2. nact \in Nat /\ StackSize \in Nat /\ nact <= StackSize
  BY LuaFacts
<1>3. CASE Fixed
  <2>1. PICK k \in 0..(StackSize - nact) : vals \in [1..k -> Readable]
    BY <1>3 DEF Operands, SeqsOf
  <2> DEFINE n == nact
  <2>2. n \in Nat /\ k \in 0..(StackSize - n) /\ StackSize \in Nat /\ n <= StackSize
    BY <1>2, <2>1
  <2> HIDE DEF n
  <2>3. k \in Nat /\ n + k <= StackSize
    BY ONLY <2>2
  <2>4. vals \in Seq(Readable) /\ Len(vals) = k
    BY <2>1, <2>3
  <2> QED
    BY <1>1, <1>3, <2>3, <2>4 DEF n
<1>4. CASE ~Fixed
  <2>1. vals = << >>
    BY <1>4 DEF Operands
  <2> QED
    BY <1>4, <2>1
<1> QED
  BY <1>3, <1>4

\* Operands are evaluated above the variables.
LEMMA EvaluatedElements ==
  ASSUME StackInv, InLua, NEW vals \in Seq(Values)
  PROVE  /\ Evaluated(vals) \in Seq(Values) /\ Len(Evaluated(vals)) = Len(stack)
         /\ \A j \in 1..Floor(f) : Evaluated(vals)[j] = stack[j]
<1> DEFINE a == Floor(f)
           l == Len(stack)
           t == [i \in 1..l |-> IF i \in (a + 1)..(a + Len(vals)) THEN vals[i - a] ELSE stack[i]]
<1>1. /\ a \in Nat /\ l \in Nat /\ a <= l /\ stack \in Seq(Values) /\ Register(nact) = a
  BY LuaFacts, TopFacts
<1>2. Evaluated(vals) = t
  BY <1>1 DEF Evaluated
<1>3. ASSUME NEW i \in 1..l PROVE t[i] \in Values
  <2>1. CASE i \in (a + 1)..(a + Len(vals))
    <3> HIDE DEF a
    <3>1. i - a \in 1..Len(vals)
      BY <1>1, <2>1
    <3>2. vals[i - a] \in Values
      BY <3>1
    <3> QED
      BY <2>1, <3>2
  <2>2. CASE i \notin (a + 1)..(a + Len(vals))
    BY <1>1, <2>2
  <2> QED
    BY <2>1, <2>2
<1>4. t \in Seq(Values) /\ Len(t) = l
  BY <1>1, <1>3
<1>5. \A j \in 1..a : j \in 1..l /\ j \notin (a + 1)..(a + Len(vals))
  <2> HIDE DEF a, l
  <2> QED
    BY <1>1
<1>6. \A j \in 1..a : t[j] = stack[j]
  BY <1>5
<1> QED
  BY <1>2, <1>4, <1>6

\* The top frame in its own place.
LEMMA SetTopSame ==
  ASSUME NEW fs \in Seq(Frame), fs # << >>
  PROVE  SetTop(fs, Top(fs)) = fs
<1> DEFINE q == SetTop(fs, Top(fs))
           l == Len(fs)
<1>1. l \in Nat /\ l > 0 /\ Top(fs) \in Frame /\ Top(fs) = fs[l]
  BY NonEmpty DEF Top
<1>2. q \in Seq(Frame) /\ Len(q) = l /\ q[l] = Top(fs) /\ \A i \in 1..(l - 1) : q[i] = fs[i]
  BY <1>1, SetTopElements
<1> HIDE DEF q
<1>3. ASSUME NEW i \in 1..l PROVE q[i] = fs[i]
  <2>1. i = l \/ i \in 1..(l - 1)
    <3> HIDE DEF l
    <3> QED
      BY <1>1
  <2> QED
    BY <1>1, <1>2, <2>1
<1>4. q = fs
  BY <1>2, <1>3
<1> QED
  BY <1>4 DEF q

\* The frame on top expects something else, or evaluates a variable number of values.
LEMMA ExpectFormed ==
  ASSUME StackInv, InLua, NEW e \in [tag : Tags, n : Nat \cup {Variable}],
         e.tag = "MetaRegister" => e.n \in Nat
  PROVE  Formed([f EXCEPT !.expect = e]) /\ Alike(f, [f EXCEPT !.expect = e])
<1> DEFINE g == f
           h == [g EXCEPT !.expect = e]
<1>1. g \in Frame /\ Formed(g)
  BY TopFacts DEF InLua
<1> HIDE DEF g
<1>2. h \in Frame
  BY <1>1 DEF Frame
<1>3. /\ h.kind = g.kind /\ h.bottom = g.bottom /\ h.base = g.base /\ h.fn = g.fn
      /\ h.locals = g.locals /\ h.extra = g.extra /\ h.size = g.size /\ h.expect = e
  BY <1>1 DEF Frame
<1> HIDE DEF h
<1>4. Formed(h) /\ Alike(g, h)
  BY <1>1, <1>2, <1>3 DEF Formed, Alike
<1> QED
  BY <1>4 DEF g, h

\* It evaluates a variable number of values, or no longer does.
LEMMA VariableFormed ==
  ASSUME StackInv, InLua, NEW b \in BOOLEAN
  PROVE  LET h == [f EXCEPT !.is_variable = b] IN
         Formed(h) /\ Alike(f, h) /\ h.is_variable = b /\ h.size = f.size
<1> DEFINE g == f
           h == [g EXCEPT !.is_variable = b]
<1>1. g \in Frame /\ Formed(g)
  BY TopFacts DEF InLua
<1> HIDE DEF g
<1>2. h \in Frame
  BY <1>1 DEF Frame
<1>3. /\ h.kind = g.kind /\ h.bottom = g.bottom /\ h.base = g.base /\ h.fn = g.fn
      /\ h.locals = g.locals /\ h.extra = g.extra /\ h.size = g.size /\ h.expect = g.expect
      /\ h.is_variable = b
  BY <1>1 DEF Frame
<1> HIDE DEF h
<1>4. Formed(h) /\ Alike(g, h)
  BY <1>1, <1>2, <1>3 DEF Formed, Alike
<1> QED
  BY <1>3, <1>4 DEF g, h

\* The frames of a thread in Lua code.
LEMMA LuaCovered ==
  ASSUME StackInv, InLua
  PROVE  Covered(frames)
<1>1. /\ frames # << >> /\ f.kind = "Lua" /\ frames \in Seq(Frame) /\ frames[1].bottom = 0
      /\ Covered(Pop(frames)) /\ f = frames[Len(frames)]
  BY TopFacts DEF InLua
<1> DEFINE q == Pop(frames)
           l == Len(frames)
<1>2. l \in Nat /\ l > 0 /\ Len(q) = l - 1 /\ \A i \in 1..(l - 1) : q[i] = frames[i]
  BY <1>1, NonEmpty, PopElements
<1> HIDE DEF q, l
<1>3. ASSUME NEW i \in 1..l PROVE frames[i].kind \in {"Lua", "Sequence"}
  <2>1. i = l \/ (i \in 1..(l - 1) /\ i \in 1..Len(q))
    BY <1>2
  <2>2. CASE i = l
    BY <1>1, <2>2 DEF l
  <2>3. CASE i \in 1..(l - 1) /\ i \in 1..Len(q)
    BY <1>1, <1>2, <2>3 DEF Covered, q
  <2> QED
    BY <2>1, <2>2, <2>3
<1> QED
  BY <1>1, <1>3 DEF Covered, l

\* A frame that calls: its variables stay below what it evaluated.
LEMMA CallerWaits ==
  ASSUME StackInv, InLua, UNCHANGED upvalues, NEW h, Formed(h), Alike(f, h),
         NEW t \in Seq(Values), NEW bottom \in Floor(f)..Len(t),
         \A j \in 1..Floor(f) : t[j] = stack[j]
  PROVE  Waiting(SetTop(frames, h), bottom, t)
<1> DEFINE q == SetTop(frames, h)
<1>1. /\ frames # << >> /\ f.kind = "Lua" /\ frames \in Seq(Frame) /\ f = Top(frames)
      /\ h \in Frame /\ h.kind = "Lua" /\ h.locals = f.locals /\ h.bottom = f.bottom
  BY TopFacts, LuaFacts DEF InLua, f, Formed, Alike
<1>2. FramesInv(q, bottom, t, mem)
  BY <1>1, AlikeBelow DEF StackInv
<1>3. UpValuesInv(q, mem, open_upvalues, upval, used, cell_of)
  BY <1>1, AlikeTopUpValues DEF StackInv
<1>4. /\ q \in Seq(Frame) /\ q # << >> /\ Len(q) = Len(frames) /\ q[Len(frames)] = h
      /\ \A i \in 1..(Len(frames) - 1) : q[i] = frames[i]
  BY <1>1, SetTopElements
<1>5. Covered(frames) /\ Len(frames) \in Nat /\ Len(frames) > 0 /\ f = frames[Len(frames)]
  BY LuaCovered, <1>1, TopFacts
<1>6. Occupied(q)
  BY <1>1, OccupiedSetTop
<1> DEFINE l == Len(frames)
<1> HIDE DEF q, l
<1>7. ASSUME NEW i \in 1..l PROVE q[i].kind = frames[i].kind /\ q[i].bottom = frames[i].bottom
  <2>1. i = l \/ i \in 1..(l - 1)
    BY <1>5 DEF l
  <2> QED
    BY <1>1, <1>4, <1>5, <2>1 DEF l
<1>8. Covered(q)
  <2>1. 1 \in 1..l
    BY <1>5 DEF l
  <2> QED
    BY <1>1, <1>4, <1>5, <1>7, <2>1 DEF Covered, l
<1>9. Waiting(q, bottom, t)
  BY <1>2, <1>3, <1>4, <1>6, <1>8 DEF Waiting, upvalues
<1> QED
  BY <1>9 DEF q

\* An instruction that changes no variable.
LEMMA EvaluatesInv ==
  ASSUME StackInv, InLua, UNCHANGED upvalues, NEW h, Formed(h), Alike(f, h),
         NEW t \in Seq(Values), Floor(f) <= Len(t), \A j \in 1..Floor(f) : t[j] = stack[j],
         ~h.is_variable => Len(t) = h.base + h.size,
         frames' = SetTop(frames, h), stack' = t, mem' = mem
  PROVE  StackInv'
<1> DEFINE q == SetTop(frames, h)
<1>1. Floor(f) \in Nat /\ Len(t) \in Nat /\ Len(t) \in Floor(f)..Len(t)
  BY TopFacts DEF InLua
<1>2. Waiting(q, Len(t), t)
  BY <1>1, CallerWaits
<1>3. /\ frames # << >> /\ frames \in Seq(Frame) /\ frames[1].bottom = 0 /\ Covered(Pop(frames))
      /\ h \in Frame /\ h.kind = "Lua" /\ h.bottom = Top(frames).bottom
  BY TopFacts, LuaFacts DEF InLua, f, Formed, Alike
<1>4. TopInv(q, Len(t))
  BY <1>3, TopReplaced
<1> QED
  BY <1>2, <1>4 DEF StackInv, Waiting

\* An instruction fails.
LEMMA VMErrorInv ==
  ASSUME StackInv, VMError
  PROVE  StackInv'
<1>1. /\ InLua /\ frames' = Append(frames, Plain("Error", Len(stack)))
      /\ stack' = stack /\ mem' = mem /\ UNCHANGED upvalues
  BY DEF VMError
<1>2. Covered(frames) /\ frames # << >> /\ stack \in Seq(Values)
  BY <1>1, LuaCovered, TopFacts DEF InLua
<1>3. /\ FramesInv(frames, Len(stack), stack, mem)
      /\ UpValuesInv(frames, mem, open_upvalues', upval', used', cell_of')
  BY <1>1 DEF StackInv, upvalues
<1> QED
  BY <1>1, <1>2, <1>3, PlainPushed

\* The next index of a table constructor, above the variables.
LEMMA SetListInv ==
  ASSUME StackInv, NEW base, NEW count, SetList(base, count)
  PROVE  StackInv'
<1> DEFINE h == [f EXCEPT !.is_variable = FALSE]
           a == Floor(f)
           l == Len(stack)
           d == Register(base) + 1
           s == Write(stack, d, Cb)
           t == IF count = Variable THEN Window(s, f) ELSE s
<1>1. /\ InLua /\ f.is_variable = (count = Variable) /\ base \in Temporaries
      /\ frames' = SetTop(frames, h) /\ stack' = t /\ mem' = mem /\ UNCHANGED upvalues
  BY DEF SetList
<1>2. /\ Formed(h) /\ Alike(f, h) /\ h.is_variable = FALSE /\ h.size = f.size
  BY <1>1, VariableFormed
<1>3. /\ a \in Nat /\ l \in Nat /\ a <= l /\ stack \in Seq(Values)
  BY <1>1, TopFacts DEF InLua
<1>4. /\ f.base \in Nat /\ nact \in Nat /\ StackSize \in Nat /\ f.size = StackSize
      /\ nact <= StackSize /\ a = f.base + nact /\ (Fixed => l = f.base + StackSize)
  BY <1>1, LuaFacts
<1>5. h.base = f.base
  BY <1>2 DEF Alike
<1> DEFINE b == f.base
           n == nact
<1>6. d = b + base + 1 /\ base \in n..(StackSize - 1)
  BY <1>1 DEF Register, Temporaries
<1> HIDE DEF a, l, d, b, n
<1>7. /\ b \in Nat /\ n \in Nat /\ n <= StackSize /\ a = b + n /\ (Fixed => l = b + StackSize)
      /\ StackSize \in Nat
  BY <1>4 DEF b, n
<1>8. d \in Nat /\ a < d + 1 /\ a <= b + StackSize /\ b + StackSize \in Nat
  BY ONLY <1>6, <1>7
<1>9. Cb \in Values
  BY DEF Values
<1>10. /\ s \in Seq(Values) /\ Len(s) = l
       /\ \A j \in 1..a : s[j] = stack[j] /\ j \in 1..l
  <2>1. s \in Seq(Values) /\ Len(s) = l /\ \A j \in 1..l : j # d + 1 => s[j] = stack[j]
    BY <1>3, <1>8, <1>9, WriteElements DEF l
  <2>2. \A j \in 1..a : j \in 1..l /\ j # d + 1
    BY ONLY <1>3, <1>8
  <2> QED
    BY <2>1, <2>2
<1> HIDE DEF s
<1>11. CASE count = Variable
  <2>1. t = Resize(s, b + StackSize)
    BY <1>4, <1>11 DEF Window, b
  <2>2. t \in Seq(Values) /\ Len(t) = b + StackSize
    BY <1>8, <1>10, <2>1, ResizeElements
  <2>3. \A j \in 1..(b + StackSize) : j <= Len(s) => t[j] = s[j]
    <3> DEFINE w == b + StackSize
    <3> HIDE DEF w, t
    <3>1. w \in Nat /\ t = Resize(s, w)
      BY <1>8, <2>1 DEF w
    <3>2. \A j \in 1..w : t[j] = IF j <= Len(s) THEN s[j] ELSE Nil
      BY <1>10, <3>1, ResizeElements
    <3> QED
      BY <3>2 DEF w
  <2> HIDE DEF t
  <2>4. ASSUME NEW j \in 1..a PROVE t[j] = stack[j]
    <3>1. j \in 1..(b + StackSize) /\ j <= l
      BY ONLY <1>3, <1>8, j \in 1..a
    <3> QED
      BY <1>10, <2>3, <3>1
  <2>5. Len(t) = h.base + h.size
    BY <1>2, <1>4, <1>5, <2>2 DEF b
  <2> HIDE DEF h
  <2> QED
    BY <1>1, <1>2, <1>8, <2>2, <2>4, <2>5, EvaluatesInv DEF a
<1>12. CASE count # Variable
  <2>1. t = s /\ Fixed
    BY <1>1, <1>12 DEF Fixed
  <2> HIDE DEF t
  <2>2. Len(t) = h.base + h.size
    BY <1>2, <1>4, <1>5, <1>7, <1>10, <2>1 DEF b
  <2> HIDE DEF h
  <2>3. a <= Len(t)
    BY <1>3, <1>10, <2>1
  <2> QED
    BY <1>1, <1>2, <1>10, <2>1, <2>2, <2>3, EvaluatesInv DEF a
<1> QED
  BY <1>11, <1>12

\* The variable arguments are copied above the operands.
LEMMA VarArgsInv ==
  ASSUME StackInv, NEW vals \in Operands, NEW count \in Counts, VarArgs(vals, count)
  PROVE  StackInv'
<1> DEFINE a == Floor(f)
           l == Len(stack)
           b == f.base
           o == f.bottom
           n == nact
           v == Len(vals)
           st == Evaluated(vals)
           at == Register(nact + Len(vals))
<1>1. /\ InLua /\ Fixed /\ ~f.is_variable /\ mem' = mem /\ UNCHANGED upvalues
  BY DEF VarArgs, Fixed
<1>2. /\ a \in Nat /\ l \in Nat /\ a <= l /\ stack \in Seq(Values) /\ o \in Nat
      /\ frames \in Seq(Frame) /\ frames # << >> /\ f = Top(frames) /\ Formed(f) /\ f \in Frame
  BY <1>1, TopFacts DEF InLua, f
<1>3. /\ b \in Nat /\ n \in Nat /\ StackSize \in Nat /\ f.size = StackSize /\ o <= b
      /\ n <= StackSize /\ a = b + n /\ l = b + StackSize
  BY <1>1, LuaFacts
<1>4. vals \in Seq(Values) /\ v \in Nat /\ n + v <= StackSize
  BY <1>1, OperandValues
<1>5. st \in Seq(Values) /\ Len(st) = l /\ \A j \in 1..a : st[j] = stack[j]
  BY <1>1, <1>4, EvaluatedElements
<1>6. at = b + (n + v)
  BY DEF Register
<1> HIDE DEF a, l, b, o, n, v, st, at
<1>7. at \in Nat /\ a <= at /\ at <= l /\ b <= l
  BY ONLY <1>2, <1>3, <1>4, <1>6
<1>8. CASE count # Variable
  <2> DEFINE t == [i \in 1..Len(st) |->
                    IF i - 1 \in at..(at + count - 1)
                    THEN (IF i - 1 - at < b - o THEN st[o + i - at] ELSE Nil)
                    ELSE st[i]]
  <2>1. stack' = t /\ frames' = frames
    BY <1>8 DEF VarArgs, at, b, o, st, Variable
  <2>2. ASSUME NEW i \in 1..l PROVE t[i] \in Values
    <3>1. CASE i - 1 \in at..(at + count - 1) /\ i - 1 - at < b - o
      <4>1. o + i - at \in 1..l
        BY ONLY <1>2, <1>3, <1>7, <3>1, i \in 1..l
      <4>2. st[o + i - at] \in Values
        BY <1>5, <4>1
      <4> QED
        BY <1>5, <3>1, <4>2
    <3>2. CASE i - 1 \in at..(at + count - 1) /\ ~(i - 1 - at < b - o)
      BY <1>5, <3>2 DEF Values
    <3>3. CASE i - 1 \notin at..(at + count - 1)
      BY <1>5, <3>3
    <3> QED
      BY <3>1, <3>2, <3>3
  <2>3. ASSUME NEW j \in 1..a PROVE t[j] = stack[j]
    <3>1. j \in 1..l /\ j - 1 \notin at..(at + count - 1)
      BY ONLY <1>2, <1>7, j \in 1..a
    <3> QED
      BY <1>5, <3>1
  <2>4. t \in Seq(Values) /\ Len(t) = l
    BY <1>2, <1>5, <2>2
  <2> HIDE DEF t
  <2>5. SetTop(frames, f) = frames
    BY <1>2, SetTopSame
  <2>6. Alike(f, f)
    BY DEF Alike
  <2>7. a <= Len(t) /\ Len(t) = f.base + f.size
    BY <1>2, <1>3, <2>4 DEF b
  <2> QED
    BY <1>1, <1>2, <2>1, <2>3, <2>4, <2>5, <2>6, <2>7, EvaluatesInv DEF a
<1>9. CASE count = Variable
  <2> DEFINE h == [f EXCEPT !.is_variable = TRUE]
             p == Truncate(st, at)
             q == SubSeq(st, o + 1, b)
             t == p \o q
  <2>1. stack' = t /\ frames' = SetTop(frames, h)
    BY <1>9 DEF VarArgs, at, b, o, st
  <2>2. Formed(h) /\ Alike(f, h) /\ h.is_variable = TRUE
    BY <1>1, VariableFormed
  <2>3. /\ p \in Seq(Values) /\ Len(p) = (IF at < Len(st) THEN at ELSE Len(st))
        /\ \A j \in 1..Len(p) : p[j] = st[j]
    BY <1>5, <1>7, TruncateElements
  <2>4. q \in Seq(Values)
    <3>1. \A i \in (o + 1)..b : i \in 1..Len(st)
      BY <1>2, <1>3, <1>5, <1>7
    <3>2. \A i \in (o + 1)..b : st[i] \in Values
      BY <1>5, <3>1
    <3> QED
      BY <1>2, <1>3, <3>2
  <2> HIDE DEF h, p, q
  <2>5. Len(p) = at
    BY <1>2, <1>5, <1>7, <2>3
  <2>6. t \in Seq(Values) /\ Len(t) = at + Len(q) /\ \A j \in 1..at : t[j] = p[j]
    <3>1. p \in Seq(Values)
      BY <2>3
    <3> QED
      BY <2>4, <2>5, <3>1, ConcatElements
  <2>7. Len(q) \in Nat
    BY <2>4
  <2> HIDE DEF t
  <2>8. a <= Len(t)
    BY <1>2, <1>7, <2>6, <2>7
  <2>9. ASSUME NEW j \in 1..a PROVE t[j] = stack[j]
    <3>1. j \in 1..at
      BY <1>2, <1>7
    <3> QED
      BY <1>5, <2>3, <2>5, <2>6, <3>1
  <2> QED
    BY <1>1, <2>1, <2>2, <2>6, <2>8, <2>9, EvaluatesInv DEF a
<1> QED
  BY <1>8, <1>9

\* A Lua frame calls, and waits for what it expects.
LEMMA CallsInv ==
  ASSUME StackInv, InLua, UNCHANGED upvalues,
         NEW e \in [tag : Tags, n : Nat \cup {Variable}], e.tag = "MetaRegister" => e.n \in Nat,
         NEW t \in Seq(Values), NEW bottom \in Floor(f)..Len(t),
         \A j \in 1..Floor(f) : t[j] = stack[j],
         NEW fn \in Functions, NEW fixed \in FixedParams, Room(frames, fixed),
         PushCall(SetTop(frames, [f EXCEPT !.expect = e]), t, bottom, fn, fixed)
  PROVE  StackInv'
<1> DEFINE h == [f EXCEPT !.expect = e]
<1>1. Formed(h) /\ Alike(f, h)
  BY ExpectFormed
<1>2. fixed <= Cardinality(FreeCells)
  BY DEF Room
<1> HIDE DEF h
<1>3. Waiting(SetTop(frames, h), bottom, t)
  BY <1>1, CallerWaits
<1>4. PushCall(SetTop(frames, h), t, bottom, fn, fixed)
  BY DEF h
<1> QED
  BY <1>2, <1>3, <1>4, PushCallInv

\* The function that a call instruction finds, and its arguments.
LEMMA CallableFacts ==
  ASSUME StackInv, NEW vals \in Operands, NEW func, NEW args \in Counts \cup Nat,
         Callable(vals, func, args)
  PROVE  /\ InLua /\ frames # << >> /\ vals \in Seq(Values) /\ Len(vals) \in Nat
         /\ Register(func) \in Nat /\ Floor(f) <= Register(func) /\ Register(func) < Len(stack)
         /\ ArgCount(Register(func), args) \in Nat
         /\ Register(func) + 1 + ArgCount(Register(func), args) <= Len(stack)
         /\ Evaluated(vals)[Register(func) + 1] \in Functions
         /\ Floor(f) \in Nat /\ Len(stack) \in Nat
<1> DEFINE fi == Register(func)
           l == Len(stack)
           b == f.base
           n == nact
           v == Len(vals)
<1>1. /\ InLua /\ f.is_variable = (args = Variable) /\ func \in n..(StackSize - 1) /\ fi < l
      /\ (args # Variable => func + 1 + args = n + v)
      /\ Evaluated(vals)[fi + 1] \in Functions
  BY DEF Callable, Temporaries
<1>2. /\ b \in Nat /\ n \in Nat /\ StackSize \in Nat /\ n <= StackSize /\ Floor(f) = b + n
      /\ (Fixed => l = b + StackSize) /\ frames # << >>
  BY <1>1, LuaFacts
<1>3. vals \in Seq(Values) /\ v \in Nat /\ (Fixed => n + v <= StackSize)
  BY <1>1, OperandValues
<1>4. fi = b + func /\ l \in Nat
  BY <1>1, TopFacts DEF Register, InLua
<1> HIDE DEF fi, l, b, n, v
<1>5. fi \in Nat /\ b + n <= fi
  BY ONLY <1>1, <1>2, <1>4
<1>6. ArgCount(fi, args) \in Nat /\ fi + 1 + ArgCount(fi, args) <= l
  <2>1. CASE args = Variable
    <3>1. ArgCount(fi, args) = l - fi - 1
      BY <2>1 DEF ArgCount, l
    <3> QED
      BY <1>1, <1>4, <1>5, <3>1
  <2>2. CASE args # Variable
    <3>1. ArgCount(fi, args) = args /\ Fixed
      BY <1>1, <2>2 DEF ArgCount, Fixed
    <3>2. args \in Nat
      BY <2>2, StackAssumption DEF Variable
    <3>3. /\ l = b + StackSize /\ n + v <= StackSize /\ func + 1 + args = n + v
      BY <1>1, <1>2, <1>3, <2>2, <3>1
    <3>4. fi + 1 + args <= l
      BY ONLY <1>1, <1>2, <1>3, <1>4, <3>2, <3>3
    <3> QED
      BY <3>1, <3>2, <3>4
  <2> QED
    BY <2>1, <2>2
<1> QED
  BY <1>1, <1>2, <1>3, <1>4, <1>5, <1>6 DEF fi, l, v

\* A slice of the stack.
LEMMA SliceValues ==
  ASSUME NEW s \in Seq(Values), NEW i \in Nat, NEW j \in Nat, j <= Len(s)
  PROVE  SubSeq(s, i + 1, j) \in Seq(Values)
<1>1. \A k \in (i + 1)..j : k \in 1..Len(s)
  OBVIOUS
<1>2. \A k \in (i + 1)..j : s[k] \in Values
  BY <1>1
<1> QED
  BY <1>2

\* A call: the arguments move down onto the function.
LEMMA CallFunctionInv ==
  ASSUME StackInv, NEW vals \in Operands, NEW func, NEW args \in Counts, NEW returns \in Counts,
         NEW fixed \in FixedParams, CallFunction(vals, func, args, returns, fixed)
  PROVE  StackInv'
<1> DEFINE fi == Register(func)
           st == Evaluated(vals)
           a == Floor(f)
           p == Truncate(st, fi)
           q == From(st, fi + 1)
           u == p \o q
           n == fi + ArgCount(fi, args)
           t == Truncate(u, n)
           e == Expect("Normal", returns)
<1>1. /\ Callable(vals, func, args) /\ Room(frames, fixed) /\ UNCHANGED upvalues
      /\ PushCall(SetTop(frames, [f EXCEPT !.expect = e]), t, fi, st[fi + 1], fixed)
  BY DEF CallFunction
<1>2. /\ InLua /\ vals \in Seq(Values) /\ fi \in Nat /\ a <= fi /\ fi < Len(stack)
      /\ st[fi + 1] \in Functions /\ a \in Nat /\ Len(stack) \in Nat
      /\ ArgCount(fi, args) \in Nat
  BY <1>1, CallableFacts
<1>3. st \in Seq(Values) /\ Len(st) = Len(stack) /\ \A j \in 1..a : st[j] = stack[j]
  BY <1>2, EvaluatedElements
<1>4. e \in [tag : Tags, n : Nat \cup {Variable}] /\ (e.tag = "MetaRegister" => e.n \in Nat)
  <2>1. returns \in Nat \cup {Variable}
    BY StackAssumption DEF Variable
  <2> QED
    BY <2>1 DEF Expect, Tags
<1>5. n \in Nat /\ fi <= n
  BY <1>2
<1> HIDE DEF fi, st, a, n, e
<1>6. /\ p \in Seq(Values) /\ Len(p) = (IF fi < Len(st) THEN fi ELSE Len(st))
      /\ \A j \in 1..Len(p) : p[j] = st[j]
  BY <1>2, <1>3, TruncateElements
<1>7. q \in Seq(Values) /\ Len(q) \in Nat
  <2>1. fi + 1 \in 0..Len(st)
    BY <1>2, <1>3
  <2>2. q \in Seq(Values)
    BY <1>3, <2>1, FromElements
  <2> QED
    BY <2>2
<1> HIDE DEF p, q
<1>8. Len(p) = fi /\ p \in Seq(Values)
  BY <1>2, <1>3, <1>6
<1>9. u \in Seq(Values) /\ Len(u) = fi + Len(q) /\ \A j \in 1..fi : u[j] = p[j]
  BY <1>7, <1>8, ConcatElements
<1> HIDE DEF u
<1>10. /\ t \in Seq(Values) /\ Len(t) = (IF n < Len(u) THEN n ELSE Len(u))
       /\ \A j \in 1..Len(t) : t[j] = u[j]
  BY <1>5, <1>9, TruncateElements
<1> HIDE DEF t
<1>11. fi \in a..Len(t)
  BY <1>2, <1>5, <1>7, <1>9, <1>10
<1>12. ASSUME NEW j \in 1..a PROVE t[j] = stack[j]
  <2>1. j \in 1..fi /\ j \in 1..Len(t)
    BY <1>2, <1>11
  <2> QED
    BY <1>3, <1>6, <1>8, <1>9, <1>10, <2>1
<1>13. \A j \in 1..Floor(f) : t[j] = stack[j]
  BY <1>12 DEF a
<1>14. fi \in Floor(f)..Len(t)
  BY <1>11 DEF a
<1>15. t \in Seq(Values)
  BY <1>10
<1> QED
  BY <1>1, <1>2, <1>4, <1>13, <1>14, <1>15, CallsInv

\* A call that keeps the function and its arguments, and copies these above them.
LEMMA CallFunctionKeepInv ==
  ASSUME StackInv, NEW vals \in Operands, NEW func, NEW returns \in Nat,
         NEW fixed \in FixedParams, CallFunctionKeep(vals, func, returns, fixed)
  PROVE  StackInv'
<1> DEFINE fi == Register(func)
           st == Evaluated(vals)
           a == Floor(f)
           top == fi + 1 + KeepArgs
           p == Truncate(st, top)
           q == SubSeq(st, fi + 2, top)
           t == p \o q
           e == Expect("Normal", returns)
<1>1. /\ Callable(vals, func, KeepArgs) /\ Room(frames, fixed) /\ UNCHANGED upvalues
      /\ PushCall(SetTop(frames, [f EXCEPT !.expect = e]), t, top, st[fi + 1], fixed)
  BY DEF CallFunctionKeep
<1>2. KeepArgs \in Nat /\ KeepArgs # Variable /\ KeepArgs \in Counts \cup Nat
  BY StackAssumption DEF Variable
<1>3. /\ InLua /\ vals \in Seq(Values) /\ fi \in Nat /\ a <= fi /\ fi < Len(stack)
      /\ st[fi + 1] \in Functions /\ a \in Nat /\ Len(stack) \in Nat
      /\ fi + 1 + ArgCount(fi, KeepArgs) <= Len(stack)
  BY <1>1, <1>2, CallableFacts
<1>4. ArgCount(fi, KeepArgs) = KeepArgs
  BY <1>2 DEF ArgCount
<1>5. st \in Seq(Values) /\ Len(st) = Len(stack) /\ \A j \in 1..a : st[j] = stack[j]
  BY <1>3, EvaluatedElements
<1>6. e \in [tag : Tags, n : Nat \cup {Variable}] /\ (e.tag = "MetaRegister" => e.n \in Nat)
  BY DEF Expect, Tags
<1> HIDE DEF fi, st, a, e
<1>7. q = SubSeq(st, (fi + 1) + 1, top)
  <2>1. fi + 2 = (fi + 1) + 1
    BY <1>3
  <2> QED
    BY <2>1
<1>8. top \in Nat /\ top <= Len(st) /\ a <= top /\ fi + 1 \in Nat
  BY <1>2, <1>3, <1>4, <1>5
<1> HIDE DEF top
<1>9. /\ p \in Seq(Values) /\ Len(p) = (IF top < Len(st) THEN top ELSE Len(st))
      /\ \A j \in 1..Len(p) : p[j] = st[j]
  BY <1>5, <1>8, TruncateElements
<1>10. q \in Seq(Values) /\ Len(q) \in Nat
  <2>1. q \in Seq(Values)
    BY <1>5, <1>7, <1>8, SliceValues
  <2> QED
    BY <2>1
<1> HIDE DEF p, q
<1>11. Len(p) = top /\ p \in Seq(Values)
  BY <1>3, <1>5, <1>8, <1>9
<1>12. t \in Seq(Values) /\ Len(t) = top + Len(q) /\ \A j \in 1..top : t[j] = p[j]
  BY <1>10, <1>11, ConcatElements
<1> HIDE DEF t
<1>13. top \in a..Len(t)
  BY <1>3, <1>8, <1>10, <1>12
<1>14. ASSUME NEW j \in 1..a PROVE t[j] = stack[j]
  <2>1. j \in 1..top
    BY <1>3, <1>8
  <2> QED
    BY <1>5, <1>9, <1>11, <1>12, <2>1
<1>15. \A j \in 1..Floor(f) : t[j] = stack[j]
  BY <1>14 DEF a
<1>16. top \in Floor(f)..Len(t)
  BY <1>13 DEF a
<1> QED
  BY <1>1, <1>3, <1>6, <1>12, <1>15, <1>16, CallsInv

\* A metamethod is called above the whole window.
LEMMA CallMetaFunctionInv ==
  ASSUME StackInv, NEW fn \in Functions, NEW args \in Given, NEW fixed \in FixedParams,
         NEW ret \in {Expect("MetaNone", 0)} \cup {Expect("MetaRegister", r) : r \in Registers},
         CallMetaFunction(fn, args, ret, fixed)
  PROVE  StackInv'
<1> DEFINE t == stack \o args
<1>1. /\ InLua /\ Room(frames, fixed) /\ UNCHANGED upvalues
      /\ PushCall(SetTop(frames, [f EXCEPT !.expect = ret]), t, Len(stack), fn, fixed)
  BY DEF CallMetaFunction, Fixed
<1>2. /\ stack \in Seq(Values) /\ used \subseteq UpVals /\ Len(stack) \in Nat
      /\ Floor(f) \in Nat /\ Floor(f) <= Len(stack)
  BY <1>1, TopFacts DEF InLua
<1>3. args \in Seq(Values) /\ Len(args) \in Nat
  BY <1>2, GivenValues
<1>4. t \in Seq(Values) /\ Len(t) = Len(stack) + Len(args) /\ \A j \in 1..Len(stack) : t[j] = stack[j]
  BY <1>2, <1>3, ConcatElements
<1>5. ret \in [tag : Tags, n : Nat \cup {Variable}] /\ (ret.tag = "MetaRegister" => ret.n \in Nat)
  <2>1. \A r \in Registers : r \in Nat
    BY StackAssumption DEF Registers
  <2> QED
    BY <2>1 DEF Expect, Tags
<1> HIDE DEF t
<1>6. Len(stack) \in Floor(f)..Len(t)
  BY <1>2, <1>3, <1>4
<1>7. \A j \in 1..Floor(f) : t[j] = stack[j]
  <2>1. \A j \in 1..Floor(f) : j \in 1..Len(stack)
    BY <1>2
  <2> QED
    BY <1>4, <2>1
<1> QED
  BY <1>1, <1>4, <1>5, <1>6, <1>7, CallsInv

\* The Lua frame is left: its upvalues are closed, and what is below it waits.
LEMMA LeavesWaiting ==
  ASSUME StackInv, InLua, CloseFrom(f.bottom), NEW t \in Seq(Values), f.bottom <= Len(t),
         \A j \in 1..f.bottom : t[j] = stack[j]
  PROVE  Waiting(Pop(frames), f.bottom, t)
<1> DEFINE q == Pop(frames)
           b == f.bottom
<1>1. /\ frames # << >> /\ f.kind = "Lua" /\ b \in Nat /\ q \in Seq(Frame) /\ Covered(q)
      /\ (q = << >> => b = 0) /\ b = Top(frames).bottom
  BY TopFacts DEF InLua, f
<1>2. used' = used /\ cell_of' = cell_of
  BY DEF CloseFrom
<1>3. b \in b..Len(t)
  BY <1>1
<1>4. FramesInv(q, b, t, mem)
  BY <1>1, <1>3, BelowPop
<1>5. Cut(q, frames, b)
  BY <1>1, CutPop DEF StackInv
<1>6. UpValuesInv(q, mem, open_upvalues', upval', used', cell_of')
  <2> HIDE DEF q, b
  <2>1. CloseFrom(b)
    BY DEF b
  <2> QED
    BY <1>1, <1>5, <2>1, CloseCut DEF StackInv
<1>7. Occupied(q)
  BY <1>1, OccupiedPop
<1> HIDE DEF q, b
<1>8. Waiting(q, b, t)
  BY <1>1, <1>2, <1>4, <1>6, <1>7 DEF Waiting
<1> QED
  BY <1>8 DEF q, b

\* t is the stack as far as the bottom of the frame on top.
AsBelow(t) ==
  t \in Seq(Values) /\ f.bottom <= Len(t) /\ \A j \in 1..f.bottom : t[j] = stack[j]

\* What it passes on is copied down to its bottom.
LEMMA CopiedDown ==
  ASSUME StackInv, InLua, NEW vals \in Seq(Values), NEW from \in Nat, NEW n \in Nat,
         from + n <= Len(stack), NEW t,
         t = Truncate(CopyWithin(Evaluated(vals), from, n, f.bottom), f.bottom + n)
  PROVE  AsBelow(t)
<1> DEFINE b == f.bottom
           a == Floor(f)
           l == Len(stack)
           st == Evaluated(vals)
           c == CopyWithin(st, from, n, b)
<1>1. a \in Nat /\ b \in Nat /\ l \in Nat /\ b <= a /\ a <= l
  BY TopFacts DEF InLua
<1>2. st \in Seq(Values) /\ Len(st) = l /\ \A j \in 1..a : st[j] = stack[j]
  BY EvaluatedElements
<1> HIDE DEF a, b, l, st
<1>3. from + n <= Len(st)
  BY <1>2 DEF l
<1>4. /\ c \in Seq(Values) /\ Len(c) = Len(st)
      /\ \A j \in 1..Len(st) : j <= b => c[j] = st[j]
  <2>1. KeptBelow(c, st, b)
    BY <1>1, <1>2, <1>3, CopyElements
  <2> QED
    BY <2>1 DEF KeptBelow
<1>5. t = Truncate(c, b + n) /\ b + n \in Nat
  BY <1>1 DEF b, st
<1> HIDE DEF c
<1>6. /\ t \in Seq(Values) /\ Len(t) = (IF b + n < Len(c) THEN b + n ELSE Len(c))
      /\ \A j \in 1..Len(t) : t[j] = c[j]
  BY <1>4, <1>5, TruncateElements
<1>7. b <= Len(t)
  BY <1>1, <1>2, <1>4, <1>6
<1>8. ASSUME NEW j \in 1..b PROVE t[j] = stack[j]
  <2>1. j \in 1..Len(t) /\ j \in 1..l /\ j \in 1..a /\ j <= b
    <3>1. Len(t) \in Nat
      BY <1>6
    <3> QED
      BY <1>1, <1>7, <3>1
  <2> QED
    BY <1>2, <1>4, <1>6, <2>1
<1> QED
  BY <1>6, <1>7, <1>8 DEF b, AsBelow

\* A tail call.
LEMMA TailCallFunctionInv ==
  ASSUME StackInv, NEW vals \in Operands, NEW func, NEW args \in Counts, NEW fixed \in FixedParams,
         TailCallFunction(vals, func, args, fixed)
  PROVE  StackInv'
<1> DEFINE fi == Register(func)
           n == ArgCount(fi, args)
           fn == Evaluated(vals)[fi + 1]
           t == TailCallStack(vals, func, args)
<1>1. /\ Callable(vals, func, args) /\ Room(Pop(frames), fixed) /\ CloseFrom(f.bottom)
      /\ PushCall(Pop(frames), t, f.bottom, fn, fixed)
  BY DEF TailCallFunction
<1>2. /\ InLua /\ vals \in Seq(Values) /\ fi \in Nat /\ n \in Nat /\ fi + 1 + n <= Len(stack)
      /\ fn \in Functions
  BY <1>1, CallableFacts
<1>3. t = Truncate(CopyWithin(Evaluated(vals), fi + 1, n, f.bottom), f.bottom + n)
  BY DEF TailCallStack
<1> HIDE DEF fi, n, fn, t
<1>4. AsBelow(t)
  <2> DEFINE p == fi + 1
  <2>1. p \in Nat /\ p + n <= Len(stack)
    BY <1>2
  <2>2. t = Truncate(CopyWithin(Evaluated(vals), p, n, f.bottom), f.bottom + n)
    BY <1>3
  <2>3. InLua /\ vals \in Seq(Values) /\ n \in Nat
    BY <1>2
  <2> HIDE DEF p
  <2> QED
    BY <2>1, <2>2, <2>3, CopiedDown
<1>5. Waiting(Pop(frames), f.bottom, t)
  BY <1>1, <1>2, <1>4, LeavesWaiting DEF AsBelow
<1>6. fixed <= Cardinality(FreeCells)
  BY <1>1 DEF Room
<1> QED
  BY <1>1, <1>2, <1>5, <1>6, PushCallInv

\* A return.
LEMMA ReturnUpperInv ==
  ASSUME StackInv, NEW vals \in Operands, NEW start \in Registers, NEW count \in Counts,
         ReturnUpper(vals, start, count)
  PROVE  StackInv'
<1> DEFINE at == Register(start)
           l == Len(stack)
           b == f.base
           m == nact
           v == Len(vals)
           n == IF count = Variable THEN l - at ELSE count
           t == ReturnStack(vals, start, count)
<1>1. /\ InLua /\ f.is_variable = (count = Variable) /\ at <= l /\ CloseFrom(f.bottom)
      /\ (count # Variable => start + count <= m + v)
      /\ ReturnTo(Pop(frames), t, f.bottom)
  BY DEF ReturnUpper, Returnable
<1>2. vals \in Seq(Values) /\ v \in Nat /\ (Fixed => m + v <= StackSize)
  BY <1>1, OperandValues
<1>3. /\ l \in Nat /\ b \in Nat /\ m \in Nat /\ StackSize \in Nat /\ (Fixed => l = b + StackSize)
  BY <1>1, LuaFacts, TopFacts DEF InLua
<1>4. t = Truncate(CopyWithin(Evaluated(vals), at, n, f.bottom), f.bottom + n)
  BY DEF ReturnStack
<1>5. at = b + start /\ start \in Nat
  BY StackAssumption DEF Register, Registers
<1> HIDE DEF at, l, b, m, v, t
<1>6. at \in Nat /\ n \in Nat /\ at + n <= l
  <2>1. at \in Nat
    BY <1>3, <1>5
  <2>2. CASE count = Variable
    <3>1. n = l - at
      BY <2>2
    <3>2. at <= l
      BY <1>1
    <3> HIDE DEF n
    <3> QED
      BY ONLY <1>3, <2>1, <3>1, <3>2
  <2>3. CASE count # Variable
    <3>1. n = count /\ n \in Nat /\ Fixed
      <4>1. n = count
        BY <2>3
      <4>2. count \in Nat
        BY <2>3, StackAssumption DEF Variable
      <4>3. Fixed
        BY <1>1, <2>3 DEF Fixed
      <4> HIDE DEF n
      <4> QED
        BY <4>1, <4>2, <4>3
    <3>2. start + n <= m + v /\ m + v <= StackSize /\ l = b + StackSize
      BY <1>1, <1>2, <1>3, <2>3, <3>1
    <3> HIDE DEF n
    <3>3. at + n <= l
      BY ONLY <1>2, <1>3, <1>5, <2>1, <3>1, <3>2
    <3> QED
      BY <2>1, <3>1, <3>3
  <2> QED
    BY <2>2, <2>3
<1> HIDE DEF n
<1>7. AsBelow(t)
  <2>1. InLua /\ vals \in Seq(Values) /\ at + n <= Len(stack)
    BY <1>1, <1>2, <1>6 DEF l
  <2> QED
    BY <1>4, <1>6, <2>1, CopiedDown
<1>8. Waiting(Pop(frames), f.bottom, t)
  BY <1>1, <1>7, LeavesWaiting DEF AsBelow
<1> QED
  BY <1>1, <1>8, ReturnToInv

-----------------------------------------------------------------------------
(* Instructions that assign variables. *)

\* A variable is assigned where it is.
LEMMA AssignInv ==
  ASSUME StackInv, frames # << >>, NEW i \in 1..Len(frames), NEW k \in 1..Len(frames[i].locals),
         NEW v \in Values, NEW a, a = frames[i].base + k - 1, NEW c, c = frames[i].locals[k],
         stack' = Write(stack, a, v), mem' = [mem EXCEPT ![c] = v], UNCHANGED <<frames, upvalues>>
  PROVE  StackInv'
<1>1. /\ frames \in Seq(Frame) /\ stack \in Seq(Values) /\ mem \in [Cells -> Values]
      /\ frames[i] \in Frame
  BY TopFacts
<1>2. a \in Nat
  <2>1. frames[i].base \in Nat /\ Len(frames[i].locals) \in Nat
    BY <1>1, FrameFields
  <2> QED
    BY <2>1
<1>3. Len(stack') = Len(stack)
  BY <1>1, <1>2, WriteElements
<1>4. FramesInv(frames, Len(stack), stack', mem')
  BY StoreFrames DEF StackInv
<1>5. UpValuesInv(frames, mem', open_upvalues, upval, used, cell_of)
  BY <1>1, StoreUpValues DEF StackInv
<1> QED
  BY <1>3, <1>4, <1>5 DEF StackInv, upvalues

\* A register of the frame on top is assigned.
LEMMA StoreInv ==
  ASSUME StackInv, InLua, NEW r \in Locals, NEW v \in Values, Store(r, v),
         UNCHANGED <<frames, upvalues>>
  PROVE  StackInv'
<1>1. /\ r < nact /\ r + 1 \in 1..nact /\ Register(r) = f.base + (r + 1) - 1
  BY LocalFacts
<1>2. frames # << >> /\ Len(frames) \in 1..Len(frames) /\ f = frames[Len(frames)]
  BY TopFacts DEF InLua
<1>3. stack' = Write(stack, Register(r), v) /\ mem' = [mem EXCEPT ![f.locals[r + 1]] = v]
  BY <1>1 DEF Store
<1>4. r + 1 \in 1..Len(frames[Len(frames)].locals)
  BY <1>1, <1>2 DEF nact
<1> QED
  BY <1>1, <1>2, <1>3, <1>4, AssignInv

\* An upvalue has the value of the variable it captured.
LEMMA UpValueValues ==
  ASSUME StackInv, NEW u \in used
  PROVE  /\ UpValueOf(u) \in Values /\ UpValueOf(u) = mem[cell_of[u]]
         /\ (upval[u].open => upval[u].ind < Len(stack))
<1>1. /\ upval[u] \in UpValue /\ Sees(frames, mem, upval[u], cell_of[u])
      /\ stack \in Seq(Values) /\ FramesInv(frames, Len(stack), stack, mem)
  BY DEF StackInv, UpValuesInv, FramesInv
<1>2. CASE upval[u].open
  <2> DEFINE i == upval[u].ind
  <2>1. /\ i + 1 \in 1..Len(stack) /\ stack[i + 1] = mem[cell_of[u]]
    BY <1>1, <1>2, PlaceHolds DEF Sees
  <2>2. i \in Nat /\ Len(stack) \in Nat
    BY <1>1 DEF UpValue
  <2>3. UpValueOf(u) = stack[i + 1]
    BY <1>2 DEF UpValueOf
  <2> HIDE DEF i
  <2>4. i < Len(stack)
    BY <2>1, <2>2
  <2>5. stack[i + 1] \in Values
    BY <1>1, <2>1
  <2> QED
    BY <2>1, <2>3, <2>4, <2>5 DEF i
<1>3. CASE ~upval[u].open
  BY <1>1, <1>3 DEF UpValueOf, Sees, UpValue
<1> QED
  BY <1>2, <1>3

\* The upvalue of the running closure exists, and is below its frame.
LEMMA FnUsed ==
  ASSUME StackInv, InLua, f.fn \in UpVals
  PROVE  f.fn \in used /\ f.fn \in Values
<1>1. Len(frames) \in 1..Len(frames) /\ f = frames[Len(frames)]
  BY TopFacts DEF InLua
<1>2. Outside(f, upval, used)
  BY <1>1 DEF StackInv, UpValuesInv
<1> QED
  BY <1>2, StackAssumption DEF Outside, Values

\* A constant, or another register.
LEMMA SetRegisterInv ==
  ASSUME StackInv, NEW v \in Readable, NEW r, SetRegister(r, v)
  PROVE  StackInv'
<1>1. InLua /\ r \in Locals /\ Store(r, v) /\ UNCHANGED <<frames, upvalues>>
  BY DEF SetRegister, Fixed
<1>2. v \in Values
  BY <1>1, LocalFacts DEF Readable, Values
<1> QED
  BY <1>1, <1>2, StoreInv

\* The value of the upvalue.
LEMMA GetUpValueInv ==
  ASSUME StackInv, NEW dest, GetUpValue(dest)
  PROVE  StackInv'
<1>1. /\ InLua /\ dest \in Locals /\ Store(dest, UpValueOf(f.fn)) /\ f.fn \in UpVals
      /\ UNCHANGED <<frames, upvalues>>
  BY DEF GetUpValue, Fixed
<1>2. UpValueOf(f.fn) \in Values
  BY <1>1, FnUsed, UpValueValues
<1> QED
  BY <1>1, <1>2, StoreInv

\* A closure over the upvalue.
LEMMA ClosureOuterInv ==
  ASSUME StackInv, NEW dest, ClosureOuter(dest)
  PROVE  StackInv'
<1>1. /\ InLua /\ dest \in Locals /\ Store(dest, f.fn) /\ f.fn \in UpVals
      /\ UNCHANGED <<frames, upvalues>>
  BY DEF ClosureOuter, Fixed
<1> QED
  BY <1>1, FnUsed, StoreInv

\* The upvalue is assigned: on the stack while it is open.
LEMMA SetUpValueInv ==
  ASSUME StackInv, NEW source, SetUpValue(source)
  PROVE  StackInv'
<1> DEFINE u == f.fn
           v == stack[Register(source) + 1]
           c == cell_of[u]
<1>1. /\ InLua /\ source \in Locals /\ u \in UpVals /\ mem' = [mem EXCEPT ![c] = v]
      /\ UNCHANGED <<frames, open_upvalues, used, cell_of>>
      /\ (upval[u].open => stack' = Write(stack, upval[u].ind, v) /\ UNCHANGED upval)
      /\ (~upval[u].open => upval' = [upval EXCEPT ![u].val = v] /\ UNCHANGED stack)
  BY DEF SetUpValue, Fixed
<1>2. u \in used /\ v \in Values /\ frames # << >>
  BY <1>1, FnUsed, LocalFacts DEF InLua
<1>3. UpValuesInv(frames, mem, open_upvalues, upval, used, cell_of) /\ FramesInv(frames, Len(stack), stack, mem)
  BY DEF StackInv
<1>4. Sees(frames, mem, upval[u], c)
  BY <1>2, <1>3 DEF UpValuesInv
<1> HIDE DEF u, v
<1>5. CASE upval[u].open
  <2>1. PICK i \in 1..Len(frames) : \E k \in 1..Len(frames[i].locals) :
          upval[u].ind = frames[i].base + k - 1 /\ c = frames[i].locals[k]
    BY <1>4, <1>5 DEF Sees, Placed
  <2>2. PICK k \in 1..Len(frames[i].locals) :
          upval[u].ind = frames[i].base + k - 1 /\ c = frames[i].locals[k]
    BY <2>1
  <2> HIDE DEF c
  <2>3. UNCHANGED <<frames, upvalues>>
    BY <1>1, <1>5 DEF upvalues
  <2> QED
    BY <1>1, <1>2, <1>5, <2>2, <2>3, AssignInv
<1>6. CASE ~upval[u].open
  <2>1. /\ used \subseteq UpVals /\ open_upvalues \in Seq(used) /\ upval \in [UpVals -> UpValue]
        /\ cell_of \in [UpVals -> Cells] /\ mem \in [Cells -> Values]
    BY <1>3 DEF UpValuesInv, FramesInv
  <2>2. Gone(frames, c) /\ c \in Cells
    BY <1>1, <1>4, <1>6, <2>1 DEF Sees
  <2>3. FramesInv(frames, Len(stack), stack, mem')
    BY <1>1, <1>2, <1>3, <2>2, StoreGone
  <2>4. upval' = [upval EXCEPT ![u].val = v] /\ stack' = stack
    BY <1>1, <1>6
  <2>5. /\ upval' \in [UpVals -> UpValue]
        /\ \A w \in UpVals : upval'[w].open = upval[w].open /\ upval'[w].ind = upval[w].ind
        /\ \A w \in UpVals : w # u => upval'[w] = upval[w]
        /\ upval'[u].val = v
    BY <1>1, <1>2, <2>1, <2>4 DEF UpValue
  <2>6. Sorted(open_upvalues, upval')
    <3>1. \A i \in 1..Len(open_upvalues) : open_upvalues[i] \in UpVals
      BY <2>1
    <3> QED
      BY <1>3, <2>5, <3>1 DEF UpValuesInv, Sorted
  <2>7. \A w \in used : upval'[w].open <=> Listed(open_upvalues, w)
    BY <1>3, <2>1, <2>5 DEF UpValuesInv
  <2>8. ASSUME NEW w \in used PROVE Sees(frames, mem', upval'[w], cell_of[w])
    <3>1. Sees(frames, mem, upval[w], cell_of[w])
      BY <1>3 DEF UpValuesInv
    <3>2. CASE w = u
      BY <1>1, <1>6, <2>1, <2>2, <2>5, <3>2 DEF Sees
    <3>3. CASE w # u
      <4>1. cell_of[w] # c
        BY <1>2, <1>3, <3>3 DEF UpValuesInv
      <4>2. mem'[cell_of[w]] = mem[cell_of[w]] /\ upval'[w] = upval[w]
        BY <1>1, <2>1, <2>5, <3>3, <4>1
      <4> QED
        BY <3>1, <4>2 DEF Sees
    <3> QED
      BY <3>2, <3>3
  <2>9. \A i \in 1..Len(frames) : Outside(frames[i], upval', used)
    BY <1>3, <2>1, <2>5 DEF UpValuesInv, Outside
  <2>10. UpValuesInv(frames, mem', open_upvalues, upval', used, cell_of)
    BY <1>3, <2>1, <2>5, <2>6, <2>7, <2>8, <2>9 DEF UpValuesInv
  <2> QED
    BY <1>1, <2>3, <2>4, <2>10 DEF StackInv
<1> QED
  BY <1>5, <1>6

\* No variable of the frame on top is in another register.
LEMMA TopFresh ==
  ASSUME NEW fs \in Seq(Frame), fs # << >>, Apart(fs)
  PROVE  Fresh(Pop(fs), Top(fs))
<1> DEFINE q == Pop(fs)
           g == Top(fs)
           l == Len(fs)
<1>1. /\ l \in Nat /\ l > 0 /\ Len(q) = l - 1 /\ g = fs[l] /\ \A i \in 1..(l - 1) : q[i] = fs[i]
  BY NonEmpty, PopElements DEF Top
<1> HIDE DEF q, g, l
<1>2. l \in 1..l /\ \A i \in 1..Len(q) : i \in 1..l /\ i # l /\ q[i] = fs[i]
  BY <1>1
<1>3. ASSUME NEW j \in 1..Len(g.locals), NEW k \in 1..Len(g.locals), g.locals[j] = g.locals[k]
      PROVE  j = k
  BY <1>1, <1>2, <1>3 DEF Apart, l
<1>4. ASSUME NEW k \in 1..Len(g.locals), NEW i \in 1..Len(q), NEW j \in 1..Len(q[i].locals)
      PROVE  q[i].locals[j] # g.locals[k]
  <2>1. i \in 1..l /\ i # l /\ q[i] = fs[i]
    BY <1>2
  <2>2. j \in 1..Len(fs[i].locals) /\ k \in 1..Len(fs[l].locals)
    BY <1>1, <2>1
  <2>3. fs[i].locals[j] # fs[l].locals[k]
    BY <1>2, <2>1, <2>2 DEF Apart, l
  <2> QED
    BY <1>1, <2>1, <2>3
<1>5. Fresh(q, g)
  BY <1>3, <1>4 DEF Fresh, Gone
<1> QED
  BY <1>5 DEF q, g

\* The frame on top gets or loses variables.
LEMMA TopLocals ==
  ASSUME StackInv, InLua, NEW h, Formed(h), h.bottom = f.bottom, NEW t \in Seq(Values),
         NEW m \in [Cells -> Values], Floor(h) <= Len(t), \A j \in 1..f.bottom : t[j] = stack[j],
         Keeps(Pop(frames), mem, m), Fresh(Pop(frames), h), Holds(h, t, m)
  PROVE  FramesInv(SetTop(frames, h), Len(t), t, m)
<1> DEFINE b == f.bottom
<1>1. /\ frames # << >> /\ b \in Nat /\ Floor(h) \in Nat /\ h.bottom <= Floor(h) /\ h \in Frame
  BY TopFacts, FormedFields, FrameFields DEF InLua
<1> HIDE DEF b
<1>2. b \in b..Len(t) /\ Len(t) \in Floor(h)..Len(t) /\ b <= h.bottom
  <2>1. h.bottom = b /\ Len(t) \in Nat
    BY DEF b
  <2> QED
    BY <1>1, <2>1
<1>3. FramesInv(Pop(frames), b, t, mem)
  BY <1>1, <1>2, BelowPop DEF b
<1>4. FramesInv(Append(Pop(frames), h), Len(t), t, m)
  BY <1>2, <1>3, PushFrame
<1> QED
  BY <1>4 DEF SetTop

\* The frame on top gets variables that no closure has captured.
LEMMA GrowUpValues ==
  ASSUME NEW fs \in Seq(Frame), fs # << >>, NEW m, NEW ou, NEW uv, NEW us, NEW co,
         UpValuesInv(fs, m, ou, uv, us, co), NEW h \in Frame, h.base = Top(fs).base,
         h.bottom = Top(fs).bottom, h.fn = Top(fs).fn,
         \A k \in 1..Len(Top(fs).locals) :
           k \in 1..Len(h.locals) /\ h.locals[k] = Top(fs).locals[k],
         \A k \in 1..Len(h.locals) : k \in 1..Len(Top(fs).locals) \/ \A u \in us : h.locals[k] # co[u]
  PROVE  UpValuesInv(SetTop(fs, h), m, ou, uv, us, co)
<1> DEFINE q == SetTop(fs, h)
           g == Top(fs)
           l == Len(fs)
<1>1. /\ l \in Nat /\ l > 0 /\ g = fs[l] /\ Len(q) = l /\ q[l] = h
      /\ \A i \in 1..(l - 1) : q[i] = fs[i]
  BY NonEmpty, SetTopElements DEF Top
<1> HIDE DEF q, g, l
<1>2. l \in 1..l /\ \A i \in 1..l : i = l \/ (i # l /\ q[i] = fs[i])
  BY <1>1
<1>3. /\ h.base = g.base /\ h.bottom = g.bottom /\ h.fn = g.fn
      /\ \A k \in 1..Len(g.locals) : k \in 1..Len(h.locals) /\ h.locals[k] = g.locals[k]
      /\ \A k \in 1..Len(h.locals) : k \in 1..Len(g.locals) \/ \A u \in us : h.locals[k] # co[u]
  BY DEF g
<1>4. ASSUME NEW u \in us, Placed(fs, uv[u], co[u]) PROVE Placed(q, uv[u], co[u])
  <2>1. PICK i \in 1..l : \E k \in 1..Len(fs[i].locals) :
          uv[u].ind = fs[i].base + k - 1 /\ co[u] = fs[i].locals[k]
    BY <1>4 DEF Placed, l
  <2>2. PICK k \in 1..Len(fs[i].locals) :
          uv[u].ind = fs[i].base + k - 1 /\ co[u] = fs[i].locals[k]
    BY <2>1
  <2>3. k \in 1..Len(q[i].locals) /\ q[i].base = fs[i].base /\ q[i].locals[k] = fs[i].locals[k]
    <3>1. CASE i = l
      BY <1>1, <1>3, <3>1
    <3>2. CASE i # l
      BY <1>2, <3>2
    <3> QED
      BY <3>1, <3>2
  <2> QED
    BY <1>1, <2>2, <2>3 DEF Placed
<1>5. ASSUME NEW u \in us, Gone(fs, co[u]) PROVE Gone(q, co[u])
  <2>1. ASSUME NEW i \in 1..l, NEW k \in 1..Len(q[i].locals) PROVE q[i].locals[k] # co[u]
    <3>1. CASE i # l
      BY <1>2, <1>5, <3>1 DEF Gone, l
    <3>2. CASE i = l
      <4>1. k \in 1..Len(h.locals) /\ q[i] = h
        BY <1>1, <3>2
      <4>2. CASE k \in 1..Len(g.locals)
        BY <1>1, <1>2, <1>3, <1>5, <4>1, <4>2 DEF Gone, l
      <4>3. CASE k \notin 1..Len(g.locals)
        BY <1>3, <4>1, <4>3
      <4> QED
        BY <4>2, <4>3
    <3> QED
      BY <3>1, <3>2
  <2> QED
    BY <1>1, <2>1 DEF Gone
<1>6. \A u \in us : Sees(q, m, uv[u], co[u])
  <2>1. ASSUME NEW u \in us PROVE Sees(q, m, uv[u], co[u])
    <3>1. Sees(fs, m, uv[u], co[u])
      BY DEF UpValuesInv
    <3> QED
      BY <1>4, <1>5, <3>1 DEF Sees
  <2> QED
    BY <2>1
<1>7. \A i \in 1..Len(q) : Outside(q[i], uv, us)
  <2>1. ASSUME NEW i \in 1..l PROVE Outside(q[i], uv, us)
    <3>1. Outside(fs[i], uv, us)
      BY DEF UpValuesInv, l
    <3>2. q[i].fn = fs[i].fn /\ q[i].bottom = fs[i].bottom
      BY <1>1, <1>2, <1>3
    <3> QED
      BY <3>1, <3>2 DEF Outside
  <2> QED
    BY <1>1, <2>1
<1>8. UpValuesInv(q, m, ou, uv, us, co)
  BY <1>6, <1>7 DEF UpValuesInv
<1> QED
  BY <1>8 DEF q

\* The lowest temporary becomes a variable.
LEMMA DeclareLocalInv ==
  ASSUME StackInv, NEW v \in Readable, DeclareLocal(v)
  PROVE  StackInv'
<1> DEFINE c == NewCells(1)[1]
           w == Len(frames)
           g == f
           h == [g EXCEPT !.locals = Append(g.locals, c)]
           n == nact
           a == Floor(f)
           l == Len(stack)
           t == Evaluated(<<v>>)
           q == Pop(frames)
           m == [mem EXCEPT ![c] = v]
           d == g.base
<1>1. /\ Fixed /\ InLua /\ n < StackSize /\ FreeCells # {} /\ stack' = t
      /\ frames' = SetTop(frames, h) /\ mem' = m /\ UNCHANGED upvalues
  BY DEF DeclareLocal, Fixed
<1>2. /\ frames \in Seq(Frame) /\ stack \in Seq(Values) /\ mem \in [Cells -> Values]
      /\ g \in Frame /\ Formed(g) /\ a \in Nat /\ a <= l /\ frames # << >> /\ l \in Nat
      /\ g = Top(frames) /\ g.bottom <= a /\ g.bottom \in Nat
      /\ frames[1].bottom = 0 /\ Len(frames) \in 1..Len(frames) /\ g = frames[Len(frames)]
  BY <1>1, TopFacts DEF InLua, f
<1>3. /\ n \in Nat /\ StackSize \in Nat /\ g.base \in Nat /\ a = g.base + n
      /\ l = g.base + StackSize /\ g.locals \in Seq(Cells) /\ g.kind = "Lua"
      /\ Register(nact) = a /\ n = Len(g.locals) /\ g.size = StackSize
  BY <1>1, LuaFacts DEF nact
<1>4. v \in Values
  BY <1>1, LocalFacts DEF Readable, Values
<1>5. c \in FreeCells
  <2>1. IsFiniteSet(FreeCells)
    <3>1. FreeCells \subseteq Cells
      BY DEF FreeCells
    <3> QED
      BY <3>1, StackAssumption, FS_Subset
  <2>2. Cardinality(FreeCells) \in Nat /\ Cardinality(FreeCells) # 0
    BY <1>1, <2>1, FS_CardinalityType, FS_EmptySet
  <2>3. 1 <= Cardinality(FreeCells) /\ 1 \in Nat /\ 1 \in 1..1
    BY <2>2
  <2> QED
    BY <2>3, NewCellsApart
<1>6. c \in Cells /\ Gone(frames, c) /\ \A u \in used : cell_of[u] # c
  BY <1>5, FreeCellsGone DEF StackInv
<1>7. /\ t \in Seq(Values) /\ Len(t) = l /\ \A j \in 1..a : t[j] = stack[j]
  <2>1. <<v>> \in Seq(Values)
    BY <1>4
  <2> QED
    BY <1>1, <2>1, EvaluatedElements
<1>8. /\ d \in Nat /\ n \in Nat /\ StackSize \in Nat /\ a = d + n /\ l = d + StackSize
      /\ n < StackSize
  BY <1>1, <1>3
<1>9. t[a + 1] = v /\ a + 1 \in 1..l
  <2> HIDE DEF a, l, n, d
  <2>1. a \in Nat /\ a + 1 \in 1..l
    BY ONLY <1>8
  <2>2. a + 1 \in (a + 1)..(a + Len(<<v>>)) /\ (a + 1) - a = 1 /\ <<v>>[1] = v
    BY <2>1
  <2>3. t = [i \in 1..l |-> IF i \in (a + 1)..(a + Len(<<v>>)) THEN <<v>>[i - a] ELSE stack[i]]
    BY <1>3 DEF Evaluated, l
  <2> HIDE DEF t
  <2> QED
    BY <2>1, <2>2, <2>3
<1>10. m \in [Cells -> Values] /\ m[c] = v /\ \A x \in Cells : x # c => m[x] = mem[x]
  BY <1>2, <1>4, <1>6
<1> HIDE DEF c, a, l, t, m, q, n, g, d
<1>11. /\ h \in Frame /\ h.kind = g.kind /\ h.bottom = g.bottom /\ h.base = g.base /\ h.fn = g.fn
       /\ h.size = g.size /\ h.extra = g.extra /\ h.expect = g.expect
       /\ h.is_variable = g.is_variable /\ h.locals = Append(g.locals, c)
  <2>1. Append(g.locals, c) \in Seq(Cells)
    BY <1>3, <1>6
  <2> QED
    BY <1>2, <2>1 DEF Frame
<1> HIDE DEF h
<1>12. /\ Len(h.locals) = n + 1 /\ h.locals[n + 1] = c
       /\ \A k \in 1..n : h.locals[k] = g.locals[k]
  BY <1>3, <1>6, <1>11
<1>13. n + 1 <= StackSize /\ n + 1 \in Nat
  BY <1>1, <1>3
<1>14. Formed(h)
  BY <1>2, <1>3, <1>11, <1>12, <1>13 DEF Formed
<1>15. Floor(h) = a + 1
  <2>1. Floor(h) = d + (n + 1)
    BY <1>11, <1>12 DEF Floor, d
  <2> QED
    BY <1>8, <2>1
<1>16. Apart(frames) /\ Holds(g, stack, mem)
  BY <1>2 DEF StackInv, FramesInv
<1>17. Fresh(q, g)
  <2>1. frames \in Seq(Frame) /\ frames # << >> /\ g = Top(frames)
    BY <1>2
  <2>2. Fresh(Pop(frames), Top(frames))
    BY <1>16, <2>1, TopFresh
  <2> QED
    BY <2>1, <2>2 DEF q
<1>18. ASSUME NEW k \in 1..n PROVE g.locals[k] # c /\ g.locals[k] \in Cells
  <2>1. w \in 1..w /\ k \in 1..Len(frames[w].locals) /\ frames[w].locals[k] = g.locals[k]
    BY <1>2, <1>3
  <2>2. g.locals[k] # c
    BY <1>6, <2>1 DEF Gone
  <2> QED
    BY <1>3, <2>2
<1>19. /\ Len(q) = Len(frames) - 1 /\ \A i \in 1..(Len(frames) - 1) : q[i] = frames[i]
  BY <1>2, PopElements DEF q
<1>20. \A i \in 1..Len(q) : i \in 1..Len(frames) /\ q[i] = frames[i]
  BY <1>2, <1>19
<1>21. Gone(q, c)
  BY <1>6, <1>20 DEF Gone
<1>22. \A k \in 1..(n + 1) : k \in 1..n \/ k = n + 1
  BY <1>3
<1>23. Fresh(q, h)
  <2>1. ASSUME NEW k \in 1..(n + 1), NEW j \in 1..(n + 1), h.locals[k] = h.locals[j] PROVE k = j
    <3>1. CASE k \in 1..n /\ j \in 1..n
      BY <1>3, <1>12, <1>17, <2>1, <3>1 DEF Fresh
    <3>2. CASE k = n + 1 /\ j \in 1..n
      BY <1>12, <1>18, <2>1, <3>2
    <3>3. CASE k \in 1..n /\ j = n + 1
      BY <1>12, <1>18, <2>1, <3>3
    <3>4. CASE k = n + 1 /\ j = n + 1
      BY <3>4
    <3> QED
      BY <1>22, <3>1, <3>2, <3>3, <3>4
  <2>2. ASSUME NEW k \in 1..(n + 1) PROVE Gone(q, h.locals[k])
    BY <1>3, <1>12, <1>17, <1>21, <1>22 DEF Fresh
  <2> QED
    BY <1>12, <2>1, <2>2 DEF Fresh
<1>24. Keeps(q, mem, m)
  <2>1. ASSUME NEW i \in 1..Len(q), NEW k \in 1..Len(q[i].locals)
        PROVE  m[q[i].locals[k]] = mem[q[i].locals[k]]
    <3>1. q[i] \in Frame
      BY <1>2, <1>20
    <3>2. q[i].locals[k] \in Cells
      BY <3>1, FrameFields
    <3> QED
      BY <1>10, <1>21, <3>2 DEF Gone
  <2> QED
    BY <2>1 DEF Keeps
<1>25. Holds(h, t, m)
  <2>1. ASSUME NEW k \in 1..(n + 1) PROVE t[h.base + k] = m[h.locals[k]]
    <3>1. CASE k \in 1..n
      <4>1. g.base + k \in 1..a
        <5>1. d + k \in 1..a
          BY ONLY <1>8, <3>1
        <5> QED
          BY <5>1 DEF d
      <4>2. stack[g.base + k] = mem[g.locals[k]]
        BY <1>3, <1>16, <3>1 DEF Holds
      <4> QED
        BY <1>7, <1>10, <1>11, <1>12, <1>18, <3>1, <4>1, <4>2
    <3>2. CASE k = n + 1
      <4>1. g.base + k = a + 1
        <5>1. d + k = a + 1
          BY ONLY <1>8, <3>2
        <5> QED
          BY <5>1 DEF d
      <4> QED
        BY <1>9, <1>10, <1>11, <1>12, <3>2, <4>1
    <3> QED
      BY <1>22, <3>1, <3>2
  <2>2. ASSUME NEW k \in 1..Len(g.extra) PROVE t[g.bottom + k] = g.extra[k]
    <3>1. g.base = g.bottom + Len(g.extra) /\ Len(g.extra) \in Nat
      BY <1>2, FrameFields DEF Formed
    <3> DEFINE b == g.bottom
               e == Len(g.extra)
    <3>2. b \in Nat /\ e \in Nat /\ d = b + e /\ k \in 1..e
      BY <1>2, <1>3, <3>1 DEF d
    <3> HIDE DEF b, e
    <3>3. b + k \in 1..a
      BY ONLY <1>8, <3>2
    <3>4. t[g.bottom + k] = stack[g.bottom + k]
      BY <1>7, <3>3 DEF b
    <3> QED
      BY <1>16, <3>4 DEF Holds
  <2> QED
    BY <1>11, <1>12, <2>1, <2>2 DEF Holds
<1>26. FramesInv(SetTop(frames, h), l, t, m)
  <2>1. \A j \in 1..f.bottom : t[j] = stack[j]
    <3>1. \A j \in 1..g.bottom : j \in 1..a
      BY <1>2
    <3> QED
      BY <1>7, <3>1 DEF g
  <2>2. Floor(h) <= Len(t)
    BY <1>2, <1>7, <1>9, <1>15
  <2>3. h.bottom = f.bottom
    BY <1>11 DEF g
  <2> QED
    BY <1>1, <1>7, <1>10, <1>14, <1>23, <1>24, <1>25, <2>1, <2>2, <2>3, TopLocals DEF q
<1>27. UpValuesInv(SetTop(frames, h), m, open_upvalues, upval, used, cell_of)
  <2>1. UpValuesInv(SetTop(frames, h), mem, open_upvalues, upval, used, cell_of)
    <3>1. \A k \in 1..Len(g.locals) : k \in 1..Len(h.locals) /\ h.locals[k] = g.locals[k]
      <4>1. \A k \in 1..n : k \in 1..(n + 1)
        BY <1>8
      <4> QED
        BY <1>3, <1>12, <4>1
    <3>2. \A k \in 1..Len(h.locals) :
            k \in 1..Len(g.locals) \/ \A u \in used : h.locals[k] # cell_of[u]
      BY <1>3, <1>6, <1>12, <1>22
    <3> QED
      BY <1>2, <1>11, <3>1, <3>2, GrowUpValues DEF StackInv
  <2>2. \A u \in used : m[cell_of[u]] = mem[cell_of[u]]
    <3>1. \A u \in used : cell_of[u] \in Cells
      BY DEF StackInv, UpValuesInv
    <3> QED
      BY <1>6, <1>10, <3>1
  <2> QED
    BY <2>1, <2>2, KeepUpValues
<1>28. TopInv(SetTop(frames, h), l)
  <2>1. Covered(Pop(frames))
    BY <1>1, LuaFacts, TopFacts DEF InLua
  <2>2. l = h.base + h.size
    BY <1>3, <1>11
  <2> QED
    BY <1>2, <1>3, <1>11, <2>1, <2>2, TopReplaced
<1> QED
  BY <1>1, <1>7, <1>26, <1>27, <1>28 DEF StackInv, upvalues

\* A block ends, with its variables.
LEMMA JumpCloseInv ==
  ASSUME StackInv, NEW n \in Registers, JumpClose(n)
  PROVE  StackInv'
<1> DEFINE g == f
           h == [g EXCEPT !.locals = Truncate(g.locals, n)]
           a == Floor(f)
           d == g.base
           l == Len(stack)
           v == nact
           q == Pop(frames)
           gs == SetTop(frames, h)
           b == Register(n)
           w == Len(frames)
<1>1. /\ Fixed /\ InLua /\ n < v /\ CloseFrom(b) /\ frames' = gs /\ stack' = stack /\ mem' = mem
  BY DEF JumpClose, Fixed
<1>2. /\ frames \in Seq(Frame) /\ stack \in Seq(Values) /\ mem \in [Cells -> Values]
      /\ g \in Frame /\ Formed(g) /\ a \in Nat /\ a <= l /\ frames # << >> /\ l \in Nat
      /\ g = Top(frames) /\ g.bottom <= a /\ g.bottom \in Nat
      /\ frames[1].bottom = 0 /\ w \in 1..w /\ g = frames[w] /\ w \in Nat /\ w > 0
  BY <1>1, TopFacts DEF InLua, f
<1>3. /\ v \in Nat /\ StackSize \in Nat /\ d \in Nat /\ a = d + v /\ v <= StackSize
      /\ l = d + StackSize /\ g.locals \in Seq(Cells) /\ g.kind = "Lua"
      /\ b = d + n /\ v = Len(g.locals) /\ g.size = StackSize /\ g.bottom <= d
  BY <1>1, LuaFacts DEF nact, Register
<1>4. n \in Nat
  BY StackAssumption DEF Registers
<1>5. /\ Truncate(g.locals, n) \in Seq(Cells)
      /\ Len(Truncate(g.locals, n)) = (IF n < v THEN n ELSE v)
      /\ \A k \in 1..Len(Truncate(g.locals, n)) : Truncate(g.locals, n)[k] = g.locals[k]
  BY <1>3, <1>4, TruncateElements
<1>6. Apart(frames) /\ Holds(g, stack, mem)
  BY <1>2 DEF StackInv, FramesInv
<1>7. Fresh(q, g)
  <2>1. frames \in Seq(Frame) /\ frames # << >> /\ g = Top(frames)
    BY <1>2
  <2> QED
    BY <1>6, <2>1, TopFresh
<1> HIDE DEF a, l, q, v, g, d, b
<1>8. /\ h \in Frame /\ h.kind = g.kind /\ h.bottom = g.bottom /\ h.base = g.base /\ h.fn = g.fn
      /\ h.size = g.size /\ h.extra = g.extra /\ h.expect = g.expect
      /\ h.is_variable = g.is_variable /\ h.locals = Truncate(g.locals, n)
  BY <1>2, <1>5 DEF Frame
<1> HIDE DEF h
<1>9. Len(h.locals) = n /\ \A k \in 1..n : h.locals[k] = g.locals[k]
  BY <1>1, <1>5, <1>8
<1>10. \A k \in 1..n : k \in 1..v
  BY <1>1, <1>3, <1>4
<1>11. Formed(h)
  <2>1. n <= StackSize
    BY <1>1, <1>3, <1>4
  <2> QED
    BY <1>2, <1>3, <1>8, <1>9, <2>1 DEF Formed
<1>12. Floor(h) = d + n
  BY <1>8, <1>9 DEF Floor, d
<1>13. Fresh(q, h)
  BY <1>3, <1>7, <1>9, <1>10 DEF Fresh
<1>14. Holds(h, stack, mem)
  BY <1>3, <1>6, <1>8, <1>9, <1>10 DEF Holds
<1>15. FramesInv(gs, l, stack, mem)
  <2>1. Floor(h) <= l
    BY <1>1, <1>3, <1>4, <1>12
  <2>2. Keeps(q, mem, mem)
    BY DEF Keeps
  <2>3. h.bottom = f.bottom
    BY <1>8 DEF g
  <2> QED
    BY <1>1, <1>2, <1>11, <1>13, <1>14, <2>1, <2>2, <2>3, TopLocals DEF l, q
<1>16. /\ gs \in Seq(Frame) /\ Len(gs) = w /\ gs[w] = h
       /\ \A i \in 1..(w - 1) : gs[i] = frames[i]
  BY <1>2, <1>8, SetTopElements
<1>17. \A i \in 1..w : i = w \/ (i # w /\ i < w /\ gs[i] = frames[i])
  <2> HIDE DEF w, gs
  <2>1. \A i \in 1..w : i = w \/ i \in 1..(w - 1)
    BY <1>2
  <2> QED
    BY <1>2, <1>16, <2>1
<1> HIDE DEF gs, w
<1>18. Cut(gs, frames, b)
  <2>1. ASSUME NEW i \in 1..w
        PROVE  /\ gs[i].bottom = frames[i].bottom /\ gs[i].base = frames[i].base
               /\ gs[i].fn = frames[i].fn
               /\ \A k \in 1..Len(gs[i].locals) :
                    k \in 1..Len(frames[i].locals) /\ gs[i].locals[k] = frames[i].locals[k]
    <3>1. CASE i = w
      BY <1>2, <1>3, <1>8, <1>9, <1>10, <1>16, <3>1
    <3>2. CASE i # w
      BY <1>17, <3>2
    <3> QED
      BY <3>1, <3>2
  <2>2. ASSUME NEW i \in 1..w, NEW k \in 1..Len(frames[i].locals)
        PROVE  frames[i].base + k - 1 < b <=> k \in 1..Len(gs[i].locals)
    <3>1. CASE i = w
      <4>1. k \in 1..v /\ gs[i].locals = h.locals /\ frames[i].base = d
        BY <1>2, <1>3, <1>16, <3>1 DEF d
      <4>2. d \in Nat /\ v \in Nat /\ n \in Nat /\ k \in 1..v /\ b = d + n
        BY <1>3, <1>4, <4>1
      <4>3. d + k - 1 < b <=> k \in 1..n
        BY ONLY <4>2
      <4> QED
        BY <1>9, <4>1, <4>3
    <3>2. CASE i # w
      <4>1. gs[i] = frames[i] /\ i < w
        BY <1>17, <3>2
      <4>2. frames[i] \in Frame /\ Floor(frames[i]) <= g.bottom
        BY <1>2, <4>1 DEF StackInv, FramesInv, Nested, w
      <4> DEFINE c == frames[i].base
                 e == Len(frames[i].locals)
                 o == g.bottom
      <4>3. c \in Nat /\ e \in Nat /\ c + e <= o /\ k \in 1..e /\ o \in Nat /\ o <= d
        BY <1>2, <1>3, <4>2, FrameFields DEF Floor
      <4> HIDE DEF c, e, o
      <4>4. c + k - 1 < b
        BY ONLY <1>3, <1>4, <4>3
      <4> QED
        BY <4>1, <4>4 DEF c
    <3> QED
      BY <3>1, <3>2
  <2>3. Len(gs) <= Len(frames)
    BY <1>2, <1>16 DEF w
  <2> QED
    BY <1>16, <2>1, <2>2, <2>3 DEF Cut, w
<1>19. UpValuesInv(gs, mem, open_upvalues', upval', used', cell_of')
  <2>1. b \in Nat
    BY <1>3, <1>4
  <2> QED
    BY <1>1, <1>16, <1>18, <2>1, CloseCut DEF StackInv
<1>20. TopInv(gs, l)
  <2>1. Covered(Pop(frames))
    BY <1>1, LuaFacts, TopFacts DEF InLua
  <2>2. l = h.base + h.size
    BY <1>3, <1>8 DEF d
  <2> QED
    BY <1>2, <1>3, <1>8, <2>1, <2>2, TopReplaced DEF gs
<1> QED
  BY <1>1, <1>15, <1>19, <1>20 DEF StackInv, l

\* t is s with u inserted at an index.
Inserted(t, S, s, i, u) ==
  /\ t \in Seq(S) /\ Len(t) = Len(s) + 1
  /\ t[i + 1] = u
  /\ \A j \in 1..i : t[j] = s[j]
  /\ \A j \in (i + 1)..Len(s) : t[j + 1] = s[j]

\* Insertion moves the elements behind it up.
LEMMA InsertElements ==
  ASSUME NEW S, NEW s \in Seq(S), NEW i \in 0..Len(s), NEW u \in S
  PROVE  Inserted(Insert(s, i, u), S, s, i, u)
<1> DEFINE l == Len(s)
           p == Truncate(s, i)
           q == From(s, i)
           t == p \o <<u>> \o q
<1>1. l \in Nat /\ i \in Nat /\ i <= l
  OBVIOUS
<1>2. /\ p \in Seq(S) /\ Len(p) = (IF i < l THEN i ELSE l)
      /\ \A j \in 1..Len(p) : p[j] = s[j]
  BY <1>1, TruncateElements
<1>3. /\ q \in Seq(S) /\ Len(q) = l - i /\ \A j \in 1..(l - i) : q[j] = s[i + j]
  BY FromElements
<1> HIDE DEF l, p, q
<1>4. Len(p) = i /\ p \in Seq(S) /\ \A j \in 1..i : p[j] = s[j]
  BY <1>1, <1>2
<1> DEFINE r == p \o <<u>>
<1>5. r \in Seq(S) /\ Len(r) = i + 1 /\ r[i + 1] = u /\ \A j \in 1..i : r[j] = p[j]
  BY <1>1, <1>4
<1>6. t = r \o q
  OBVIOUS
<1> HIDE DEF r, t
<1>7. /\ t \in Seq(S) /\ Len(t) = i + 1 + (l - i)
      /\ \A j \in 1..(i + 1) : t[j] = r[j]
      /\ \A j \in 1..(l - i) : t[i + 1 + j] = q[j]
  <2>1. r \in Seq(S) /\ q \in Seq(S)
    BY <1>3, <1>5
  <2>2. /\ t \in Seq(S) /\ Len(t) = Len(r) + Len(q)
        /\ \A j \in 1..Len(r) : t[j] = r[j]
        /\ \A j \in 1..Len(q) : t[Len(r) + j] = q[j]
    BY <1>6, <2>1, ConcatElements
  <2> QED
    BY <1>3, <1>5, <2>2
<1>8. i + 1 + (l - i) = l + 1 /\ i + 1 \in 1..(i + 1) /\ \A j \in 1..i : j \in 1..(i + 1)
  BY <1>1
<1>9. ASSUME NEW j \in (i + 1)..l PROVE t[j + 1] = s[j]
  <2>1. j - i \in 1..(l - i) /\ i + 1 + (j - i) = j + 1 /\ i + (j - i) = j
    BY <1>1
  <2>2. t[i + 1 + (j - i)] = q[j - i] /\ q[j - i] = s[i + (j - i)]
    BY <1>3, <1>7, <2>1
  <2> QED
    BY <2>1, <2>2
<1>10. t[i + 1] = u /\ \A j \in 1..i : t[j] = s[j]
  BY <1>4, <1>5, <1>7, <1>8
<1>11. Insert(s, i, u) = t
  BY DEF Insert, t, r, p, q
<1> QED
  BY <1>7, <1>8, <1>9, <1>10, <1>11 DEF l, Inserted

\* No upvalue is open on the register: those from its position on lie above.
LEMMA NotFound ==
  ASSUME UpValuesInv(frames, mem, open_upvalues, upval, used, cell_of), NEW ind \in Nat,
         NEW i, i = Position(ind),
         ~(i < Len(open_upvalues) /\ upval[open_upvalues[i + 1]].ind = ind)
  PROVE  /\ i \in 0..Len(open_upvalues)
         /\ \A j \in 1..i : upval[open_upvalues[j]].ind < ind
         /\ \A j \in (i + 1)..Len(open_upvalues) : ind < upval[open_upvalues[j]].ind
<1> DEFINE l == Len(open_upvalues)
           x(j) == upval[open_upvalues[j]].ind
<1>1. l \in Nat /\ \A j \in 1..l : x(j) \in Nat
  BY DEF UpValuesInv, UpValue
<1>2. i \in 0..l /\ \A j \in 1..l : j <= i <=> x(j) < ind
  BY PositionSplits
<1>3. \A j, k \in 1..l : j < k => x(j) < x(k)
  BY DEF UpValuesInv, Sorted
<1>4. ~(i < l /\ x(i + 1) = ind)
  OBVIOUS
<1> HIDE DEF l, x
<1>5. ASSUME NEW j \in 1..i PROVE x(j) < ind
  BY <1>1, <1>2
<1>6. ASSUME NEW j \in (i + 1)..l PROVE ind < x(j)
  <2>1. /\ i \in Nat /\ i < l /\ i + 1 \in 1..l /\ j \in 1..l /\ ~(j <= i) /\ ~(i + 1 <= i)
        /\ j = i + 1 \/ i + 1 < j
    <3>1. l \in Nat /\ i \in 0..l /\ j \in (i + 1)..l
      BY <1>1, <1>2
    <3> QED
      BY ONLY <3>1
  <2>2. x(i + 1) \in Nat /\ x(j) \in Nat /\ ~(x(i + 1) < ind) /\ x(i + 1) # ind
    BY <1>1, <1>2, <1>4, <2>1
  <2>3. j = i + 1 \/ x(i + 1) < x(j)
    BY <1>3, <2>1
  <2>4. CASE j = i + 1
    BY <2>2, <2>4
  <2>5. CASE x(i + 1) < x(j)
    BY <2>2, <2>5
  <2> QED
    BY <2>3, <2>4, <2>5
<1> QED
  BY <1>2, <1>5, <1>6 DEF l, x

\* open_upvalue: an upvalue is opened on a variable that no other is open on.
LEMMA OpensUpValue ==
  ASSUME StackInv, InLua, NEW reg \in Locals, NEW ind, ind = Register(reg),
         NEW i, i = Position(ind),
         ~(i < Len(open_upvalues) /\ upval[open_upvalues[i + 1]].ind = ind),
         NEW u \in UpVals, u \notin used
  PROVE  UpValuesInv(frames, mem, Insert(open_upvalues, i, u),
                     [upval EXCEPT ![u] = [open |-> TRUE, ind |-> ind, val |-> Nil]],
                     used \cup {u}, [cell_of EXCEPT ![u] = f.locals[reg + 1]])
<1> DEFINE l == Len(open_upvalues)
           ou == Insert(open_upvalues, i, u)
           uv == [upval EXCEPT ![u] = [open |-> TRUE, ind |-> ind, val |-> Nil]]
           us == used \cup {u}
           c == f.locals[reg + 1]
           co == [cell_of EXCEPT ![u] = c]
           w == Len(frames)
<1>1. /\ used \subseteq UpVals /\ open_upvalues \in Seq(used) /\ upval \in [UpVals -> UpValue]
      /\ cell_of \in [UpVals -> Cells] /\ Sorted(open_upvalues, upval)
      /\ \A v \in used : upval[v].open <=> Listed(open_upvalues, v)
      /\ \A v \in used : Sees(frames, mem, upval[v], cell_of[v])
      /\ \A v, x \in used : cell_of[v] = cell_of[x] => v = x
      /\ \A k \in 1..Len(frames) : Outside(frames[k], upval, used)
  BY DEF StackInv, UpValuesInv
<1>2. /\ reg + 1 \in 1..Len(f.locals) /\ ind \in Nat /\ ind = f.base + (reg + 1) - 1
  BY LocalFacts DEF nact
<1>3. frames \in Seq(Frame) /\ w \in 1..w /\ f = frames[w] /\ c \in Cells /\ Apart(frames)
  <2>1. c \in Cells
    BY <1>2, LuaFacts DEF nact
  <2> QED
    BY <2>1, TopFacts DEF InLua, StackInv, FramesInv
<1>4. /\ i \in 0..l
      /\ \A j \in 1..i : upval[open_upvalues[j]].ind < ind
      /\ \A j \in (i + 1)..l : ind < upval[open_upvalues[j]].ind
  BY <1>2, NotFound DEF StackInv
<1>5. /\ open_upvalues \in Seq(us) /\ u \in us
  BY <1>1
<1>6. /\ ou \in Seq(us) /\ Len(ou) = l + 1 /\ ou[i + 1] = u
      /\ \A j \in 1..i : ou[j] = open_upvalues[j]
      /\ \A j \in (i + 1)..l : ou[j + 1] = open_upvalues[j]
  <2>1. i \in 0..Len(open_upvalues)
    BY <1>4
  <2>2. Inserted(ou, us, open_upvalues, i, u)
    <3> HIDE DEF us
    <3> QED
      BY <1>5, <2>1, InsertElements
  <2> QED
    BY <2>2 DEF Inserted
<1>7. uv \in [UpVals -> UpValue] /\ co \in [UpVals -> Cells]
  <2>1. [open |-> TRUE, ind |-> ind, val |-> Nil] \in UpValue
    BY <1>2 DEF UpValue, Values
  <2> HIDE DEF c
  <2> QED
    BY <1>1, <1>3, <2>1
<1>8. /\ uv[u].open /\ uv[u].ind = ind /\ co[u] = c
      /\ \A v \in used : uv[v] = upval[v] /\ co[v] = cell_of[v] /\ v # u
  <2> HIDE DEF c
  <2> QED
    BY <1>1
<1>9. l \in Nat /\ \A j \in 1..l : open_upvalues[j] \in used
  BY <1>1
<1> HIDE DEF ou, uv, us, c, co, l, w
\* Where the elements of the new list come from.
<1> DEFINE x(j) == uv[ou[j]].ind
           y(j) == upval[open_upvalues[j]].ind
<1>10. i \in Nat /\ i <= l /\ \A j \in 1..l : y(j) \in Nat
  <2>1. \A j \in 1..l : upval[open_upvalues[j]] \in UpValue
    BY <1>1, <1>9
  <2> QED
    BY <1>4, <1>9, <2>1 DEF UpValue
<1>11. /\ \A j \in 1..i : j \in 1..l /\ x(j) = y(j)
       /\ \A j \in (i + 1)..l : j \in 1..l /\ x(j + 1) = y(j)
       /\ x(i + 1) = ind
  <2>1. /\ \A j \in 1..i : j \in 1..l
        /\ \A j \in (i + 1)..l : j \in 1..l
    BY ONLY <1>9, <1>10
  <2> QED
    BY <1>6, <1>8, <1>9, <2>1
<1>12. ASSUME NEW j \in 1..(l + 1)
       PROVE  \/ j \in 1..i
              \/ j = i + 1
              \/ j - 1 \in (i + 1)..l /\ (j - 1) + 1 = j
  BY <1>9, <1>10
<1>13. \A j, k \in 1..l : j < k => y(j) < y(k)
  BY <1>1 DEF Sorted, l
<1>14. /\ \A j \in 1..i : y(j) < ind
       /\ \A j \in (i + 1)..l : ind < y(j)
  BY <1>4
<1> HIDE DEF x, y
<1>15. ASSUME NEW j \in 1..(l + 1), NEW k \in 1..(l + 1), j < k PROVE x(j) < x(k)
  <2>1. CASE j \in 1..i
    <3>1. x(j) = y(j) /\ y(j) < ind /\ j \in 1..l /\ y(j) \in Nat
      BY <1>10, <1>11, <1>14, <2>1
    <3>2. CASE k \in 1..i
      BY <1>11, <1>13, <1>15, <3>1, <3>2
    <3>3. CASE k = i + 1
      BY <1>11, <3>1, <3>3
    <3>4. CASE k - 1 \in (i + 1)..l /\ (k - 1) + 1 = k
      <4>1. x(k) = y(k - 1) /\ ind < y(k - 1) /\ y(k - 1) \in Nat
        BY <1>10, <1>11, <1>14, <3>4
      <4> QED
        BY <1>2, <3>1, <4>1
    <3> QED
      BY <1>12, <3>2, <3>3, <3>4
  <2>2. CASE j = i + 1
    <3>1. k - 1 \in (i + 1)..l /\ (k - 1) + 1 = k
      BY <1>10, <1>12, <1>15, <2>2
    <3> QED
      BY <1>11, <1>14, <2>2, <3>1
  <2>3. CASE j - 1 \in (i + 1)..l /\ (j - 1) + 1 = j
    <3>1. k - 1 \in (i + 1)..l /\ (k - 1) + 1 = k /\ j - 1 < k - 1
      BY <1>10, <1>12, <1>15, <2>3
    <3>2. j - 1 \in 1..l /\ k - 1 \in 1..l /\ x(j) = y(j - 1) /\ x(k) = y(k - 1)
      BY <1>11, <2>3, <3>1
    <3> QED
      BY <1>13, <3>1, <3>2
  <2> QED
    BY <1>12, <2>1, <2>2, <2>3
<1>16. Sorted(ou, uv)
  BY <1>6, <1>15 DEF Sorted, x
<1>17. ASSUME NEW v \in us PROVE uv[v].open <=> Listed(ou, v)
  <2>1. CASE v = u
    <3>1. i + 1 \in 1..Len(ou)
      BY <1>6, <1>9, <1>10
    <3> QED
      BY <1>6, <1>8, <2>1, <3>1 DEF Listed
  <2>2. CASE v # u
    <3>1. v \in used
      BY <2>2 DEF us
    <3>2. ASSUME Listed(open_upvalues, v) PROVE Listed(ou, v)
      <4>1. PICK j \in 1..l : open_upvalues[j] = v
        BY <3>2 DEF Listed, l
      <4>2. CASE j \in 1..i
        <5>1. j \in 1..Len(ou)
          BY <1>6, <1>9
        <5> QED
          BY <1>6, <4>1, <4>2, <5>1 DEF Listed
      <4>3. CASE j \in (i + 1)..l
        <5>1. j + 1 \in 1..Len(ou)
          BY <1>6, <1>9
        <5> QED
          BY <1>6, <4>1, <4>3, <5>1 DEF Listed
      <4>4. j \in 1..i \/ j \in (i + 1)..l
        BY <1>9, <1>10
      <4> QED
        BY <4>2, <4>3, <4>4
    <3>3. ASSUME Listed(ou, v) PROVE Listed(open_upvalues, v)
      <4>1. PICK j \in 1..(l + 1) : ou[j] = v
        BY <1>6, <3>3 DEF Listed
      <4>2. CASE j \in 1..i
        BY <1>6, <1>11, <4>1, <4>2 DEF Listed, l
      <4>3. CASE j = i + 1
        BY <1>6, <2>2, <4>1, <4>3
      <4>4. CASE j - 1 \in (i + 1)..l /\ (j - 1) + 1 = j
        <5>1. open_upvalues[j - 1] = v /\ j - 1 \in 1..l
          BY <1>6, <1>11, <4>1, <4>4
        <5> QED
          BY <5>1 DEF Listed, l
      <4> QED
        BY <1>12, <4>2, <4>3, <4>4
    <3> QED
      BY <1>1, <1>8, <3>1, <3>2, <3>3
  <2> QED
    BY <2>1, <2>2
<1>18. Placed(frames, uv[u], co[u])
  <2>1. reg + 1 \in 1..Len(frames[w].locals) /\ ind = frames[w].base + (reg + 1) - 1
        /\ c = frames[w].locals[reg + 1]
    BY <1>2, <1>3 DEF c
  <2> QED
    BY <1>3, <1>8, <2>1 DEF Placed, w
<1>19. \A v \in us : Sees(frames, mem, uv[v], co[v])
  BY <1>1, <1>8, <1>18 DEF Sees, us
<1>20. ASSUME NEW v \in used PROVE cell_of[v] # c
  <2>1. Sees(frames, mem, upval[v], cell_of[v])
    BY <1>1
  <2>2. SUFFICES ASSUME cell_of[v] = c PROVE FALSE
    OBVIOUS
  <2>3. reg + 1 \in 1..Len(frames[w].locals) /\ c = frames[w].locals[reg + 1]
    BY <1>2, <1>3 DEF c
  <2>4. ~Gone(frames, c)
    BY <1>3, <2>3 DEF Gone, w
  <2>5. upval[v].open /\ Placed(frames, upval[v], c)
    BY <2>1, <2>2, <2>4 DEF Sees
  <2>6. PICK j \in 1..w : \E k \in 1..Len(frames[j].locals) :
          upval[v].ind = frames[j].base + k - 1 /\ c = frames[j].locals[k]
    BY <2>5 DEF Placed, w
  <2>7. PICK k \in 1..Len(frames[j].locals) :
          upval[v].ind = frames[j].base + k - 1 /\ c = frames[j].locals[k]
    BY <2>6
  <2>8. j = w /\ k = reg + 1
    <3>1. frames[j].locals[k] = frames[w].locals[reg + 1]
      BY <2>3, <2>7
    <3>2. w \in 1..Len(frames) /\ j \in 1..Len(frames)
      BY <1>3 DEF w
    <3> QED
      BY <1>3, <2>3, <3>1, <3>2 DEF Apart
  <2>9. upval[v].ind = ind
    BY <1>2, <1>3, <2>7, <2>8
  <2>10. Listed(open_upvalues, v)
    BY <1>1, <2>5
  <2>11. PICK z \in 1..l : open_upvalues[z] = v
    BY <2>10 DEF Listed, l
  <2>12. y(z) = ind /\ (z \in 1..i \/ z \in (i + 1)..l)
    BY <1>9, <1>10, <2>9, <2>11 DEF y
  <2> QED
    BY <1>2, <1>14, <2>12
<1>21. \A v, z \in us : co[v] = co[z] => v = z
  BY <1>1, <1>8, <1>20 DEF us
<1>22. ASSUME NEW k \in 1..Len(frames) PROVE Outside(frames[k], uv, us)
  <2>1. Outside(frames[k], upval, used)
    BY <1>1
  <2>2. frames[k].fn # u
    BY <2>1, StackAssumption DEF Outside
  <2> QED
    BY <1>8, <2>1, <2>2 DEF Outside, us
<1>23. us \subseteq UpVals
  BY <1>1 DEF us
<1>24. UpValuesInv(frames, mem, ou, uv, us, co)
  BY <1>6, <1>7, <1>16, <1>17, <1>19, <1>21, <1>22, <1>23 DEF UpValuesInv
<1> QED
  BY <1>24 DEF ou, uv, us, co, c

\* A closure over a variable of the frame.
LEMMA ClosureParentLocalInv ==
  ASSUME StackInv, NEW reg, NEW dest, ClosureParentLocal(reg, dest)
  PROVE  StackInv'
<1> DEFINE ind == Register(reg)
           i == Position(ind)
           found == i < Len(open_upvalues) /\ upval[open_upvalues[i + 1]].ind = ind
<1>1. InLua /\ reg \in Locals /\ dest \in Locals /\ frames' = frames
  BY DEF ClosureParentLocal, Fixed
<1>2. /\ UpValuesInv(frames, mem, open_upvalues, upval, used, cell_of)
      /\ used \subseteq UpVals /\ open_upvalues \in Seq(used) /\ ind \in Nat
  BY <1>1, LocalFacts DEF StackInv, UpValuesInv
<1>3. CASE found
  <2>1. /\ Store(dest, open_upvalues[i + 1])
        /\ UNCHANGED <<open_upvalues, upval, used, cell_of>>
    BY <1>3 DEF ClosureParentLocal
  <2>2. open_upvalues[i + 1] \in Values
    <3>1. i \in 0..Len(open_upvalues)
      BY <1>2, PositionSplits
    <3> HIDE DEF i
    <3>2. i + 1 \in 1..Len(open_upvalues)
      BY <1>2, <1>3, <3>1
    <3> QED
      BY <1>2, <3>2 DEF Values
  <2> HIDE DEF i
  <2> QED
    BY <1>1, <2>1, <2>2, StoreInv DEF upvalues
<1>4. CASE ~found
  <2> DEFINE u == CHOOSE u \in UpVals \ used : TRUE
             v == [open |-> TRUE, ind |-> ind, val |-> Nil]
  <2>1. /\ used # UpVals /\ Store(dest, u) /\ upval' = [upval EXCEPT ![u] = v]
        /\ open_upvalues' = Insert(open_upvalues, i, u) /\ used' = used \cup {u}
        /\ cell_of' = [cell_of EXCEPT ![u] = f.locals[reg + 1]]
    BY <1>4 DEF ClosureParentLocal
  <2>2. u \in UpVals /\ u \notin used
    BY <1>2, <2>1
  <2> HIDE DEF u
  <2>3. UpValuesInv(frames, mem, open_upvalues', upval', used', cell_of')
    BY <1>1, <1>4, <2>1, <2>2, OpensUpValue
  <2>4. u \in Values
    BY <2>2 DEF Values
  <2>5. /\ dest < nact /\ dest + 1 \in 1..nact /\ Register(dest) = f.base + (dest + 1) - 1
        /\ Register(dest) \in Nat
    BY <1>1, LocalFacts
  <2>6. /\ frames \in Seq(Frame) /\ Len(frames) \in 1..Len(frames) /\ f = frames[Len(frames)]
        /\ stack \in Seq(Values) /\ mem \in [Cells -> Values]
    BY <1>1, TopFacts DEF InLua
  <2>7. /\ stack' = Write(stack, Register(dest), u)
        /\ mem' = [mem EXCEPT ![f.locals[dest + 1]] = u]
    BY <2>1, <2>5 DEF Store
  <2>8. dest + 1 \in 1..Len(frames[Len(frames)].locals)
    BY <2>5, <2>6 DEF nact
  <2> HIDE DEF v, i, ind
  <2>9. FramesInv(frames, Len(stack), stack', mem')
    BY <2>4, <2>5, <2>6, <2>7, <2>8, StoreFrames DEF StackInv
  <2>10. UpValuesInv(frames, mem', open_upvalues', upval', used', cell_of')
    BY <2>3, <2>6, <2>7, <2>8, StoreUpValues
  <2>11. Len(stack') = Len(stack)
    BY <2>4, <2>5, <2>6, <2>7, WriteElements
  <2> QED
    BY <1>1, <2>9, <2>10, <2>11 DEF StackInv
<1> QED
  BY <1>3, <1>4

-----------------------------------------------------------------------------
(* The invariant is inductive. *)

\* A new thread.
LEMMA InitInv == Init => StackInv
<1> SUFFICES ASSUME Init PROVE StackInv
  OBVIOUS
<1>1. /\ frames = << >> /\ stack = << >> /\ open_upvalues = << >> /\ used = {}
      /\ upval = [u \in UpVals |-> [open |-> FALSE, ind |-> 0, val |-> Nil]]
      /\ cell_of = [u \in UpVals |-> CHOOSE c \in Cells : TRUE]
      /\ mem = [c \in Cells |-> Nil]
  BY DEF Init
<1>2. Len(<< >>) = 0 /\ 1..0 = {} /\ << >> \in Seq(Values) /\ << >> \in Seq({})
  OBVIOUS
<1>3. Nil \in Values
  BY DEF Values
<1>4. mem \in [Cells -> Values]
  BY <1>1, <1>3
<1>5. FramesInv(<< >>, 0, << >>, mem)
  BY <1>2, <1>4, NoFrames
<1>6. upval \in [UpVals -> UpValue]
  <2>1. [open |-> FALSE, ind |-> 0, val |-> Nil] \in UpValue
    BY <1>3 DEF UpValue
  <2> QED
    BY <1>1, <2>1
<1>7. cell_of \in [UpVals -> Cells]
  <2>1. (CHOOSE c \in Cells : TRUE) \in Cells
    BY StackAssumption
  <2> QED
    BY <1>1, <2>1
<1>8. UpValuesInv(<< >>, mem, << >>, upval, {}, cell_of)
  <2>1. Sorted(<< >>, upval)
    BY <1>2 DEF Sorted
  <2> QED
    BY <1>2, <1>6, <1>7, <2>1 DEF UpValuesInv
<1> QED
  BY <1>1, <1>2, <1>5, <1>8 DEF StackInv, TopInv

\* An instruction of the frame on top.
LEMMA InstructionInv ==
  ASSUME StackInv, Instruction
  PROVE  StackInv'
<1>1. ASSUME NEW v \in Readable, DeclareLocal(v) \/ \E r \in Registers : SetRegister(r, v)
      PROVE  StackInv'
  BY <1>1, DeclareLocalInv, SetRegisterInv
<1>2. ASSUME NEW n \in Registers, JumpClose(n) \/ GetUpValue(n) \/ SetUpValue(n) \/ ClosureOuter(n)
      PROVE  StackInv'
  BY <1>2, JumpCloseInv, GetUpValueInv, SetUpValueInv, ClosureOuterInv
<1>3. ASSUME NEW r \in Registers, NEW d \in Registers, ClosureParentLocal(r, d) PROVE StackInv'
  BY <1>3, ClosureParentLocalInv
<1>4. ASSUME NEW r \in Registers, NEW n \in Counts, SetList(r, n) PROVE StackInv'
  BY <1>4, SetListInv
<1>5. ASSUME NEW vals \in Operands, NEW r \in Registers, NEW n \in 0..StackSize,
             NEW p \in FixedParams, CallFunctionKeep(vals, r, n, p)
      PROVE  StackInv'
  BY <1>5, CallFunctionKeepInv
<1>6. ASSUME NEW vals \in Operands, NEW n \in Counts, VarArgs(vals, n) PROVE StackInv'
  BY <1>6, VarArgsInv
<1>7. ASSUME NEW vals \in Operands, NEW n \in Counts, NEW r \in Registers,
             ReturnUpper(vals, r, n)
      PROVE  StackInv'
  BY <1>7, ReturnUpperInv
<1>8. ASSUME NEW vals \in Operands, NEW n \in Counts, NEW r \in Registers, NEW p \in FixedParams,
             TailCallFunction(vals, r, n, p)
      PROVE  StackInv'
  BY <1>8, TailCallFunctionInv
<1>9. ASSUME NEW vals \in Operands, NEW n \in Counts, NEW r \in Registers, NEW m \in Counts,
             NEW p \in FixedParams, CallFunction(vals, r, n, m, p)
      PROVE  StackInv'
  BY <1>9, CallFunctionInv
<1>10. ASSUME NEW fn \in Functions, NEW args \in Given, NEW p \in FixedParams,
              NEW ret \in {Expect("MetaNone", 0)} \cup {Expect("MetaRegister", r) : r \in Registers},
              CallMetaFunction(fn, args, ret, p)
       PROVE  StackInv'
  BY <1>10, CallMetaFunctionInv
<1>11. ASSUME VMError PROVE StackInv'
  BY <1>11, VMErrorInv
<1> QED
  BY <1>1, <1>2, <1>3, <1>4, <1>5, <1>6, <1>7, <1>8, <1>9, <1>10, <1>11, Zenon DEF Instruction

\* A step of a callback or a sequence.
LEMMA NativeInv ==
  ASSUME StackInv, Native
  PROVE  StackInv'
<1>1. ASSUME NativeError PROVE StackInv'
  BY <1>1, NativeErrorInv
<1>2. ASSUME NEW vals \in Given, NativeReturn(vals) \/ NativePending(vals) PROVE StackInv'
  BY <1>2, NativeReturnInv, NativePendingInv
<1>3. ASSUME NEW vals \in Given, NEW then \in BOOLEAN, NEW rel \in 0..Len(vals),
             NativeYield(then, rel, vals)
      PROVE  StackInv'
  BY <1>3, NativeYieldInv
<1>4. ASSUME NEW vals \in Given, NEW then \in BOOLEAN, NEW rel \in 0..Len(vals),
             NEW kind \in {"Yielded", "WaitThread", "Error"}, NativeHandOver(then, rel, vals, kind)
      PROVE  StackInv'
  BY <1>4, NativeHandOverInv
<1>5. ASSUME NEW vals \in Given, NEW then \in BOOLEAN, NEW rel \in 0..Len(vals),
             NEW fn \in Functions, NEW p \in FixedParams, NativeCall(fn, then, rel, vals, p)
      PROVE  StackInv'
  BY <1>5, NativeCallInv
<1> QED
  BY <1>1, <1>2, <1>3, <1>4, <1>5, Zenon DEF Native

\* A method of Thread.
LEMMA HostInv ==
  ASSUME StackInv, Host
  PROVE  StackInv'
<1>1. ASSUME NEW fn \in Functions, NEW args \in Given, NEW p \in FixedParams, Start(fn, args, p)
      PROVE  StackInv'
  BY <1>1, StartInv
<1>2. ASSUME NEW fn \in Functions, StartSuspended(fn) PROVE StackInv'
  BY <1>2, StartSuspendedInv
<1>3. ASSUME NEW args \in Given, Resume(args) PROVE StackInv'
  BY <1>3, ResumeInv
<1>4. ASSUME NEW args \in Given, NEW p \in FixedParams, ResumeStart(args, p) PROVE StackInv'
  BY <1>4, ResumeStartInv
<1>5. ASSUME ResumeErr \/ TakeResult \/ Reset PROVE StackInv'
  BY <1>5, ResumeErrInv, TakeResultInv, ResetInv
<1> QED
  BY <1>1, <1>2, <1>3, <1>4, <1>5, Zenon DEF Host

\* Every step keeps the invariant.
LEMMA NextInv == StackInv /\ [Next]_vars => StackInv'
<1> SUFFICES ASSUME StackInv, [Next]_vars PROVE StackInv'
  OBVIOUS
<1>1. CASE UNCHANGED vars
  BY <1>1 DEF StackInv, vars
<1>2. CASE Next
  BY <1>2, InstructionInv, NativeInv, UnwindInv, HostInv DEF Next
<1> QED
  BY <1>1, <1>2

\* The invariant of every behaviour of a thread's stack.
THEOREM StackHolds == Spec => []StackInv
<1> QED
  BY InitInv, NextInv, PTL DEF Spec

-----------------------------------------------------------------------------
(* What follows from it. *)

\* ThreadState keeps its types: thread.rs never leaves a frame or an upvalue that is
\* malformed, nor a value of its own making on the stack.
THEOREM ThreadTyped == Spec => []TypeOK
<1>1. StackInv => TypeOK
  BY DEF StackInv, FramesInv, UpValuesInv, UpValue, TypeOK
<1> QED
  BY <1>1, StackHolds, PTL

\* push_call and return_to and every instruction leave each variable and each variable
\* argument of every waiting frame in its place, with its value.
THEOREM CallsKeepLocals == Spec => []LocalsIntact
<1>1. ASSUME StackInv PROVE LocalsIntact
  <2>1. /\ stack \in Seq(Values) /\ Len(stack) \in Nat
        /\ \A i \in 1..Len(frames) :
             Formed(frames[i]) /\ Floor(frames[i]) <= Len(stack) /\ Holds(frames[i], stack, mem)
    BY <1>1 DEF StackInv, FramesInv, Nested
  <2>2. ASSUME NEW i \in Lua(frames), NEW k \in 1..Len(frames[i].locals)
        PROVE  /\ frames[i].base + k <= Len(stack)
               /\ stack[frames[i].base + k] = mem[frames[i].locals[k]]
    <3> DEFINE b == frames[i].base
               n == Len(frames[i].locals)
               l == Len(stack)
    <3>1. i \in 1..Len(frames) /\ frames[i] \in Frame
      BY <2>1, FormedFields DEF Lua
    <3>2. b \in Nat /\ n \in Nat /\ l \in Nat /\ b + n <= l /\ k \in 1..n
      BY <2>1, <3>1, FrameFields DEF Floor
    <3>3. stack[b + k] = mem[frames[i].locals[k]]
      BY <2>1, <3>1 DEF Holds
    <3> HIDE DEF b, n, l
    <3>4. b + k <= l
      BY ONLY <3>2
    <3> QED
      BY <3>3, <3>4 DEF b, l
  <2>3. ASSUME NEW i \in Lua(frames)
        PROVE  SubSeq(stack, frames[i].bottom + 1, frames[i].base) = frames[i].extra
    <3> DEFINE g == frames[i]
               b == g.bottom
               d == g.base
               e == g.extra
               n == Len(e)
               l == Len(stack)
               s == SubSeq(stack, b + 1, d)
    <3>1. i \in 1..Len(frames) /\ g \in Frame /\ Formed(g) /\ Floor(g) <= l /\ Holds(g, stack, mem)
      BY <2>1, FormedFields DEF Lua
    <3>2. /\ b \in Nat /\ d \in Nat /\ n \in Nat /\ l \in Nat /\ d = b + n /\ d <= l
          /\ e \in Seq(Values)
      <4>1. /\ b \in Nat /\ d \in Nat /\ n \in Nat /\ l \in Nat /\ d = b + n /\ e \in Seq(Values)
            /\ Floor(g) \in Nat /\ d <= Floor(g)
        BY <2>1, <3>1, FrameFields DEF Formed
      <4> DEFINE x == Floor(g)
      <4> HIDE DEF b, d, n, l, x
      <4>2. d <= l
        BY <3>1, <4>1 DEF x
      <4> QED
        BY <4>1, <4>2
    <3>3. \A k \in 1..n : stack[b + k] = e[k]
      BY <3>1 DEF Holds
    <3> HIDE DEF b, d, n, l, g, e
    <3>4. s \in Seq(Values)
      BY <2>1, <3>2, SliceValues DEF l
    <3>5. Len(s) = n /\ \A k \in 1..n : s[k] = stack[b + k]
      <4>1. d - (b + 1) + 1 = n /\ \A k \in 1..n : (b + 1) + k - 1 = b + k
        BY <3>2
      <4>2. Len(s) = n
        BY <3>2
      <4> QED
        BY <3>2, <4>1, <4>2
    <3>6. s = e
      BY <3>2, <3>3, <3>4, <3>5 DEF n
    <3> QED
      BY <3>6 DEF b, d, e, g
  <2> QED
    BY <2>2, <2>3 DEF LocalsIntact, VarArgsIntact
<1> QED
  BY <1>1, StackHolds, PTL

\* open_upvalue, close_upvalues and set_upvalue: whatever the stack goes through, each
\* closure sees the variable it captured.
THEOREM ClosuresSeeVariables == Spec => []UpValueSeesVariable
<1>1. ASSUME StackInv PROVE UpValueSeesVariable
  BY <1>1, UpValueValues DEF UpValueSeesVariable
<1> QED
  BY <1>1, StackHolds, PTL

\* What thread.rs asserts of its stack, and what the binary searches of open_upvalue
\* and close_upvalues rely on.
THEOREM StackAssertsHold == Spec => []StackAsserts
<1>1. ASSUME StackInv PROVE OpenUpValuesSorted
  <2>1. /\ open_upvalues \in Seq(used) /\ Sorted(open_upvalues, upval)
        /\ \A u \in used : upval[u].open <=> Listed(open_upvalues, u)
        /\ \A u \in used : Sees(frames, mem, upval[u], cell_of[u])
    BY <1>1 DEF StackInv, UpValuesInv
  <2>2. ASSUME NEW i \in 1..Len(frames), NEW k \in 1..Len(frames[i].locals) PROVE i \in Lua(frames)
    <3>1. Formed(frames[i])
      BY <1>1 DEF StackInv, FramesInv, Nested
    <3>2. frames[i].kind = "Lua"
      BY <3>1 DEF Formed
    <3> QED
      BY <3>2 DEF Lua
  <2>3. ASSUME NEW i \in 1..Len(open_upvalues)
        PROVE  LET u == open_upvalues[i] IN
               upval[u].open /\ \E k \in Lua(frames) :
                 LET g == frames[k] IN
                 \E r \in 1..Len(g.locals) : upval[u].ind = g.base + r - 1 /\ cell_of[u] = g.locals[r]
    <3> DEFINE u == open_upvalues[i]
    <3>1. u \in used
      BY <2>1
    <3>2. upval[u].open
      BY <2>1, <3>1 DEF Listed
    <3>3. Placed(frames, upval[u], cell_of[u])
      BY <2>1, <3>1, <3>2 DEF Sees
    <3> HIDE DEF u
    <3>4. PICK k \in 1..Len(frames) : \E r \in 1..Len(frames[k].locals) :
            upval[u].ind = frames[k].base + r - 1 /\ cell_of[u] = frames[k].locals[r]
      BY <3>3 DEF Placed
    <3>5. k \in Lua(frames)
      BY <2>2, <3>4
    <3> QED
      BY <3>2, <3>4, <3>5 DEF u
  <2> QED
    BY <2>1, <2>3 DEF OpenUpValuesSorted, Sorted, Listed
<1>2. ASSUME StackInv PROVE UpValuesAboveFrame
  <2>1. \A i \in 1..Len(frames) : Outside(frames[i], upval, used)
    BY <1>2 DEF StackInv, UpValuesInv
  <2> QED
    BY <2>1, StackAssumption DEF UpValuesAboveFrame, Outside, Lua
<1>3. ASSUME StackInv PROVE WindowsNested
  <2>1. Fixed => Len(stack) = f.base + f.size
    BY <1>3, LuaFacts DEF Fixed
  <2>2. ASSUME NEW i \in 1..(Len(frames) - 1)
        PROVE  frames[i].base + Len(frames[i].locals) <= frames[i + 1].bottom
    <3>1. frames \in Seq(Frame)
      BY <1>3 DEF StackInv, FramesInv
    <3>2. i \in 1..Len(frames) /\ i + 1 \in 1..Len(frames) /\ i < i + 1
      BY <3>1
    <3>3. Floor(frames[i]) <= frames[i + 1].bottom
      BY <1>3, <3>2 DEF StackInv, FramesInv, Nested
    <3> QED
      BY <3>3 DEF Floor
  <2> QED
    BY <2>1, <2>2 DEF WindowsNested
<1>4. ASSUME StackInv PROVE StoppedThreadEmpty
  <2>1. SUFFICES ASSUME frames = << >> \/ (Len(frames) = 1 /\ f.kind = "Error")
                 PROVE  stack = << >> /\ open_upvalues = << >>
    BY DEF StoppedThreadEmpty
  <2>2. stack \in Seq(Values) /\ open_upvalues \in Seq(used)
    BY <1>4 DEF StackInv, FramesInv, UpValuesInv
  <2>3. Len(stack) = 0
    BY <1>4, <2>1 DEF StackInv, TopInv, OnTop, f
  <2>4. \A u \in used : ~upval[u].open
    <3>1. ASSUME NEW u \in used, upval[u].open PROVE FALSE
      <4>1. upval[u].ind < Len(stack) /\ upval[u].ind \in Nat
        <5>1. upval[u].ind < Len(stack)
          BY <1>4, <3>1, UpValueValues
        <5>2. upval[u] \in UpValue
          BY <1>4 DEF StackInv, UpValuesInv
        <5> QED
          BY <5>1, <5>2 DEF UpValue
      <4> QED
        BY <2>3, <4>1
    <3> QED
      BY <3>1
  <2>5. \A i \in 1..Len(open_upvalues) : FALSE
    <3>1. ASSUME NEW i \in 1..Len(open_upvalues) PROVE FALSE
      <4>1. open_upvalues[i] \in used /\ Listed(open_upvalues, open_upvalues[i])
        BY <2>2 DEF Listed
      <4> QED
        BY <1>4, <2>4, <4>1 DEF StackInv, UpValuesInv
    <3> QED
      BY <3>1
  <2>6. stack = << >>
    BY <2>2, <2>3
  <2>7. open_upvalues = << >>
    <3>1. Len(open_upvalues) \in Nat
      BY <2>2
    <3>2. Len(open_upvalues) = 0
      BY <2>5, <3>1
    <3> QED
      BY <2>2, <3>2
  <2> QED
    BY <2>6, <2>7
<1>5. StackInv => StackAsserts
  BY <1>1, <1>2, <1>3, <1>4 DEF StackAsserts
<1> QED
  BY <1>5, StackHolds, PTL
=============================================================================
