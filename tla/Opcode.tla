-------------------------------- MODULE Opcode --------------------------------
(***************************************************************************)
(* opcode.rs: an Operation, whose operands may each be a register or a     *)
(* constant, as an OpCode, where the kind of the operands is part of the   *)
(* opcode.  AddRC is <<"Add", "R", "K">> here.                             *)
(***************************************************************************)
EXTENDS Integers, SequencesExt

KeyOps == {"GetTable", "GetUpTable", "Method"}
KeyValueOps == {"SetTable", "SetUpTable"}
CompareOps == {"Eq", "Less", "LessEq"}
ArithOps == {"Add", "Sub", "Mul", "Div", "IDiv", "Mod", "Pow", "BitAnd", "BitOr", "BitXor",
             "ShiftLeft", "ShiftRight"}

\* The operands `fs` lose their kind, and the opcode gets it.
Flatten(op, fs) ==
  [x \in DOMAIN op |-> IF x = "k" THEN <<op.k>> \o [i \in 1..Len(fs) |-> op[fs[i]][1]]
                       ELSE IF x \in Range(fs) THEN op[x][2] ELSE op[x]]
Unflatten(r, fs) ==
  [x \in DOMAIN r |-> IF x = "k" THEN r.k[1]
                      ELSE IF x \in Range(fs) THEN <<r.k[SelectInSeq(fs, LAMBDA f : f = x) + 1], r[x]>>
                      ELSE r[x]]

EncodeKey(op) == Flatten(op, <<"key">>)
EncodeKeyValue(op) == Flatten(op, <<"key", "value">>)
EncodeCompare(op) == Flatten(op, <<"left", "right">>)
EncodeArith(op) == Flatten(op, <<"left", "right">>)

encode(op) ==
  CASE op.k \in KeyOps -> EncodeKey(op)
    [] op.k \in KeyValueOps -> EncodeKeyValue(op)
    [] op.k \in CompareOps -> EncodeCompare(op)
    [] op.k \in ArithOps -> EncodeArith(op)
    [] OTHER -> Flatten(op, << >>)

DecodeKey(r) == Unflatten(r, <<"key">>)
DecodeKeyValue(r) == Unflatten(r, <<"key", "value">>)
DecodeCompare(r) == Unflatten(r, <<"left", "right">>)
DecodeArith(r) == Unflatten(r, <<"left", "right">>)

decode(r) ==
  CASE r.k[1] \in KeyOps -> DecodeKey(r)
    [] r.k[1] \in KeyValueOps -> DecodeKeyValue(r)
    [] r.k[1] \in CompareOps -> DecodeCompare(r)
    [] r.k[1] \in ArithOps -> DecodeArith(r)
    [] OTHER -> Unflatten(r, << >>)
=============================================================================
