------------------------------ MODULE LuaTable ------------------------------
(***************************************************************************)
(* What a Lua table promises (table/table.rs): a map from keys to values   *)
(* in which an absent key reads as nil, whatever the array and map parts   *)
(* behind it do.  `reply` is the result of the last Table::set.            *)
(***************************************************************************)
CONSTANTS Keys, Vals, Nil, Error

VARIABLES contents, reply

vars == <<contents, reply>>

Init == contents = [k \in Keys |-> Nil] /\ reply = Nil

\* Table::set returns the previous value; setting nil removes the key.
Set(k, v) ==
  /\ reply' = contents[k]
  /\ contents' = [contents EXCEPT ![k] = v]

\* nil and NaN are no keys.
SetInvalid == reply' = Error /\ UNCHANGED contents

Next == SetInvalid \/ \E k \in Keys, v \in Vals \cup {Nil} : Set(k, v)

Spec == Init /\ [][Next]_vars
=============================================================================
