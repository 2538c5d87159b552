-------------------------- MODULE RegisterAllocator --------------------------
(***************************************************************************)
(* compiler/register_allocator.rs: which registers of a function are in    *)
(* use while it is compiled.  The code has 256 of them, numbered by a u8;  *)
(* NumRegs is a parameter and the arithmetic on register numbers wraps at  *)
(* NumRegs, as that of a u8 does at 256 when overflow is not trapped.      *)
(***************************************************************************)
EXTENDS Integers, FiniteSetsExt

CONSTANT NumRegs
ASSUME NumRegsAssumption == NumRegs \in Nat \ {0}

Fresh == [registers |-> {}, first_free |-> 0, stack_top |-> 0, stack_size |-> 0]

Larger(a, b) == IF a < b THEN b ELSE a
Smaller(a, b) == IF a < b THEN a ELSE b
CanAllocate(a) == a.first_free < NumRegs
Allocated(a) == a.first_free           \* the register that Allocate hands out

Allocate(a) ==
  LET used == a.registers \cup {a.first_free}
      top == IF a.first_free = a.stack_top THEN a.stack_top + 1 ELSE a.stack_top
  IN [registers |-> used, stack_top |-> top, stack_size |-> Larger(a.stack_size, top),
      first_free |-> Min({i \in a.first_free..NumRegs : i = NumRegs \/ i \notin used})]

CanPush(a, size) == size # 0 /\ size <= NumRegs - a.stack_top

\* The loop over rbegin..rbegin + size is in u8 arithmetic.
PushedRegisters(a, size) == a.stack_top..(((a.stack_top + size) % NumRegs) - 1)

Push(a, size) ==
  [registers |-> a.registers \cup PushedRegisters(a, size),
   first_free |-> IF a.first_free = a.stack_top THEN a.first_free + size ELSE a.first_free,
   stack_top |-> a.stack_top + size,
   stack_size |-> Larger(a.stack_size, a.stack_top + size)]

\* The top also drops past free registers that the new top would leave below it.
PopTo(a, new_top) ==
  LET used == a.registers \cap 0..(new_top - 1)
      free == Smaller(a.first_free, new_top)
  IN IF a.stack_top <= new_top THEN a
     ELSE [a EXCEPT !.registers = used, !.first_free = free,
                    !.stack_top = Max({free} \cup {i + 1 : i \in used \cap free..new_top})]

CanFree(a, r) == r \in a.registers     \* asserted by free

Free(a, r) ==
  IF r + 1 = a.stack_top THEN PopTo(a, r)
  ELSE [a EXCEPT !.registers = @ \ {r}, !.first_free = Smaller(@, r)]

(* What the allocator's own fields say of one another. *)
Consistent(a) ==
  /\ a.first_free = Min({i \in 0..NumRegs : i \notin a.registers})
  /\ a.stack_top = Max({0} \cup {i + 1 : i \in a.registers})
  /\ a.stack_size \in a.stack_top..NumRegs
=============================================================================
