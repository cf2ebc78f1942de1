------------------------------ MODULE BlockIds ------------------------------
(***************************************************************************)
(* The 8-bit block ids that both halves of the diode count with.           *)
(*                                                                         *)
(* The sender gives the n-th block it accepts the id n % 256 (a wrapping   *)
(* u8), and the receiver rebuilds the order of the blocks from these ids   *)
(* alone.  IdModulus is 256 in the program; TLC uses a smaller one.        *)
(***************************************************************************)
EXTENDS Integers

CONSTANT IdModulus      \* u8::MAX + 1

\* A window narrower than two ids holds no block.
ASSUME IdModulusAssumption == IdModulus \in Nat /\ IdModulus >= 3

Ids == 0 .. (IdModulus - 1)

\* Mutant: a wider counter that never wraps.
WrappingAddWide(id, n) == id + n

\* u8::wrapping_add
WrappingAdd(id, n) == (id + n) % IdModulus

\* reblock::WINDOW_WIDTH, u8::MAX / 2
WindowWidth == (IdModulus - 1) \div 2

\* The id the sender gives to the block it accepts in position n, from 0.
IdOf(n) == n % IdModulus

\* How many increments lead from one id to another.
Ahead(from, to) == (to - from) % IdModulus

=============================================================================
