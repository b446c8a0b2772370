--------------------------- MODULE SaturatingSum ---------------------------
(***************************************************************************)
(* safeAdd of complexity/complexity.go, in ints from -max-1 to max.        *)
(***************************************************************************)
EXTENDS Integers

MachineInt(max) == -max - 1 .. max
Wrap(n, max)    == IF n > max THEN n - 2 * (max + 1) ELSE n  \* what a machine makes of a sum

\* Mutant: the sum overflows.
MutOverflow(a, b, max) ==
  IF a < 0 THEN (IF b < 0 THEN 1 ELSE b) ELSE IF b < 0 THEN a ELSE Wrap(a + b, max)

\* Negative costs are ignored; a sum below an operand has overflowed.
SafeAdd(a, b, max) ==
  IF a < 0 THEN (IF b < 0 THEN 1 ELSE b)
  ELSE IF b < 0 THEN a
  ELSE IF Wrap(a + b, max) < a THEN max ELSE Wrap(a + b, max)
=============================================================================
