----------------------------- MODULE Complexity -----------------------------
(***************************************************************************)
(* The cost of an operation (complexity/complexity.go), which the          *)
(* extension ComplexityLimit compares with a limit before anything is      *)
(* executed.  Selection sets are those of FieldCollection; max is the      *)
(* largest int.  opts holds the functions by which users compute the cost  *)
(* of a field of an object type, for its arguments, from that of what is   *)
(* selected below it (they are any functions on ints; a result below 1 is  *)
(* ignored), what a scalar costs, and the fields that cost nothing.  The   *)
(* types of introspection are left out.                                    *)
(***************************************************************************)
EXTENDS FieldCollection, SaturatingSum

CONSTANTS
  Implementors, \* an interface to the object types that implement it
  Options,      \* what opts may be
  MaxInt,       \* the largest int,
  WideInt       \* and one of a machine with wider ints

ASSUME CostAssumption ==
  /\ MaxInt \in Nat \ {0} /\ WideInt \in Nat /\ MaxInt <= WideInt
  /\ \A opts \in Options :
       /\ opts.scalar \in MachineInt(MaxInt)
       /\ \A field \in DOMAIN opts.custom : opts.custom[field] \in [0 .. MaxInt -> MachineInt(MaxInt)]

FieldComplexity(type, sel, child, opts, max) ==
  LET field == <<type, sel.key, sel.args>> IN
    IF field \in DOMAIN opts.custom /\ opts.custom[field][child] >= 1 THEN opts.custom[field][child]
    ELSE SafeAdd(IF sel.sels = <<>> THEN opts.scalar ELSE 1, child, max)

InterfaceFieldComplexity(sel, child, opts, max) ==
  Max({0} \cup {FieldComplexity(t, sel, child, opts, max) : t \in Implementors[sel.def]})

\* What an item adds to the cost; inner is the cost of what it has below it.
Cost(inner, sel, opts, max) ==
  LET child == inner[Body(sel)] IN
    IF sel.kind # "field" THEN child
    ELSE IF sel.def \in DOMAIN Implementors THEN InterfaceFieldComplexity(sel, child, opts, max)
    ELSE FieldComplexity(sel.def, sel, child, opts, max)

Ignored(sel, opts) == sel.kind = "field" /\ <<sel.def, sel.key>> \in opts.ignored

SelectionSetComplexity(inner, sels, opts, max) ==
  LET complexity[i \in 0 .. Len(sels)] ==
        IF i = 0 THEN 0
        ELSE IF Ignored(sels[i], opts) THEN complexity[i - 1]
        ELSE SafeAdd(complexity[i - 1], Cost(inner, sels[i], opts, max), max)
  IN complexity[Len(sels)]

Calculate(opts, max) ==
  LET inner[sels \in SelectionSets] == SelectionSetComplexity(inner, sels, opts, max) IN inner

-----------------------------------------------------------------------------
Capped(n) == IF n > MaxInt THEN MaxInt ELSE n

\* The same costs for a machine with wider ints: a user's function is still one on ints, and is
\* given the largest int in the place of a larger cost.
Widened(opts) ==
  [custom |-> [field \in DOMAIN opts.custom |-> [child \in 0 .. WideInt |-> opts.custom[field][Capped(child)]]],
   scalar |-> opts.scalar, ignored |-> opts.ignored]

\* The cost is the one that is computed in wider ints, cut off at the largest.
Saturates(sels, opts) ==
  Calculate(opts, MaxInt)[sels] = Capped(Calculate(Widened(opts), WideInt)[sels])
=============================================================================
