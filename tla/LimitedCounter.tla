--------------------------- MODULE LimitedCounter ---------------------------
(***************************************************************************)
(* limited_int of ma/limited_int.hpp: a counter that, instead of wrapping  *)
(* around, stays at the largest value of its integer type and remembers    *)
(* that it overflowed.                                                     *)
(***************************************************************************)
EXTENDS Naturals

CONSTANT MaxCount   \* the largest value of the integer type

ASSUME CounterAssumption == MaxCount \in Nat \ {0}

Counter == [value : 0..MaxCount, overflowed : BOOLEAN]

Zero == [value |-> 0, overflowed |-> FALSE]

Overflow == [value |-> MaxCount, overflowed |-> TRUE]

\* Mutant: operator += that takes the room for the limit.
AddWithoutLimit(c, n) ==
  IF c.overflowed THEN c
  ELSE IF MaxCount - c.value < n
       THEN [value |-> (c.value + n) % (MaxCount + 1), overflowed |-> FALSE]
       ELSE [c EXCEPT !.value = @ + n]

\* operator += with an integer of the type.
Add(c, n) ==
  IF c.overflowed THEN c
  ELSE IF MaxCount - c.value < n THEN Overflow
       ELSE [c EXCEPT !.value = @ + n]

\* operator += with another counter.
AddCounter(c, d) ==
  IF c.overflowed THEN c
  ELSE IF d.overflowed \/ MaxCount - c.value < d.value THEN Overflow
       ELSE [c EXCEPT !.value = @ + d.value]

\* operator ++.
Increment(c) ==
  IF c.overflowed THEN c
  ELSE IF c.value = MaxCount THEN [c EXCEPT !.overflowed = TRUE]
       ELSE [c EXCEPT !.value = @ + 1]

-----------------------------------------------------------------------------
\* c is what a counter should be after it counted n: the number itself, or
\* the largest value, marked, if there is no room for the number.
Counts(c, n) ==
  c = IF n <= MaxCount THEN [value |-> n, overflowed |-> FALSE] ELSE Overflow
=============================================================================
