-------------------------------- MODULE Money --------------------------------
(* The arithmetic of money.go: an amount is a whole number of units and a  *)
(* whole number of nanos of the same sign, in one currency.  checkout and  *)
(* frontend carry the same file.  NanosMod is 10^9 in the code; nothing    *)
(* below depends on that.                                                  *)
EXTENDS Integers

CONSTANTS
    NanosMod,       \* nanos of a unit
    Panic           \* what Must returns on an error: it does not return

ASSUME ModAssumption == NanosMod \in Nat /\ NanosMod > 1

SignMatches(m) == m.nanos = 0 \/ m.units = 0 \/ (m.nanos < 0 <=> m.units < 0)

ValidNanos(nanos) == -NanosMod < nanos /\ nanos < NanosMod

IsValid(m) == SignMatches(m) /\ ValidNanos(m.nanos)

\* Go's division truncates; the sum of two valid nanos lies strictly within
\* two units, so that its quotient by nanosMod is -1, 0 or 1.
Carry(nanos) ==
    IF nanos >= NanosMod THEN 1 ELSE IF nanos <= -NanosMod THEN -1 ELSE 0

Money(units, nanos, currency) ==
    [units |-> units, nanos |-> nanos, currency |-> currency]

SameSign(units, nanos) ==
    \/ units = 0 /\ nanos = 0
    \/ units > 0 /\ nanos >= 0
    \/ units < 0 /\ nanos <= 0

\* Mutant: a carry that forgets the unit.
Sum_LosesCarry(l, r) ==
    LET s == l.nanos + r.nanos
    IN  Money(l.units + r.units, s - Carry(s) * NanosMod, l.currency)

\* Mutant: a carry that forgets the remainder.
Sum_KeepsNanos(l, r) ==
    LET s == l.nanos + r.nanos
    IN  Money(l.units + r.units + Carry(s), s, l.currency)

Sum(l, r) ==
    LET units == l.units + r.units
        nanos == l.nanos + r.nanos
        carry == IF SameSign(units, nanos) THEN Carry(nanos)
                 ELSE IF units > 0 THEN -1 ELSE 1
    IN  Money(units + carry, nanos - carry * NanosMod, l.currency)

Summable(l, r) == IsValid(l) /\ IsValid(r) /\ l.currency = r.currency

\* Must(Sum(l, r)).
MustSum(l, r) == IF Summable(l, r) THEN Sum(l, r) ELSE Panic

\* The amount in nanos, as an integer of any size.
Value(m) == m.units * NanosMod + m.nanos
=============================================================================
