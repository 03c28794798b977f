------------------------------- MODULE Order -------------------------------
(***************************************************************************)
(* The orders the services put pitches and rows in.                        *)
(***************************************************************************)
EXTENDS Integers, FiniteSets

\* Pairs of numbers, such as at-bat index and pitch number, by the first, then by the
\* second.
Before(x, y) == x[1] < y[1] \/ (x[1] = y[1] /\ x[2] < y[2])
Precedence == {p \in (Nat \X Nat) \X (Nat \X Nat) : Before(p[1], p[2])}

\* The members of S in the order of the relation "before": each stands behind as many
\* as precede it.
Below(S, before, x) == {y \in S : <<y, x>> \in before}
InOrder(S, before) ==
    [i \in 1 .. Cardinality(S) |-> CHOOSE x \in S : Cardinality(Below(S, before, x)) = i - 1]
=============================================================================
