---------------------------- MODULE MCExecutePlan ----------------------------
(***************************************************************************)
(* ExecutePlan for TLC: three tools, in a chain (c requires b requires a), *)
(* or with two tools sharing one dependency, or one needing two.           *)
(***************************************************************************)
EXTENDS ExecutePlan, TLC

CONSTANTS a, b, c

MCTools == {a, b, c}
Chain   == (a :> {}) @@ (b :> {a}) @@ (c :> {b})
Fork    == (a :> {}) @@ (b :> {a}) @@ (c :> {a})
Join    == (a :> {}) @@ (b :> {}) @@ (c :> {a, b})
MCGraphs  == {Chain, Fork, Join}

\* ExecuteTail.cfg: two tools, one the other's dependency, both agent hosts
\* whose settings an option writes, and a screen that updates tools meanwhile.
TwoTools  == {a, b}
Pair      == {(a :> {}) @@ (b :> {a})}
MCHosts   == {a, b}
MCCovered == {a, b}
=============================================================================
