--------------------------- MODULE MCSimulation -----------------------------
(* Three nodes whose clocks disagree, for TLC.                             *)
EXTENDS Simulation

CONSTANTS n1, n2

Offsets == [n \in Node |-> IF n = n1 THEN 0 ELSE 3]

OneLink == {<<n1, n2>>}

=============================================================================
