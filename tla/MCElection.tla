----------------------------- MODULE MCElection -----------------------------
(* Three nodes, one link of which may be cut, for TLC.                     *)
EXTENDS Election

CONSTANTS n1, n2, n3

OneLink == {{n1, n2}}

=============================================================================
