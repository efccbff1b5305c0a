---------------------------- MODULE MCStateFile ----------------------------
(* StateFile with three hard states to write.                              *)
EXTENDS StateFile

CONSTANTS s1, s2, s3

HardStates == {s1, s2, s3}

=============================================================================
