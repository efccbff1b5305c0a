---------------------------- MODULE MCEventLoop -----------------------------
(* A loop with a few tasks, for TLC.                                       *)
EXTENDS EventLoop

CONSTANTS x, y, z

\* run() blocks for as long as it takes, main's loop for a short time.
RunOrMain == {kNoTimeout, 1}

=============================================================================
