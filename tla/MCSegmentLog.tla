---------------------------- MODULE MCSegmentLog ----------------------------
(* The log of one broker for TLC.                                          *)
EXTENDS SegmentLog

\* batches is a function of the rest, and keep is only read in the step that sets
\* it: states that differ in them alone are one state.
View == <<dir, segments, next_offset, status, durable>>

=============================================================================
