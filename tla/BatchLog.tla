------------------------------ MODULE BatchLog ------------------------------
(***************************************************************************)
(* What storage::Log promises the broker (src/src/storage/log.h), and what *)
(* RaftCluster assumes of it: a sequence of batches that loses nothing but *)
(* what it is told to truncate and, when power goes, batches at its end    *)
(* that no fsync has reported durable.                                     *)
(***************************************************************************)
EXTENDS Naturals, SequencesExt

VARIABLES
    batches,  \* the log: what is open, or what the next open will find
    durable,  \* how many of the batches fsync has reported durable
    keep      \* how many of them the last step had to keep

vars == <<batches, durable, keep>>

Init == batches = <<>> /\ durable = 0 /\ keep = 0

Grow ==
    /\ Len(batches') = Len(batches) + 1
    /\ IsPrefix(batches, batches')
    /\ UNCHANGED durable

Sync ==
    /\ durable' = Len(batches)
    /\ UNCHANGED batches

\* A truncation, a power loss, or a death in the middle of a truncation.
Lose ==
    /\ IsPrefix(batches', batches)
    /\ keep' <= Len(batches')
    /\ durable' = Min({durable, Len(batches')})

Next == keep' \in 0..Len(batches) /\ (Grow \/ Sync \/ Lose)

Spec == Init /\ [][Next]_vars

=============================================================================
