------------------------- MODULE HardStateRegister -------------------------
(***************************************************************************)
(* What raft.state promises the node that owns it (the contract that       *)
(* src/src/raft/state_file.h states and Broker::drive relies on): a hard   *)
(* state that was reported written, or was recovered, is what a restart    *)
(* finds, or one whose write was attempted later.  Only a register that    *)
(* never held anything may be found unreadable.                            *)
(***************************************************************************)
CONSTANTS State,  \* the hard states a node may write
          Fresh   \* the hard state of a node that has never voted

VARIABLES up,        \* the node is running
          reported,  \* what was last reported written, or recovered
          possible,  \* what a restart may find; {} when it can find nothing
          written    \* something has been reported or recovered from the file

vars == <<up, reported, possible, written>>

Init ==
    /\ up = TRUE
    /\ reported = Fresh
    /\ possible = {Fresh}
    /\ written = FALSE

Write(s) ==
    /\ up
    /\ reported' = s
    /\ possible' = {s}
    /\ written' = TRUE
    /\ UNCHANGED up

\* A write that is not reported may or may not have taken place.
FailedWrite(s) ==
    /\ up
    /\ possible' \in {possible, possible \cup {s}}
    /\ UNCHANGED <<up, reported, written>>

PowerLoss ==
    /\ up
    /\ up' = FALSE
    /\ \/ \E s \in possible : possible' = {s}
       \/ ~written /\ possible' = {}
    /\ written' \in {written, TRUE}
    /\ UNCHANGED reported

Start ==
    /\ ~up
    /\ up' = TRUE
    /\ reported' \in possible
    /\ UNCHANGED <<possible, written>>

Next ==
    \/ \E s \in State : Write(s) \/ FailedWrite(s)
    \/ PowerLoss
    \/ Start

Spec == Init /\ [][Next]_vars

=============================================================================
