------------------------------- MODULE MCRaft -------------------------------
(* Small clusters of three brokers for TLC.                                *)
EXTENDS RaftCluster

CONSTANTS n1, n2, n3

\* Who may campaign in which term.  One candidate per term is enough for the
\* properties of logs, since a term elects at most one leader (ElectionSafety,
\* checked with Rivals).
Rivals == {<<n1, 1>>, <<n2, 1>>, <<n2, 2>>}
TwoTerms == {<<n1, 1>>, <<n2, 2>>}
ThreeTerms == {<<n1, 1>>, <<n2, 2>>, <<n3, 3>>}
Duel == {<<n1, 1>>, <<n2, 2>>, <<n1, 3>>, <<n2, 4>>}

\* Everything but the history of votes, which no action reads and the properties
\* of logs do not mention: states that differ in it alone are one state.
WithoutBallots ==
    <<term, voted_for, dirty, slot, disk, role, votes, log, store, synced, commit_index,
      match, next, running, msgs, elected, committed>>

=============================================================================
