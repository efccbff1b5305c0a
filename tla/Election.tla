------------------------------ MODULE Election ------------------------------
(***************************************************************************)
(* The clocks of raft::Node (src/src/raft/node.cpp): election timeouts,    *)
(* heartbeats and the rule that a follower with a leader grants no vote.   *)
(* RaftCluster lets a node campaign at any time; here it does when tick()  *)
(* says so.                                                                *)
(*                                                                         *)
(* Time goes in rounds.  In a round every node that is up ticks once, in   *)
(* any order, and what is sent in a round arrives before its end: nodes    *)
(* drift by less than a tick, and messages take less than one.             *)
(* A link that is cut drops what is sent over it, and stays cut.  Nothing  *)
(* is proposed, all logs are the same, and a write of raft.state takes no  *)
(* time.                                                                   *)
(***************************************************************************)
EXTENDS Integers, FiniteSets

CONSTANTS
    Node,
    kNoNode,
    election_timeout_ticks,
    election_timeout_jitter_ticks,
    heartbeat_timeout_ticks,
    Links,       \* the pairs of nodes whose link may be cut
    Crashable,   \* the nodes that may crash
    MaxTerm,     \* bound: no node campaigns in a later term
    MaxFaults    \* bound: cuts and crashes in a behaviour

ASSUME ClusterAssumption ==
    /\ IsFiniteSet(Node) /\ kNoNode \notin Node
    /\ Links \subseteq SUBSET Node /\ Crashable \subseteq Node
ASSUME TimeAssumption ==
    /\ {election_timeout_ticks, election_timeout_jitter_ticks} \subseteq Nat
    /\ {heartbeat_timeout_ticks, MaxTerm} \subseteq Nat \ {0}
    /\ MaxFaults \in Nat

VARIABLES
    node,     \* the fields of each raft::Node
    up,       \* the nodes that run
    cut,      \* the links that are cut
    msgs,     \* messages in flight
    ticked,   \* the nodes that have ticked in this round
    faults    \* how many links were cut and nodes crashed

vars == <<node, up, cut, msgs, ticked, faults>>

Quorum == Cardinality(Node) \div 2 + 1

-----------------------------------------------------------------------------
(* The node: operators on its fields.  Those that reset the election timer *)
(* have one outcome for each jitter.                                       *)

Timeouts ==
    LET jitters == IF election_timeout_jitter_ticks = 0 THEN {0}
                   ELSE 0..(election_timeout_jitter_ticks - 1)
        sum == {election_timeout_ticks + j : j \in jitters}
    IN  {IF s = 0 THEN 1 ELSE s : s \in sum}

reset_election_timer(n) ==
    {[n EXCEPT !.election_elapsed = 0, !.election_timeout = s] : s \in Timeouts}

become_follower(n, term, leader) ==
    reset_election_timer(
        [n EXCEPT !.term = term,
                  !.voted_for = IF term > n.term THEN kNoNode ELSE @,
                  !.role = "Follower", !.leader = leader, !.votes = {}])

become_candidate(n, i) ==
    reset_election_timer(
        [n EXCEPT !.term = @ + 1, !.voted_for = i,
                  !.role = "Candidate", !.leader = kNoNode, !.votes = {i}])

become_leader(n, i) == [n EXCEPT !.role = "Leader", !.leader = i, !.heartbeat_elapsed = 0]

Message(type, i, to, n, granted) ==
    [type |-> type, from |-> i, to |-> to, term |-> n.term, granted |-> granted]

broadcast(type, i, n) == {Message(type, i, to, n, FALSE) : to \in Node \ {i}}

\* A handler's outcome: the node, and what it sends.
Outcome(n, out) == [node |-> n, out |-> out]

campaign(n, i) ==
    {IF Quorum = 1
     THEN Outcome(become_leader(c, i), broadcast("AppendEntries", i, c))
     ELSE Outcome(c, broadcast("RequestVote", i, c)) : c \in become_candidate(n, i)}

heartbeat_due(n) == n.heartbeat_elapsed + 1 >= heartbeat_timeout_ticks

\* Mutant: a candidate waits for its answers, however long they take.
later_follower(n) == IF n.role = "Follower" THEN [n EXCEPT !.election_elapsed = @ + 1] ELSE n

later(n) == [n EXCEPT !.election_elapsed = @ + 1]

tick(n, i) ==
    IF n.role = "Leader"
    THEN IF heartbeat_due(n)
         THEN {Outcome([n EXCEPT !.heartbeat_elapsed = 0], broadcast("AppendEntries", i, n))}
         ELSE {Outcome([n EXCEPT !.heartbeat_elapsed = @ + 1], {})}
    ELSE IF later(n).election_elapsed >= n.election_timeout THEN campaign(later(n), i)
    ELSE {Outcome(later(n), {})}

\* Mutant: the rule of the Raft paper, without the lease.
leased_never(n, m) == FALSE

\* The disruptive-server rule: a follower that has lately heard of a leader ignores candidates.
leased(n, m) ==
    /\ m.type = "RequestVote"
    /\ n.role = "Follower"
    /\ n.leader # kNoNode
    /\ n.election_elapsed < election_timeout_ticks

\* A message of a later term makes its receiver a follower.
adopt(n, m) ==
    IF m.term > n.term
    THEN become_follower(n, m.term, IF m.type = "AppendEntries" THEN m.from ELSE kNoNode)
    ELSE {n}

reply(n, m, granted) ==
    CASE m.type = "RequestVote" -> {Message("RequestVoteResponse", m.to, m.from, n, granted)}
      [] m.type = "AppendEntries" -> {Message("AppendEntriesResponse", m.to, m.from, n, granted)}
      [] OTHER -> {}

handle_request_vote(n, m) ==
    LET granted == n.voted_for \in {kNoNode, m.from}
        voter == IF granted THEN [n EXCEPT !.voted_for = m.from, !.election_elapsed = 0] ELSE n
    IN  {Outcome(voter, reply(voter, m, granted))}

counts(n, m) == n.role = "Candidate" /\ m.granted

handle_request_vote_response(n, m) ==
    IF ~counts(n, m) THEN {Outcome(n, {})}
    ELSE LET c == [n EXCEPT !.votes = @ \cup {m.from}]
         IN  IF Cardinality(c.votes) < Quorum THEN {Outcome(c, {})}
             ELSE {Outcome(become_leader(c, m.to), broadcast("AppendEntries", m.to, c))}

\* Two leaders in a term ignore each other; everyone else follows.
handle_append_entries(n, m) ==
    IF n.role = "Leader" THEN {Outcome(n, {})}
    ELSE {Outcome(f, reply(f, m, TRUE)) : f \in become_follower(n, m.term, m.from)}

\* All logs are the same, so a response leaves the leader nothing to do.
handle(n, m) ==
    CASE m.term < n.term -> {Outcome(n, reply(n, m, FALSE))}
      [] m.type = "RequestVote" -> handle_request_vote(n, m)
      [] m.type = "RequestVoteResponse" -> handle_request_vote_response(n, m)
      [] m.type = "AppendEntries" -> handle_append_entries(n, m)
      [] OTHER -> {Outcome(n, {})}

step(n, m) == IF leased(n, m) THEN {Outcome(n, {})} ELSE UNION {handle(a, m) : a \in adopt(n, m)}

-----------------------------------------------------------------------------
(* The cluster.                                                            *)

Reaches(i, j) == {i, j} \notin cut

Arriving(out) == {m \in out : m.to \in up /\ Reaches(m.from, m.to)}

Tick(i) ==
    /\ i \in up \ ticked
    /\ \E o \in tick(node[i], i) :
          /\ o.node.term <= MaxTerm
          /\ node' = [node EXCEPT ![i] = o.node]
          /\ msgs' = msgs \cup Arriving(o.out)
    /\ ticked' = ticked \cup {i}
    /\ UNCHANGED <<up, cut, faults>>

Deliver(m) ==
    /\ \E o \in step(node[m.to], m) :
          /\ node' = [node EXCEPT ![m.to] = o.node]
          /\ msgs' = (msgs \ {m}) \cup Arriving(o.out)
    /\ UNCHANGED <<up, cut, ticked, faults>>

\* A round is over: everyone has ticked, and every message has arrived.
EndRound ==
    /\ up \subseteq ticked
    /\ msgs = {}
    /\ ticked' = {}
    /\ UNCHANGED <<node, up, cut, msgs, faults>>

Cut(link) ==
    /\ faults < MaxFaults
    /\ cut' = cut \cup {link}
    /\ faults' = faults + 1
    /\ UNCHANGED <<node, up, msgs, ticked>>

\* What a node starts with: the state it has saved.
Booted(term, voted_for) ==
    reset_election_timer(
        [term |-> term, voted_for |-> voted_for, role |-> "Follower", leader |-> kNoNode,
         votes |-> {}, election_elapsed |-> 0, election_timeout |-> 0, heartbeat_elapsed |-> 0])

Crash(i) ==
    /\ faults < MaxFaults
    /\ i \in up
    /\ up' = up \ {i}
    /\ faults' = faults + 1
    /\ msgs' = {m \in msgs : m.to # i}
    /\ \E n \in Booted(node[i].term, node[i].voted_for) : node' = [node EXCEPT ![i] = n]
    /\ UNCHANGED <<cut, ticked>>

Restart(i) ==
    /\ i \notin up
    /\ up' = up \cup {i}
    /\ UNCHANGED <<node, cut, msgs, ticked, faults>>

Init ==
    /\ node \in [Node -> Booted(0, kNoNode)]
    /\ up = Node
    /\ cut = {}
    /\ msgs = {}
    /\ ticked = {}
    /\ faults = 0

Advance == (\E i \in Node : Tick(i)) \/ (\E m \in msgs : Deliver(m)) \/ EndRound

Next ==
    \/ Advance
    \/ \E link \in Links \ cut : Cut(link)
    \/ \E i \in Crashable : Crash(i) \/ Restart(i)

\* Time goes on, and every message of a round arrives.  No node has to restart.
Spec == Init /\ [][Next]_vars /\ WF_vars(Advance)

-----------------------------------------------------------------------------
(* Properties.                                                             *)

Reachable(i) == {j \in up : Reaches(i, j)}

\* i leads every node it reaches, they are a majority, and nobody is about to tell it of a
\* later term.
Settled(i) ==
    /\ i \in up
    /\ node[i].role = "Leader"
    /\ Cardinality(Reachable(i)) >= Quorum
    /\ \A j \in Reachable(i) : node[j].term = node[i].term /\ node[j].leader = i
    /\ \A m \in msgs : m.to \in Reachable(i) /\ m.term > node[i].term =>
          m.type = "RequestVote" /\ m.to # i

\* A leader that a majority hears stays, whoever campaigns beyond a cut link, for as long as
\* no link or node comes or goes: no follower is too late for a heartbeat, and none deposes
\* "a leader it was, at that moment, talking to" (retrospective.md, #2).
SettledStays == [][\A i \in Node : Settled(i) /\ UNCHANGED <<cut, up>> => Settled(i)']_vars

\* Whatever fault there is, there is a leader over and over, or a new term:
\* nobody waits for a candidate that has lost, or for a leader that is gone.
LeaderOrRetry ==
    []<>(\/ \E i \in up : node[i].role = "Leader"
         \/ \E i \in Node : node[i].term = MaxTerm)

=============================================================================
