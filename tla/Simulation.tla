---------------------------- MODULE Simulation ------------------------------
(***************************************************************************)
(* The simulator (src/src/sim/simulation.cpp): virtual time, its event     *)
(* queue (src/src/sim/scheduler.cpp), the chains of faults it schedules,   *)
(* the timers of the nodes it hosts and what its oracle makes of leaders   *)
(* that come and go (src/src/sim/workload.cpp).                            *)
(*                                                                         *)
(* A node is its tick timer, in its own clock, and whether it leads: any   *)
(* round may depose a leader or elect one, if a majority is up.  What a    *)
(* crash or a cut does to disks and connections is in StateFile,           *)
(* SegmentLog and Streams.  Deliveries and jumps of the wall clock, which  *)
(* no timer reads, are left out.                                           *)
(*                                                                         *)
(* Faults says what may go wrong:                                          *)
(*   "boot"        a restarting node cannot open its log                   *)
(*   "first_boot"  ... nor can one that starts with the run                *)
(*   "disk"        a broker stops serving and ticks no more                *)
(*   "partition"   links are cut, one way or both, and heal                *)
(***************************************************************************)
EXTENDS Integers, SequencesExt

CONSTANTS
    Node,
    BootOffset,          \* SimClock::boot_offset_ of each node
    Tick,                \* BrokerConfig::tick_interval
    CrashInterval,       \* FaultConfig::crash_interval
    RestartDelay,        \* the delays from restart_delay_min to restart_delay_max
    PartitionInterval,   \* FaultConfig::partition_interval
    PartitionDuration,   \* the durations from partition_duration_min to .._max
    Links,               \* the <<from, to>> pairs a partition may fall on
    Duration,            \* SimulationConfig::duration
    Faults

ASSUME SimulationAssumption ==
    /\ BootOffset \in [Node -> Nat]
    /\ {Tick, CrashInterval, PartitionInterval, Duration} \subseteq Nat \ {0}
    /\ RestartDelay \cup PartitionDuration \subseteq Nat \ {0}
    /\ Links \subseteq (Node \X Node) \ {<<n, n>> : n \in Node}
    /\ Faults \subseteq {"boot", "first_boot", "disk", "partition"}

kNoTimeout == -1

VARIABLES
    now,               \* Scheduler::now_
    queue,             \* Scheduler::queue_, by time and by age among equals
    step,              \* where Simulation::run is in its loop
    up,                \* Node::up
    timer,             \* the deadline of the tick timer, in the node's clock
    leading,           \* the nodes whose workload is_leader()
    cuts,              \* Fabric::cuts_
    leader_present, leaderless_since, gap_had_quorum, longest_gap, gaps,  \* Oracle
    ticks, booted_at,  \* history: ticks of a node and when it started
    lost_at,           \* history: when the last leader went
    quorum_since       \* history: since when a majority has been up

oracleVars == <<leader_present, leaderless_since, gap_had_quorum, longest_gap, gaps, quorum_since>>
nodeVars == <<up, timer, leading, ticks, booted_at, lost_at>>
vars == <<now, queue, step, cuts, nodeVars, oracleVars>>

IsMajority(s) == 2 * Cardinality(s) > Cardinality(Node)

-----------------------------------------------------------------------------
(* Scheduler.                                                              *)

\* Mutant: never is the smallest number it happens to be.
earlier_deadline_numeric(a, b) == IF a < b THEN a ELSE b

earlier_deadline(a, b) ==
    IF a = kNoTimeout THEN b ELSE IF b = kNoTimeout THEN a ELSE IF a < b THEN a ELSE b

\* What is due after the end of the run never happens, and its time is not kept.
cap(t) == IF t > Duration THEN Duration + 1 ELSE t

\* Behind every event that is due as early: its id is the highest.
schedule_after(q, delay, what, arg) ==
    LET when == cap(now + delay)
        ahead == {k \in 1..Len(q) : q[k].when <= when}
    IN  InsertAt(q, Cardinality(ahead) + 1, [when |-> when, what |-> what, arg |-> arg])

next_deadline == IF queue = <<>> THEN kNoTimeout ELSE Head(queue).when

\* rng_.next_in_range(mean / 2, mean * 3 / 2).
around(mean) == (mean \div 2)..((mean * 3) \div 2)

-----------------------------------------------------------------------------
(* Nodes.                                                                  *)

monotonic_now(n) == now + BootOffset[n]

in_shared_time(n, local) == local - BootOffset[n]

\* Mutant: a timer is set in shared time.
armed_shared(n) == now + Tick

\* Broker::schedule_tick: the deadline of a tick timer that is set now.
armed(n) == monotonic_now(n) + Tick

next_node_deadline ==
    LET due == {in_shared_time(n, timer[n]) : n \in {m \in up : timer[m] # kNoTimeout}}
    IN  IF due = {} THEN kNoTimeout ELSE CHOOSE t \in due : \A u \in due : t <= u

\* Leaders after a step; the history of their loss.
Lead(s) ==
    /\ leading' = s
    /\ lost_at' = IF leading # {} /\ s = {} THEN now ELSE lost_at

\* What boot() leaves of a node that starts, and of one that cannot.
boot(n) ==
    /\ up' = up \cup {n}
    /\ timer' = [timer EXCEPT ![n] = armed(n)]
    /\ ticks' = [ticks EXCEPT ![n] = 0]
    /\ booted_at' = [booted_at EXCEPT ![n] = now]
    /\ UNCHANGED <<leading, lost_at>>

boot_fails == UNCHANGED nodeVars

-----------------------------------------------------------------------------
(* What the scheduler runs.  rest is the queue without the event.          *)

\* Simulation::crash_node and schedule_restart.
crash_node(n, rest) ==
    /\ IF n \in up
       THEN /\ up' = up \ {n}
            /\ timer' = [timer EXCEPT ![n] = kNoTimeout]
            /\ Lead(leading \ {n})
            /\ \E d \in RestartDelay : queue' = schedule_after(rest, d, "restart", n)
       ELSE /\ queue' = rest
            /\ UNCHANGED <<up, timer, leading, lost_at>>
    /\ UNCHANGED <<cuts, ticks, booted_at>>

\* Mutant: whether the boot succeeded is not looked at.
after_boot_crash(n, rest, booted) ==
    \E d \in around(CrashInterval) : queue' = schedule_after(rest, d, "crash", n)

after_boot(n, rest, booted) ==
    IF booted
    THEN \E d \in around(CrashInterval) : queue' = schedule_after(rest, d, "crash", n)
    ELSE \E d \in RestartDelay : queue' = schedule_after(rest, d, "restart", n)

\* The event of schedule_restart.
restart(n, rest) ==
    /\ \/ boot(n) /\ after_boot(n, rest, TRUE)
       \/ "boot" \in Faults /\ boot_fails /\ after_boot(n, rest, FALSE)
    /\ UNCHANGED cuts

\* The links that cut_both, or one cut, takes away.
links(from, to, asymmetric) ==
    IF asymmetric THEN {<<from, to>>} ELSE {<<from, to>>, <<to, from>>}

\* Mutant: only one direction of a link that was cut both ways is healed.
healed_one_way(from, to, asymmetric) == {<<from, to>>}

healed(from, to, asymmetric) == links(from, to, asymmetric)

\* The event of schedule_partition, which schedules the next one too.
partition(rest) ==
    /\ \E link \in Links, asymmetric \in BOOLEAN, d \in PartitionDuration,
          n \in around(PartitionInterval) :
          /\ cuts' = cuts \cup links(link[1], link[2], asymmetric)
          /\ queue' = schedule_after(
                         schedule_after(rest, d, "heal", healed(link[1], link[2], asymmetric)),
                         n, "partition", {})
    /\ UNCHANGED nodeVars

heal(pairs, rest) ==
    /\ cuts' = cuts \ pairs
    /\ queue' = rest
    /\ UNCHANGED nodeVars

-----------------------------------------------------------------------------
(* Simulation::run.                                                        *)

advance ==
    /\ step = "advance"
    /\ LET next == earlier_deadline(next_deadline, next_node_deadline)
       IN  IF next = kNoTimeout \/ next > Duration
           THEN now' = Duration /\ step' = "done"
           ELSE now' = (IF next > now THEN next ELSE now) /\ step' = "events"
    /\ UNCHANGED <<queue, cuts, nodeVars, oracleVars>>

\* Mutant: the instant itself is left out.
due_event_strict == queue # <<>> /\ Head(queue).when < now

due_event == queue # <<>> /\ Head(queue).when <= now

run_next_before ==
    /\ step = "events"
    /\ due_event
    /\ LET e == Head(queue)
           rest == Tail(queue)
       IN  \/ e.what = "crash" /\ crash_node(e.arg, rest)
           \/ e.what = "restart" /\ restart(e.arg, rest)
           \/ e.what = "partition" /\ partition(rest)
           \/ e.what = "heal" /\ heal(e.arg, rest)
    /\ UNCHANGED <<now, step, oracleVars>>

\* drain_nodes: every node that is up runs until it is quiet.  Its tick fires if it is
\* due and is set again from the node's own clock.
drain_nodes ==
    /\ step = "events"
    /\ ~due_event
    /\ step' = "sample"
    /\ LET due == {n \in up : timer[n] # kNoTimeout /\ timer[n] <= monotonic_now(n)}
       IN  /\ ticks' = [n \in Node |-> IF n \in due THEN ticks[n] + 1 ELSE ticks[n]]
           /\ \E stops \in IF "disk" \in Faults THEN SUBSET due ELSE {{}} :
                 timer' = [n \in Node |-> IF n \in stops THEN kNoTimeout
                                          ELSE IF n \in due THEN armed(n)
                                          ELSE timer[n]]
    /\ \/ Lead(leading)
       \/ \E n \in leading : Lead(leading \ {n})
       \/ \E n \in up \ leading : IsMajority(up) /\ Lead(leading \cup {n})
    /\ UNCHANGED <<now, queue, cuts, up, booted_at, oracleVars>>

note_leader_present ==
    /\ leader_present' = TRUE
    /\ LET gap == now - leaderless_since
       IN  IF leader_present THEN UNCHANGED <<longest_gap, gaps>>
           ELSE /\ longest_gap' = IF gap > longest_gap THEN gap ELSE longest_gap
                /\ gaps' = IF gap_had_quorum THEN Append(gaps, gap) ELSE gaps
    /\ UNCHANGED <<leaderless_since, gap_had_quorum>>

\* Mutant: a gap inherits what was found of the last one.
note_leader_absent_stale(lost) ==
    /\ leader_present' = FALSE
    /\ leaderless_since' = IF leader_present THEN now ELSE leaderless_since
    /\ gap_had_quorum' = (gap_had_quorum /\ ~lost)
    /\ UNCHANGED <<longest_gap, gaps>>

\* note_leader_absent, and note_quorum_lost when no majority is up.
note_leader_absent(lost) ==
    /\ leader_present' = FALSE
    /\ leaderless_since' = IF leader_present THEN now ELSE leaderless_since
    /\ gap_had_quorum' = ((leader_present \/ gap_had_quorum) /\ ~lost)
    /\ UNCHANGED <<longest_gap, gaps>>

sample ==
    /\ step = "sample"
    /\ step' = "advance"
    /\ IF leading # {} THEN note_leader_present ELSE note_leader_absent(~IsMajority(up))
    /\ quorum_since' = IF ~IsMajority(up) THEN kNoTimeout
                       ELSE IF quorum_since = kNoTimeout THEN now ELSE quorum_since
    /\ UNCHANGED <<now, queue, cuts, nodeVars>>

\* boot() of every node, then schedule_crash of every node and schedule_partition.
Init ==
    /\ now = 0
    /\ step = "advance"
    /\ up \in IF "first_boot" \in Faults THEN SUBSET Node ELSE {Node}
    /\ timer = [n \in Node |-> IF n \in up THEN armed(n) ELSE kNoTimeout]
    /\ \E delay \in [Node -> around(CrashInterval)] :
       \E q \in {FoldLeft(LAMBDA p, n : schedule_after(p, delay[n], "crash", n),
                          <<>>, SetToSeq(Node))} :
          IF "partition" \in Faults
          THEN \E d \in around(PartitionInterval) : queue = schedule_after(q, d, "partition", {})
          ELSE queue = q
    /\ leading = {}
    /\ cuts = {}
    /\ leader_present = FALSE
    /\ leaderless_since = 0
    /\ gap_had_quorum = TRUE
    /\ longest_gap = 0
    /\ gaps = <<>>
    /\ ticks = [n \in Node |-> 0]
    /\ booted_at = [n \in Node |-> 0]
    /\ lost_at = 0
    /\ quorum_since = 0

Next == advance \/ run_next_before \/ drain_nodes \/ sample

Spec == Init /\ [][Next]_vars /\ WF_vars(Next)

-----------------------------------------------------------------------------
(* Properties.                                                             *)

Pending(what, arg) == {k \in 1..Len(queue) : queue[k].what = what /\ queue[k].arg = arg}

\* The chain of faults never breaks: a node that is up has one crash ahead of it, a node
\* that is down one restart, and there is always one more partition to come.  ("Arming
\* the next crash in that case loses the node forever", schedule_restart.)
ChainsGoOn ==
    /\ \A n \in Node :
          /\ Cardinality(Pending("crash", n)) = IF n \in up THEN 1 ELSE 0
          /\ Cardinality(Pending("restart", n)) = IF n \in up THEN 0 ELSE 1
    /\ "partition" \in Faults => Cardinality(Pending("partition", {})) = 1

\* A node ticks at its own pace whatever the others and the simulator do, and whatever
\* its clock says: between two instants of the run it has ticked as often as the time
\* since it booted has room for.
NodesKeepTime ==
    step = "advance" =>
        \A n \in up : timer[n] # kNoTimeout => ticks[n] = (now - booted_at[n]) \div Tick

\* A run that completes has done everything that was due before its end: it does not
\* stop at time zero and look like it ran.
CompletesAtEnd ==
    step = "done" =>
        /\ \A k \in 1..Len(queue) : queue[k].when > Duration
        /\ \A n \in up : timer[n] # kNoTimeout => timer[n] - BootOffset[n] > Duration

\* Every link that is cut has its healing ahead of it, however partitions overlap.
CutsWillHeal ==
    \A link \in cuts : \E k \in 1..Len(queue) : queue[k].what = "heal" /\ link \in queue[k].arg

\* The oracle's failover samples are the outages that were failovers: the time from the
\* loss of the last leader to the next one, of exactly those stretches in which a
\* majority was up from beginning to end.
GapsAreFailovers ==
    [][LET outage == step = "sample" /\ ~leader_present /\ leading # {}
           failover == outage /\ quorum_since # kNoTimeout /\ quorum_since <= lost_at
       IN  gaps' = IF failover THEN Append(gaps, now - lost_at) ELSE gaps]_vars

\* The run comes to its end: no instant goes on forever.
Completes == <>(step = "done")

=============================================================================
