---------------------------- MODULE RaftCluster ----------------------------
(***************************************************************************)
(* A cluster of brokers: raft::Node (src/src/raft/node.cpp) together with  *)
(* the driver that carries out what it decides (server::Broker::drive and  *)
(* its callers, src/src/server/broker.cpp).                                *)
(*                                                                         *)
(* One action is one event-loop callback: a tick, a proposal or a received *)
(* message, with the whole of drive() that follows it.  The order inside   *)
(* drive() is kept by its outcomes: log orders first, then raft.state,     *)
(* then messages.  A process that dies between two of them is an action    *)
(* of its own.                                                             *)
(*                                                                         *)
(* An index is a storage offset, one per record; an entry is a batch of    *)
(* several records.  log[i] is the node's view of its log, one term per    *)
(* offset (what epochs_ and log_end_ encode); store[i] is what storage::Log*)
(* holds, one cell per offset with the batch's leader_epoch and            *)
(* base_offset.  The two are different state in the code and here.         *)
(*                                                                         *)
(* The network is a set of messages in flight: it loses a message, delays  *)
(* it, reorders it and delivers it again, as reconnecting streams and the  *)
(* sender's own retries do between them.  Election timers are abstracted:  *)
(* a non-leader may time out in any tick, and a follower inside its        *)
(* leader's lease that drops a RequestVote takes no step.                  *)
(*                                                                         *)
(* Faults says which of the failures the code handles may happen:          *)
(*   "crash"    power is lost between or inside callbacks, then a restart  *)
(*   "persist"  a write or fsync of raft.state fails                       *)
(*   "append"   storage fails while a follower carries out log orders      *)
(*   "fsync"    the fsync of a leader's own append fails                   *)
(***************************************************************************)
EXTENDS Integers, Sequences, FiniteSets

CONSTANTS
    Node,        \* the members of the cluster
    kNoNode,     \* "nobody", raft::kNoNode
    BatchSizes,  \* how many records a proposed batch may hold
    MayCampaign, \* bound: the <<node, term>> pairs in which a node may campaign
    MaxEnd,      \* bound: no leader appends past this offset
    MaxInFlight, \* bound: messages the network holds at once
    Faults       \* the failures that may happen

ASSUME NodeAssumption == IsFiniteSet(Node) /\ kNoNode \notin Node
ASSUME BatchAssumption == BatchSizes \subseteq Nat \ {0}
ASSUME BoundAssumption == MayCampaign \subseteq Node \X Nat /\ {MaxEnd, MaxInFlight} \subseteq Nat
ASSUME FaultAssumption == Faults \subseteq {"crash", "persist", "append", "fsync"}

kNoIndex == -1
kNoTerm == 0

VARIABLES
    term,          \* hard_.term, in memory
    voted_for,     \* hard_.voted_for, in memory
    dirty,         \* hard_state_dirty_: the driver still owes a write
    slot,          \* raft.state: the last hard state persist() reported written
    disk,          \* raft.state: the hard state a restart would read
    ballots,       \* history: the votes reported persisted or recovered
    role,
    votes,         \* votes_ granted to this candidate
    log,           \* epochs_ and log_end_: the term of every offset
    store,         \* storage::Log: the batches appended
    synced,        \* the offset below which an fsync has covered them
    commit_index,
    match,         \* match_[peer]
    next,          \* next_[peer]
    running,       \* Broker::running_
    msgs,          \* the messages in flight
    elected,       \* history: Oracle::leader_by_term_
    committed      \* history: what leaders have reported committed

hardVars == <<term, voted_for, dirty, slot, disk, ballots>>
logVars == <<log, store, synced, running>>
leaderVars == <<match, next>>
historyVars == <<elected, committed>>
vars == <<hardVars, role, votes, logVars, commit_index, leaderVars, msgs, historyVars>>

Quorum == Cardinality(Node) \div 2 + 1
Peers(i) == Node \ {i}
MinOf(a, b) == IF a <= b THEN a ELSE b

-----------------------------------------------------------------------------
(* The node's view of its log.                                             *)

term_at(l, index) == IF index >= Len(l) THEN kNoTerm ELSE l[index + 1]

last_term(l) == IF l = <<>> THEN kNoTerm ELSE l[Len(l)]

\* Where the epochs of epochs_ start: offsets below the first one have no term.
epoch_starts(l) ==
    {k \in 0..(Len(l) - 1) : l[k + 1] # kNoTerm /\ (k > 0 => l[k] # l[k + 1])}

\* Mutant: the hint is the entry before the epoch.
epoch_start_at_one_back(l, index) ==
    (CHOOSE k \in epoch_starts(l) :
        k <= index /\ \A h \in epoch_starts(l) : h <= index => h <= k) - 1

epoch_start_at(l, index) ==
    IF epoch_starts(l) = {} THEN 0
    ELSE IF \E k \in epoch_starts(l) : k <= index
    THEN CHOOSE k \in epoch_starts(l) :
            k <= index /\ \A h \in epoch_starts(l) : h <= index => h <= k
    ELSE CHOOSE k \in epoch_starts(l) : \A h \in epoch_starts(l) : k <= h

\* Mutant: a batch is taken for one record.
log_appended_one_record(l, index, end, t) ==
    [k \in 1..(index + 1) |-> IF k <= Len(l) THEN l[k] ELSE t]

\* Offsets between the old end and index are read through the last epoch.
log_appended(l, index, end, t) ==
    [k \in 1..end |-> IF k <= Len(l) THEN l[k]
                      ELSE IF k <= index THEN last_term(l)
                      ELSE t]

\* Mutant: only the lengths of the logs are compared.
log_is_up_to_date_by_length(l, end, t) == end >= Len(l)

\* Mutant: the candidate's log is not looked at.
log_is_up_to_date_unchecked(l, end, t) == TRUE

log_is_up_to_date(l, end, t) ==
    IF t # last_term(l) THEN t > last_term(l) ELSE end >= Len(l)

-----------------------------------------------------------------------------
(* storage::Log, one cell per offset.                                      *)

Batch(base, end, epoch) ==
    [k \in 1..(end - base) |-> [base |-> base, end |-> end, epoch |-> epoch]]

\* A batch begins at offset, or the log ends there.
IsBoundary(s, offset) ==
    \/ offset = Len(s)
    \/ offset < Len(s) /\ s[offset + 1].base = offset

\* Broker::read_entry: the batch whose base offset is exactly index.
read_entry_ok(s, index) == index < Len(s) /\ s[index + 1].base = index

truncate_ok(s, offset) == offset <= Len(s) /\ IsBoundary(s, offset)
truncate_to(s, offset) == SubSeq(s, 1, offset)

-----------------------------------------------------------------------------
(* Messages.                                                               *)

request_vote(i, peer, t, l) ==
    [type |-> "RequestVote", from |-> i, to |-> peer, term |-> t,
     log_index |-> Len(l), log_term |-> last_term(l)]

vote_response(i, peer, t, granted) ==
    [type |-> "RequestVoteResponse", from |-> i, to |-> peer, term |-> t,
     granted |-> granted]

append_response(i, peer, t, granted, index) ==
    [type |-> "AppendEntriesResponse", from |-> i, to |-> peer, term |-> t,
     granted |-> granted, log_index |-> index]

\* Node::send_append_entries, completed by Broker::send_raft: the driver reads
\* the named batch and drops the message when storage has none beginning there.
send_append_entries(i, peer, t, l, s, commit, from) ==
    IF from < Len(l) /\ ~read_entry_ok(s, from) THEN {}
    ELSE {[type |-> "AppendEntries", from |-> i, to |-> peer, term |-> t,
           log_index |-> from - 1,
           log_term |-> IF from = 0 THEN kNoTerm ELSE term_at(l, from - 1),
           commit_index |-> commit,
           entry_index |-> IF from < Len(l) THEN from ELSE kNoIndex,
           entry_term |-> IF from < Len(l) THEN term_at(l, from) ELSE kNoTerm,
           entry_end |-> IF from < Len(l) THEN s[from + 1].end ELSE 0,
           entry_epoch |-> IF from < Len(l) THEN s[from + 1].epoch ELSE kNoTerm]}

carries_entry(m) == m.entry_index # kNoIndex

broadcast_heartbeat(i, t, nexts) ==
    UNION {send_append_entries(i, p, t, log[i], store[i], commit_index[i], nexts[p]) :
           p \in Peers(i)}

-----------------------------------------------------------------------------
(* The network.                                                            *)

Send(got, out) ==
    \E sent \in SUBSET out, again \in SUBSET got :
        /\ msgs' = (msgs \ got) \cup again \cup sent
        /\ Cardinality(msgs') <= MaxInFlight

-----------------------------------------------------------------------------
(* Broker::drive after the log orders: raft.state, then the messages.  A   *)
(* failed write says nothing and leaves the debt outstanding.  It reuses   *)
(* the slot of raft.state that the last failure used, so a restart may     *)
(* find what it would have found, the new state, or, the slot torn, the    *)
(* last state that was reported written.                                   *)

\* on_hard_state_persisted and on_raft_recovered, as far as they report a vote.
record_ballot(i, t, v) ==
    ballots' = IF v = kNoNode THEN ballots
               ELSE ballots \cup {[voter |-> i, term |-> t, candidate |-> v]}

\* Mutant: raft.state is written and not fsynced (--unsafe-metadata).
Drive_unsynced(i, t, v, owes, got, out) ==
    LET state == [term |-> t, voted_for |-> v]
    IN  /\ term' = [term EXCEPT ![i] = t]
        /\ voted_for' = [voted_for EXCEPT ![i] = v]
        /\ dirty' = [dirty EXCEPT ![i] = FALSE]
        /\ \E found \in {disk[i], state} : disk' = [disk EXCEPT ![i] = found]
        /\ UNCHANGED <<slot, ballots>>
        /\ Send(got, out)

\* Mutant: raft.state has one slot, and a failed write tears it.
Drive_one_slot(i, t, v, owes, got, out) ==
    LET state == [term |-> t, voted_for |-> v]
        torn == [term |-> 0, voted_for |-> kNoNode]
    IN  /\ term' = [term EXCEPT ![i] = t]
        /\ voted_for' = [voted_for EXCEPT ![i] = v]
        /\ \/ /\ dirty' = [dirty EXCEPT ![i] = FALSE]
              /\ slot' = [slot EXCEPT ![i] = state]
              /\ disk' = [disk EXCEPT ![i] = state]
              /\ record_ballot(i, t, v)
              /\ Send(got, out)
           \/ /\ owes /\ "persist" \in Faults
              /\ dirty' = [dirty EXCEPT ![i] = TRUE]
              /\ disk' = [disk EXCEPT ![i] = torn]
              /\ Send(got, {})
              /\ UNCHANGED <<slot, ballots>>

Drive(i, t, v, owes, got, out) ==
    LET state == [term |-> t, voted_for |-> v]
    IN  /\ term' = [term EXCEPT ![i] = t]
        /\ voted_for' = [voted_for EXCEPT ![i] = v]
        /\ \/ /\ ~owes
              /\ Send(got, out)
              /\ UNCHANGED <<dirty, slot, disk, ballots>>
           \/ /\ owes
              /\ dirty' = [dirty EXCEPT ![i] = FALSE]
              /\ slot' = [slot EXCEPT ![i] = state]
              /\ disk' = [disk EXCEPT ![i] = state]
              /\ record_ballot(i, t, v)
              /\ Send(got, out)
           \/ /\ owes
              /\ "persist" \in Faults
              /\ dirty' = [dirty EXCEPT ![i] = TRUE]
              /\ \E found \in {disk[i], slot[i], state} : disk' = [disk EXCEPT ![i] = found]
              /\ Send(got, {})
              /\ UNCHANGED <<slot, ballots>>

-----------------------------------------------------------------------------
(* Roles.                                                                  *)

\* Mutant: a vote is not remembered.
vote_in_forgotten(i, t) == kNoNode

\* become_follower for a message's term: the vote it keeps, the write it owes.
vote_in(i, t) == IF t > term[i] THEN kNoNode ELSE voted_for[i]
owes_in(i, t) == dirty[i] \/ t > term[i]

\* The state change of become_leader; the heartbeats it broadcasts go through
\* Drive of the caller.
become_leader(i, t) ==
    /\ role' = [role EXCEPT ![i] = "leader"]
    /\ match' = [match EXCEPT ![i] = [p \in Node |-> 0]]
    /\ next' = [next EXCEPT ![i] = [p \in Node |-> Len(log[i])]]
    /\ elected' = elected \cup {[term |-> t, node |-> i]}

\* Mutant: the sorted ends are read one place too early.
quorum_end_one_short(i, l, matches) ==
    LET end(p) == IF p = i THEN Len(l) ELSE matches[p]
        reached == {e \in {end(p) : p \in Node} :
                        Cardinality({p \in Node : end(p) >= e}) >= Quorum - 1}
    IN  {e \in reached : \A f \in reached : f <= e}

\* The highest end that a quorum has reached, as a set of one.
quorum_end(i, l, matches) ==
    LET end(p) == IF p = i THEN Len(l) ELSE matches[p]
        reached == {e \in {end(p) : p \in Node} :
                        Cardinality({p \in Node : end(p) >= e}) >= Quorum}
    IN  {e \in reached : \A f \in reached : f <= e}

\* Mutant: a majority is enough, whatever the entry's term (Raft 5.4.2 ignored).
advance_commit_index_any_term(i, t, l, matches, commit) ==
    LET ends == {e \in quorum_end(i, l, matches) : e > commit}
    IN  IF ends = {} THEN commit ELSE CHOOSE e \in ends : TRUE

\* The quorum's end, if it is newer and closes an entry of the leader's own term.
advance_commit_index(i, t, l, matches, commit) ==
    LET ends == {e \in quorum_end(i, l, matches) : e > commit /\ term_at(l, e - 1) = t}
    IN  IF ends = {} THEN commit ELSE CHOOSE e \in ends : TRUE

\* Broker::note_commit on a leader, as the oracle sees it.
record_commit(s, commit) ==
    committed' = IF commit > Len(committed) THEN SubSeq(s, 1, MinOf(commit, Len(s)))
                 ELSE committed

-----------------------------------------------------------------------------
(* Ticks.                                                                  *)

\* Node::tick past the election timeout: campaign().
Campaign(i) ==
    /\ running[i]
    /\ role[i] # "leader"
    /\ <<i, term[i] + 1>> \in MayCampaign
    /\ votes' = [votes EXCEPT ![i] = {i}]
    /\ IF 1 >= Quorum
       THEN /\ become_leader(i, term[i] + 1)
            /\ Drive(i, term[i] + 1, i, TRUE, {}, {})
       ELSE /\ role' = [role EXCEPT ![i] = "candidate"]
            /\ Drive(i, term[i] + 1, i, TRUE, {},
                     {request_vote(i, p, term[i] + 1, log[i]) : p \in Peers(i)})
            /\ UNCHANGED <<leaderVars, elected>>
    /\ UNCHANGED <<logVars, commit_index, committed>>

\* Node::tick of a leader past the heartbeat timeout.
Heartbeat(i) ==
    /\ running[i]
    /\ role[i] = "leader"
    /\ Drive(i, term[i], voted_for[i], dirty[i], {}, broadcast_heartbeat(i, term[i], next[i]))
    /\ UNCHANGED <<role, votes, logVars, commit_index, leaderVars, historyVars>>

\* Any callback that decides nothing still drives, and drive() pays the debt.
RetryPersist(i) ==
    /\ dirty[i]
    /\ Drive(i, term[i], voted_for[i], TRUE, {}, {})
    /\ UNCHANGED <<role, votes, logVars, commit_index, leaderVars, historyVars>>

-----------------------------------------------------------------------------
(* Broker::propose with a batch of n records: append, fsync, log_appended. *)

propose(i, n) ==
    /\ running[i]
    /\ role[i] = "leader"
    /\ Len(store[i]) + n <= MaxEnd
    /\ LET index == Len(store[i])
           end == index + n
           l == log_appended(log[i], index, end, term[i])
           s == store[i] \o Batch(index, end, term[i])
           commit == advance_commit_index(i, term[i], l, match[i], commit_index[i])
       IN  /\ log' = [log EXCEPT ![i] = l]
           /\ store' = [store EXCEPT ![i] = s]
           /\ synced' = [synced EXCEPT ![i] = end]
           /\ commit_index' = [commit_index EXCEPT ![i] = commit]
           /\ record_commit(s, commit)
           /\ Drive(i, term[i], voted_for[i], dirty[i], {},
                    UNION {send_append_entries(i, p, term[i], l, s, commit, index) :
                           p \in {q \in Peers(i) : next[i][q] = index}})
    /\ UNCHANGED <<role, votes, running, leaderVars, elected>>

\* The append succeeds, its fsync does not: the node is never told.
propose_unsynced(i, n) ==
    /\ "fsync" \in Faults
    /\ running[i]
    /\ role[i] = "leader"
    /\ Len(store[i]) + n <= MaxEnd
    /\ store' = [store EXCEPT ![i] = @ \o Batch(Len(@), Len(@) + n, term[i])]
    /\ UNCHANGED <<hardVars, role, votes, log, synced, running, commit_index, leaderVars,
                   msgs, historyVars>>

-----------------------------------------------------------------------------
(* Node::step.  Each action takes a message whose term is not lower than   *)
(* the receiver's, except step_stale.                                      *)

\* A stale request is answered so that its sender steps down.
step_stale(m) ==
    LET i == m.to
        reply == IF m.type = "RequestVote"
                 THEN vote_response(i, m.from, term[i], FALSE)
                 ELSE append_response(i, m.from, term[i], FALSE, Len(log[i]))
    IN  /\ m.type \in {"RequestVote", "AppendEntries"}
        /\ m.term < term[i]
        /\ Drive(i, term[i], voted_for[i], dirty[i], {m}, {reply})
        /\ UNCHANGED <<role, votes, logVars, commit_index, leaderVars, historyVars>>

handle_request_vote(m) ==
    LET i == m.to
        vote == vote_in(i, m.term)
        granted == vote \in {kNoNode, m.from}
                   /\ log_is_up_to_date(log[i], m.log_index, m.log_term)
    IN  /\ m.type = "RequestVote"
        /\ m.term >= term[i]
        /\ IF m.term > term[i]
           THEN /\ role' = [role EXCEPT ![i] = "follower"]
                /\ votes' = [votes EXCEPT ![i] = {}]
           ELSE UNCHANGED <<role, votes>>
        /\ Drive(i, m.term, IF granted THEN m.from ELSE vote,
                 owes_in(i, m.term) \/ (granted /\ vote # m.from), {m},
                 {vote_response(i, m.from, m.term, granted)})
        /\ UNCHANGED <<logVars, commit_index, leaderVars, historyVars>>

\* A response from a later term makes the receiver a follower and nothing else:
\* neither handler acts for a node that is not candidate or leader.
step_down_on_response(m) ==
    LET i == m.to
    IN  /\ m.type \in {"RequestVoteResponse", "AppendEntriesResponse"}
        /\ m.term > term[i]
        /\ role' = [role EXCEPT ![i] = "follower"]
        /\ votes' = [votes EXCEPT ![i] = {}]
        /\ Drive(i, m.term, kNoNode, TRUE, {m}, {})
        /\ UNCHANGED <<logVars, commit_index, leaderVars, historyVars>>

handle_request_vote_response(m) ==
    LET i == m.to
        counted == votes[i] \cup {m.from}
    IN  /\ m.type = "RequestVoteResponse"
        /\ m.term = term[i]
        /\ role[i] = "candidate"
        /\ m.granted
        /\ votes' = [votes EXCEPT ![i] = counted]
        /\ IF Cardinality(counted) >= Quorum
           THEN /\ become_leader(i, term[i])
                /\ Drive(i, term[i], voted_for[i], dirty[i], {m},
                         broadcast_heartbeat(i, term[i], next'[i]))
           ELSE /\ Drive(i, term[i], voted_for[i], dirty[i], {m}, {})
                /\ UNCHANGED <<role, leaderVars, elected>>
        /\ UNCHANGED <<logVars, commit_index, committed>>

-----------------------------------------------------------------------------
(* Node::handle_append_entries.                                            *)

\* Mutant: the predecessor's term is not compared.
log_matches_by_length(l, m) == m.log_index = kNoIndex \/ m.log_index < Len(l)

\* Mutant: an append past the end of the log is not refused.
log_matches_past_end(l, m) ==
    m.log_index \in 0..(Len(l) - 1) => term_at(l, m.log_index) = m.log_term

log_matches(l, m) ==
    \/ m.log_index = kNoIndex
    \/ /\ m.log_index \in 0..(Len(l) - 1)
       /\ term_at(l, m.log_index) = m.log_term

\* What the node does to its view, and orders the driver to do to storage.
must_truncate(l, m) ==
    /\ carries_entry(m)
    /\ term_at(l, m.log_index + 1) \notin {kNoTerm, m.entry_term}

kept(l, m) == IF must_truncate(l, m) THEN SubSeq(l, 1, m.log_index + 1) ELSE l

must_append(l, m) == carries_entry(m) /\ m.log_index + 1 >= Len(kept(l, m))

\* Mutant: the view takes the leader's term for the entry's.
log_after_leader_term(l, m) ==
    IF must_append(l, m)
    THEN log_appended(kept(l, m), m.log_index + 1, m.entry_end, m.term)
    ELSE kept(l, m)

log_after(l, m) ==
    IF must_append(l, m)
    THEN log_appended(kept(l, m), m.log_index + 1, m.entry_end, m.entry_term)
    ELSE kept(l, m)

\* Broker::carry_out_log_orders: truncate, then append, each may be refused.
cut_ok(i, m) == must_truncate(log[i], m) => truncate_ok(store[i], m.log_index + 1)

store_cut(i, m) ==
    IF must_truncate(log[i], m) THEN truncate_to(store[i], m.log_index + 1) ELSE store[i]

append_ok(i, m) == must_append(log[i], m) => m.entry_index = Len(store_cut(i, m))

store_after(i, m) ==
    IF must_append(log[i], m)
    THEN store_cut(i, m) \o Batch(m.entry_index, m.entry_end, m.entry_epoch)
    ELSE store_cut(i, m)

\* Mutant: the entry is acknowledged without an fsync.
synced_after_unsynced(i, m) == MinOf(synced[i], Len(store_cut(i, m)))

\* fsync follows the append; a truncation alone is not fsynced.
synced_after(i, m) ==
    IF must_append(log[i], m) THEN Len(store_after(i, m))
    ELSE MinOf(synced[i], Len(store_cut(i, m)))

\* become_follower, common to every answer to AppendEntries.
follow(m) ==
    /\ m.type = "AppendEntries"
    /\ m.term >= term[m.to]
    /\ m.term = term[m.to] => role[m.to] # "leader"
    /\ role' = [role EXCEPT ![m.to] = "follower"]
    /\ votes' = [votes EXCEPT ![m.to] = {}]

reject_append_entries(m) ==
    LET i == m.to
        hint == IF m.log_index >= Len(log[i]) THEN Len(log[i])
                ELSE epoch_start_at(log[i], m.log_index)
    IN  /\ follow(m)
        /\ ~log_matches(log[i], m)
        /\ Drive(i, m.term, vote_in(i, m.term), owes_in(i, m.term), {m},
                 {append_response(i, m.from, m.term, FALSE, hint)})
        /\ UNCHANGED <<logVars, commit_index, leaderVars, historyVars>>

\* The commit index a follower takes from the leader.
adopt_commit(commit, m, l) ==
    IF m.commit_index > commit THEN MinOf(m.commit_index, Len(l)) ELSE commit

\* Mutant: the answer reports how long the log is.
confirmed_log_end(m, l) == Len(l)

\* What an accepting answer reports: what matched, not how long the log is.
confirmed(m, l) == IF carries_entry(m) THEN m.entry_end ELSE m.log_index + 1

\* take_ready, drive and carry_out_log_orders after log_matches: every order is
\* carried out and fsynced before the answer leaves.
accept_append_entries(m) ==
    LET i == m.to
        l == log_after(log[i], m)
    IN  /\ follow(m)
        /\ log_matches(log[i], m)
        /\ cut_ok(i, m) /\ append_ok(i, m)
        /\ log' = [log EXCEPT ![i] = l]
        /\ store' = [store EXCEPT ![i] = store_after(i, m)]
        /\ synced' = [synced EXCEPT ![i] = synced_after(i, m)]
        /\ commit_index' = [commit_index EXCEPT ![i] = adopt_commit(@, m, l)]
        /\ Drive(i, m.term, vote_in(i, m.term), owes_in(i, m.term), {m},
                 {append_response(i, m.from, m.term, TRUE, confirmed(m, l))})
        /\ UNCHANGED <<running, leaderVars, historyVars>>

\* Storage refuses an order or fails in it: the node's view has moved, storage
\* has carried out a part, nothing is persisted or sent, and running_ is cleared.
\* Clearing it stops ticks and proposals; messages are still stepped.
stop_serving(m) ==
    LET i == m.to
        l == log_after(log[i], m)
        ok == cut_ok(i, m) /\ append_ok(i, m)
    IN  /\ follow(m)
        /\ log_matches(log[i], m)
        /\ must_truncate(log[i], m) \/ must_append(log[i], m)
        /\ ~ok \/ "append" \in Faults
        /\ log' = [log EXCEPT ![i] = l]
        /\ \E s \in {store[i]} \cup (IF cut_ok(i, m) THEN {store_cut(i, m)} ELSE {})
                              \cup (IF ok /\ must_append(log[i], m) THEN {store_after(i, m)}
                                    ELSE {}) :
              /\ store' = [store EXCEPT ![i] = s]
              /\ synced' = [synced EXCEPT ![i] = MinOf(@, Len(s))]
        /\ commit_index' = [commit_index EXCEPT ![i] = adopt_commit(@, m, l)]
        /\ running' = [running EXCEPT ![i] = FALSE]
        /\ term' = [term EXCEPT ![i] = m.term]
        /\ voted_for' = [voted_for EXCEPT ![i] = vote_in(i, m.term)]
        /\ dirty' = [dirty EXCEPT ![i] = owes_in(i, m.term)]
        /\ Send({m}, {})
        /\ UNCHANGED <<slot, disk, ballots, leaderVars, historyVars>>

handle_append_entries_response(m) ==
    LET i == m.to
        l == log[i]
        p == m.from
        held == MinOf(m.log_index, Len(l))
        retry == IF held < match[i][p] THEN match[i][p] ELSE held
        matches == IF held > match[i][p] THEN [match[i] EXCEPT ![p] = held]
                   ELSE match[i]
        from == IF held > next[i][p] THEN held ELSE next[i][p]
        commit == advance_commit_index(i, term[i], l, matches, commit_index[i])
    IN  /\ m.type = "AppendEntriesResponse"
        /\ m.term = term[i]
        /\ role[i] = "leader"
        /\ IF m.granted
           THEN /\ match' = [match EXCEPT ![i] = matches]
                /\ next' = [next EXCEPT ![i][p] = from]
                /\ commit_index' = [commit_index EXCEPT ![i] = commit]
                /\ record_commit(store[i], commit)
                /\ Drive(i, term[i], voted_for[i], dirty[i], {m},
                         IF from < Len(l)
                         THEN send_append_entries(i, p, term[i], l, store[i], commit, from)
                         ELSE {})
           ELSE /\ next' = [next EXCEPT ![i][p] = retry]
                /\ Drive(i, term[i], voted_for[i], dirty[i], {m},
                         send_append_entries(i, p, term[i], l, store[i], commit_index[i], retry))
                /\ UNCHANGED <<match, commit_index, committed>>
        /\ UNCHANGED <<role, votes, logVars, elected>>

-----------------------------------------------------------------------------
(* Crashes.  Broker::start rebuilds the node from raft.state and from the  *)
(* batch headers in storage; everything else was memory.                   *)

\* Log::scan_epochs and Node::restore_log.
scan_epochs(s) == [k \in 1..Len(s) |-> s[k].epoch]

start(i, s) ==
    /\ store' = [store EXCEPT ![i] = s]
    /\ synced' = [synced EXCEPT ![i] = Len(s)]
    /\ log' = [log EXCEPT ![i] = scan_epochs(s)]
    /\ running' = [running EXCEPT ![i] = TRUE]
    /\ term' = [term EXCEPT ![i] = disk[i].term]
    /\ voted_for' = [voted_for EXCEPT ![i] = disk[i].voted_for]
    /\ dirty' = [dirty EXCEPT ![i] = FALSE]
    /\ slot' = [slot EXCEPT ![i] = disk[i]]
    /\ record_ballot(i, disk[i].term, disk[i].voted_for)
    /\ role' = [role EXCEPT ![i] = "follower"]
    /\ votes' = [votes EXCEPT ![i] = {}]
    /\ commit_index' = [commit_index EXCEPT ![i] = 0]
    /\ match' = [match EXCEPT ![i] = [p \in Node |-> 0]]
    /\ next' = [next EXCEPT ![i] = [p \in Node |-> 0]]
    /\ UNCHANGED <<disk, historyVars>>

\* What recovery keeps of s when only its first durable records were fsynced:
\* whole batches, all the fsynced ones and as many of the others as survived.
recovered(s, durable) ==
    {SubSeq(s, 1, k) : k \in {n \in durable..Len(s) : IsBoundary(s, n)}}

\* A crash between two callbacks, and the restart that follows it.
Restart(i) ==
    /\ "crash" \in Faults
    /\ UNCHANGED msgs
    /\ \E s \in recovered(store[i], synced[i]) : start(i, s)

\* A crash inside drive(), after some log orders and before raft.state.
CrashInDrive(m) ==
    LET i == m.to
    IN  /\ "crash" \in Faults
        /\ Send({m}, {})
        /\ m.type = "AppendEntries"
        /\ m.term >= term[i]
        /\ m.term = term[i] => role[i] # "leader"
        /\ log_matches(log[i], m)
        /\ cut_ok(i, m) /\ append_ok(i, m)
        /\ \E s \in recovered(store_after(i, m), MinOf(synced[i], Len(store_cut(i, m)))) :
              start(i, s)

-----------------------------------------------------------------------------

Init ==
    /\ term = [i \in Node |-> 0]
    /\ voted_for = [i \in Node |-> kNoNode]
    /\ dirty = [i \in Node |-> FALSE]
    /\ slot = [i \in Node |-> [term |-> 0, voted_for |-> kNoNode]]
    /\ disk = [i \in Node |-> [term |-> 0, voted_for |-> kNoNode]]
    /\ role = [i \in Node |-> "follower"]
    /\ votes = [i \in Node |-> {}]
    /\ ballots = {}
    /\ log = [i \in Node |-> <<>>]
    /\ store = [i \in Node |-> <<>>]
    /\ synced = [i \in Node |-> 0]
    /\ commit_index = [i \in Node |-> 0]
    /\ match = [i \in Node |-> [p \in Node |-> 0]]
    /\ next = [i \in Node |-> [p \in Node |-> 0]]
    /\ running = [i \in Node |-> TRUE]
    /\ msgs = {}
    /\ elected = {}
    /\ committed = <<>>

Next ==
    \/ \E i \in Node : Campaign(i)
    \/ \E i \in Node : Heartbeat(i)
    \/ \E i \in Node : RetryPersist(i)
    \/ \E i \in Node, n \in BatchSizes : propose(i, n)
    \/ \E i \in Node, n \in BatchSizes : propose_unsynced(i, n)
    \/ \E m \in msgs : step_stale(m)
    \/ \E m \in msgs : handle_request_vote(m)
    \/ \E m \in msgs : step_down_on_response(m)
    \/ \E m \in msgs : handle_request_vote_response(m)
    \/ \E m \in msgs : reject_append_entries(m)
    \/ \E m \in msgs : accept_append_entries(m)
    \/ \E m \in msgs : stop_serving(m)
    \/ \E m \in msgs : handle_append_entries_response(m)
    \/ \E i \in Node : Restart(i)
    \/ \E m \in msgs : CrashInDrive(m)

Spec == Init /\ [][Next]_vars

-----------------------------------------------------------------------------
(* Types.                                                                  *)

Role == {"follower", "candidate", "leader"}
Cell == [base : Nat, end : Nat, epoch : Nat]
HardState == [term : Nat, voted_for : Node \cup {kNoNode}]

RequestVote ==
    [type : {"RequestVote"}, from : Node, to : Node, term : Nat,
     log_index : Nat, log_term : Nat]

RequestVoteResponse ==
    [type : {"RequestVoteResponse"}, from : Node, to : Node, term : Nat,
     granted : BOOLEAN]

AppendEntries ==
    [type : {"AppendEntries"}, from : Node, to : Node, term : Nat,
     log_index : Nat \cup {kNoIndex}, log_term : Nat, commit_index : Nat,
     entry_index : Nat \cup {kNoIndex}, entry_term : Nat, entry_end : Nat,
     entry_epoch : Nat]

AppendEntriesResponse ==
    [type : {"AppendEntriesResponse"}, from : Node, to : Node, term : Nat,
     granted : BOOLEAN, log_index : Nat]

Message == RequestVote \cup RequestVoteResponse \cup AppendEntries \cup AppendEntriesResponse

\* Every variable has the type its declaration in node.h or broker.h gives it.
TypeOK ==
    /\ term \in [Node -> Nat]
    /\ voted_for \in [Node -> Node \cup {kNoNode}]
    /\ dirty \in [Node -> BOOLEAN]
    /\ slot \in [Node -> HardState]
    /\ disk \in [Node -> HardState]
    /\ ballots \subseteq [voter : Node, term : Nat, candidate : Node]
    /\ role \in [Node -> Role]
    /\ votes \in [Node -> SUBSET Node]
    /\ log \in [Node -> Seq(Nat)]
    /\ store \in [Node -> Seq(Cell)]
    /\ synced \in [Node -> Nat]
    /\ commit_index \in [Node -> Nat]
    /\ match \in [Node -> [Node -> Nat]]
    /\ next \in [Node -> [Node -> Nat]]
    /\ running \in [Node -> BOOLEAN]
    /\ msgs \subseteq Message
    /\ elected \subseteq [term : Nat, node : Node]
    /\ committed \in Seq(Cell)

-----------------------------------------------------------------------------
(* Properties.                                                             *)

\* Two logs hold the same batches below offset n.
AgreeBelow(s, r, n) == \A k \in 1..n : k <= Len(s) /\ k <= Len(r) /\ s[k] = r[k]

\* I6: at most one node ever counts a majority in a term, however the voters and
\* the candidates crash between the vote, its write and its announcement.
ElectionSafety ==
    \A a, b \in elected : a.term = b.term => a.node = b.node

\* The hard state records a vote of term t for i, or has left term t behind.
Holds(hard, t, i) == hard.term > t \/ (hard.term = t /\ hard.voted_for = i)

\* The vote a node has announced, or a candidate has counted, is the vote it
\* would find in raft.state if it lost power now (persist, then send).
AnnouncedVoteIsDurable ==
    /\ \A m \in msgs :
          m.type = "RequestVoteResponse" /\ m.granted => Holds(disk[m.from], m.term, m.to)
    /\ \A i \in Node : role[i] = "candidate" =>
          \A j \in votes[i] \ {i} : Holds(disk[j], term[i], i)

\* new may follow old in one node's raft.state: a later term, or the same term
\* and no other vote.
Follows(new, old) ==
    \/ new.term > old.term
    \/ new.term = old.term /\ old.voted_for \in {kNoNode, new.voted_for}

\* raft.state never goes behind a write persist() reported: not to an earlier
\* term, and not to another vote of the same term, whatever is torn, retried or
\* lost on the way.
DurableVoteIsFinal ==
    [][\A i \in Node : Follows(slot'[i], slot[i]) /\ Follows(disk'[i], slot[i])]_vars

Hard(i) == [term |-> term[i], voted_for |-> voted_for[i]]
Ballot(voter, t, candidate) == [voter |-> voter, term |-> t, candidate |-> candidate]

\* What node i has in memory, would read back and has reported written are in
\* that order, and are one and the same when no write is owed.
HardStateOrdered(i) ==
    /\ Follows(disk[i], slot[i])
    /\ Follows(Hard(i), disk[i])
    /\ ~dirty[i] => slot[i] = Hard(i) /\ disk[i] = Hard(i)

\* The ballot a message rests on: a candidate's vote for itself, a voter's for it.
Backed(m, cast) ==
    /\ m.type = "RequestVote" => Ballot(m.from, m.term, m.from) \in cast
    /\ m.type = "RequestVoteResponse" /\ m.granted =>
          {Ballot(m.from, m.term, m.to), Ballot(m.to, m.term, m.to)} \subseteq cast

\* Leader e counted a quorum of ballots, or is the only member.
Chosen(e, cast) ==
    \/ Quorum <= 1
    \/ \E Q \in SUBSET Node :
          Cardinality(Q) >= Quorum /\ \A j \in Q : Ballot(j, e.term, e.node) \in cast

\* The argument for ElectionSafety, as one inductive invariant: raft.state never
\* falls behind a vote that was reported, so a voter casts one ballot in a term,
\* and every vote request, granted vote, counted vote and leader rests on ballots.
VoteInv ==
    /\ \A i \in Node : HardStateOrdered(i)
    /\ \A i \in Node : slot[i].voted_for # kNoNode =>
          Ballot(i, slot[i].term, slot[i].voted_for) \in ballots
    /\ \A b \in ballots :
          Follows(slot[b.voter], [term |-> b.term, voted_for |-> b.candidate])
    /\ \A a, b \in ballots :
          a.voter = b.voter /\ a.term = b.term => a.candidate = b.candidate
    /\ \A m \in msgs : Backed(m, ballots)
    /\ \A i \in Node : role[i] = "candidate" =>
          \A j \in votes[i] \ {i} : Ballot(j, term[i], i) \in ballots
    /\ \A e \in elected : Chosen(e, ballots)

\* Log matching: if two brokers hold a record of the same epoch at the same
\* offset, their storage is identical up to and including that record.
LogMatching ==
    \A i, j \in Node :
        \A k \in 1..MinOf(Len(store[i]), Len(store[j])) :
            store[i][k].epoch = store[j][k].epoch => AgreeBelow(store[i], store[j], k)

\* What storage holds is what the node believes it holds: the epoch cache and
\* log_end_ describe the batches on disk, offset by offset.
ViewIsStorage ==
    \A i \in Node : running[i] => log[i] = scan_epochs(store[i])

\* Storage never refuses an order: truncation always names a batch boundary and
\* an accepted entry always begins at next_offset_.
StorageNeverRefuses == \A i \in Node : running[i]

\* match_[p] is durable on p: while p has not moved to a later term, its disk
\* holds the leader's log up to match_[p].
MatchIsHeld ==
    \A i, p \in Node :
        role[i] = "leader" /\ p # i /\ disk[p].term <= term[i] =>
            AgreeBelow(store[i], store[p], match[i][p])

\* I1: what a leader reported committed is on the disks of a majority.
CommittedOnMajority ==
    Cardinality({i \in Node : AgreeBelow(store[i], committed, Len(committed))}) >= Quorum

\* Leader completeness: the leader of the latest term holds everything that was
\* ever reported committed (Oracle::check_leader_completeness).
LeaderCompleteness ==
    \A i \in Node :
        role[i] = "leader" /\ (\A e \in elected : e.term <= term[i]) =>
            AgreeBelow(store[i], committed, Len(committed))

\* I4 for leaders: no leader, deposed or not, has committed a batch other than
\* the one first reported committed at that offset.
LeadersAgreeOnCommitted ==
    \A i \in Node : role[i] = "leader" =>
        AgreeBelow(store[i], committed, MinOf(commit_index[i], Len(committed)))

\* I4 over time: the committed prefix only grows.
CommittedIsStable ==
    [][Len(committed') >= Len(committed)
       /\ AgreeBelow(committed', committed, Len(committed))]_vars


\* next_[peer] is where a batch of the leader's log begins, or its end.
NextIsBoundary ==
    \A i \in Node : role[i] = "leader" =>
        \A p \in Peers(i) : IsBoundary(store[i], next[i][p])

=============================================================================
