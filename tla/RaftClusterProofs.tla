------------------------- MODULE RaftClusterProofs -------------------------
(* What TLAPS proves of RaftCluster, for every cluster, every bound and    *)
(* every combination of faults.                                            *)
EXTENDS RaftCluster, TLAPS, FiniteSetTheorems

-----------------------------------------------------------------------------
(* The operators return what their declarations promise.                   *)

\* The least-number principle, used where the code's binary search picks one
\* epoch among several.
LEMMA NatMin ==
    ASSUME NEW T \in SUBSET Nat, T # {}
    PROVE  \E x \in T : \A y \in T : x <= y
<1>1. IsWellFoundedOn(OpToRel(<, Nat), Nat)
    BY NatLessThanWellFounded
<1>2. PICK x \in T : \A y \in T : ~ (<<y, x>> \in OpToRel(<, Nat))
    BY <1>1, WFMin
<1>3. \A y \in T : ~ (y < x)
    BY <1>2, Zenon DEF OpToRel
<1>4. \A y \in T : x <= y
    BY <1>3
<1> QED BY <1>4

\* A bounded, non-empty set of indices has a greatest one (quorum ends, epochs).
LEMMA BoundedMax ==
    ASSUME NEW T \in SUBSET Nat, NEW n \in Nat, \A k \in T : k <= n, T # {}
    PROVE  \E x \in T : \A y \in T : y <= x
<1> DEFINE U == {n - k : k \in T}
<1>0. PICK k0 \in T : TRUE
    OBVIOUS
<1>1. U \in SUBSET Nat /\ U # {}
  <2>1. n - k0 \in U
    OBVIOUS
  <2>2. \A k \in T : n - k \in Nat
    OBVIOUS
  <2> QED BY <2>1, <2>2
<1>2. PICK u \in U : \A w \in U : u <= w
    BY <1>1, NatMin
<1>3. PICK x \in T : u = n - x
    OBVIOUS
<1>4. \A y \in T : y <= x
  <2> SUFFICES ASSUME NEW y \in T PROVE y <= x
    OBVIOUS
  <2>1. n - y \in U
    OBVIOUS
  <2> QED BY <1>2, <1>3, <2>1
<1> QED BY <1>4

\* last_term is a term.
LEMMA LastTermType ==
    ASSUME NEW l \in Seq(Nat)
    PROVE  last_term(l) \in Nat
BY DEF last_term, kNoTerm

\* term_at is a term at every index.
LEMMA TermAtType ==
    ASSUME NEW l \in Seq(Nat), NEW index \in Nat
    PROVE  term_at(l, index) \in Nat
BY DEF term_at, kNoTerm

\* epoch_start_at finds an epoch, whatever the index: the rejection hint is an
\* offset.
LEMMA EpochStartType ==
    ASSUME NEW l \in Seq(Nat), NEW index \in Nat
    PROVE  epoch_start_at(l, index) \in Nat
<1> DEFINE E == epoch_starts(l)
           B == {k \in E : k <= index}
<1>1. E \in SUBSET Nat /\ B \in SUBSET Nat
    BY DEF epoch_starts
<1>2. CASE E = {}
    BY <1>2 DEF epoch_start_at
<1>3. CASE B # {}
  <2>1. PICK x \in B : \A y \in B : y <= x
    BY <1>1, <1>3, BoundedMax
  <2>2. \E k \in E : k <= index /\ \A h \in E : h <= index => h <= k
    BY <2>1
  <2>3. E # {} /\ \E k \in E : k <= index
    BY <1>3
  <2> QED BY <1>1, <2>2, <2>3 DEF epoch_start_at
<1>4. CASE E # {} /\ B = {}
  <2>1. \E k \in E : \A h \in E : k <= h
    BY <1>1, <1>4, NatMin
  <2>2. ~ \E k \in E : k <= index
    BY <1>4
  <2> QED BY <1>1, <1>4, <2>1, <2>2 DEF epoch_start_at
<1> QED BY <1>2, <1>3, <1>4

\* log_appended leaves one term per offset up to the new end.
LEMMA LogAppendedType ==
    ASSUME NEW l \in Seq(Nat), NEW index \in Nat, NEW end \in Nat, NEW t \in Nat
    PROVE  log_appended(l, index, end, t) \in Seq(Nat)
<1>1. log_appended(l, index, end, t) \in [1..end -> Nat]
    BY LastTermType DEF log_appended
<1> QED BY <1>1

\* A batch occupies one cell per record.
LEMMA BatchType ==
    ASSUME NEW base \in Nat, NEW end \in Nat, NEW epoch \in Nat
    PROVE  Batch(base, end, epoch) \in Seq(Cell)
<1>1. CASE end >= base
  <2>1. Batch(base, end, epoch) \in [1..(end - base) -> Cell]
    BY DEF Batch, Cell
  <2> QED BY <1>1, <2>1
<1>2. CASE end < base
  <2>1. Batch(base, end, epoch) = <<>>
    BY <1>2 DEF Batch
  <2> QED BY <2>1
<1> QED BY <1>1, <1>2

\* Truncation leaves a log.
LEMMA PrefixType ==
    ASSUME NEW S, NEW s \in Seq(S), NEW n \in Int, n <= Len(s)
    PROVE  SubSeq(s, 1, n) \in Seq(S)
OBVIOUS

\* An append leaves a log.
LEMMA ConcatType ==
    ASSUME NEW S, NEW s \in Seq(S), NEW t \in Seq(S)
    PROVE  s \o t \in Seq(S)
OBVIOUS

\* advance_commit_index returns an offset: the old one, or an end a quorum reached.
LEMMA AdvanceType ==
    ASSUME NEW i \in Node, NEW t \in Nat, NEW l \in Seq(Nat),
           NEW matches \in [Node -> Nat], NEW commit \in Nat
    PROVE  advance_commit_index(i, t, l, matches, commit) \in Nat
<1>1. quorum_end(i, l, matches) \subseteq Nat
    BY DEF quorum_end
<1> QED BY <1>1 DEF advance_commit_index

-----------------------------------------------------------------------------
(* Messages and drive().                                                   *)

\* send_append_entries builds one well-formed message or none.
LEMMA SendAppendType ==
    ASSUME NEW i \in Node, NEW peer \in Node, NEW t \in Nat, NEW l \in Seq(Nat),
           NEW s \in Seq(Cell), NEW commit \in Nat, NEW from \in Nat
    PROVE  send_append_entries(i, peer, t, l, s, commit, from) \subseteq Message
<1> SUFFICES ASSUME NEW m \in send_append_entries(i, peer, t, l, s, commit, from)
             PROVE  m \in Message
    OBVIOUS
<1>1. Len(l) \in Nat /\ Len(s) \in Nat
    OBVIOUS
<1>2. from < Len(l) => from < Len(s)
    BY DEF send_append_entries, read_entry_ok
<1>3. from < Len(l) => s[from + 1] \in Cell
  <2> SUFFICES ASSUME from < Len(l) PROVE s[from + 1] \in Cell
    OBVIOUS
  <2>1. from + 1 \in 1..Len(s)
    BY <1>1, <1>2
  <2> QED BY <2>1
<1>4. (IF from = 0 THEN kNoTerm ELSE term_at(l, from - 1)) \in Nat
  <2>1. from # 0 => from - 1 \in Nat
    OBVIOUS
  <2> QED BY <2>1, TermAtType DEF kNoTerm
<1>5. (IF from < Len(l) THEN term_at(l, from) ELSE kNoTerm) \in Nat
    BY TermAtType DEF kNoTerm
<1>6. (IF from < Len(l) THEN s[from + 1].end ELSE 0) \in Nat
    BY <1>3 DEF Cell
<1>7. (IF from < Len(l) THEN s[from + 1].epoch ELSE kNoTerm) \in Nat
    BY <1>3 DEF Cell, kNoTerm
<1>8. from - 1 \in Nat \cup {kNoIndex}
      /\ (IF from < Len(l) THEN from ELSE kNoIndex) \in Nat \cup {kNoIndex}
    BY DEF kNoIndex
<1> DEFINE lt == IF from = 0 THEN kNoTerm ELSE term_at(l, from - 1)
           ei == IF from < Len(l) THEN from ELSE kNoIndex
           et == IF from < Len(l) THEN term_at(l, from) ELSE kNoTerm
           ee == IF from < Len(l) THEN s[from + 1].end ELSE 0
           ep == IF from < Len(l) THEN s[from + 1].epoch ELSE kNoTerm
<1>9. m \in AppendEntries
  <2>1. m = [type |-> "AppendEntries", from |-> i, to |-> peer, term |-> t,
             log_index |-> from - 1, log_term |-> lt, commit_index |-> commit,
             entry_index |-> ei, entry_term |-> et, entry_end |-> ee, entry_epoch |-> ep]
    BY Zenon DEF send_append_entries
  <2>2. lt \in Nat /\ ei \in Nat \cup {kNoIndex} /\ et \in Nat /\ ee \in Nat /\ ep \in Nat
    BY <1>4, <1>5, <1>6, <1>7, <1>8
  <2> HIDE DEF lt, ei, et, ee, ep
  <2> QED BY <1>8, <2>1, <2>2 DEF AppendEntries
<1> QED BY <1>9 DEF Message

\* The variables that drive() writes.
DriveTypeOK ==
    /\ term \in [Node -> Nat]
    /\ voted_for \in [Node -> Node \cup {kNoNode}]
    /\ dirty \in [Node -> BOOLEAN]
    /\ slot \in [Node -> HardState]
    /\ disk \in [Node -> HardState]
    /\ ballots \subseteq [voter : Node, term : Nat, candidate : Node]
    /\ msgs \subseteq Message

\* What on_hard_state_persisted reports is a vote of a member.
LEMMA BallotType ==
    ASSUME DriveTypeOK, NEW i \in Node, NEW t \in Nat, NEW v \in Node \cup {kNoNode},
           record_ballot(i, t, v)
    PROVE  ballots' \subseteq [voter : Node, term : Nat, candidate : Node]
BY DEF DriveTypeOK, record_ballot

\* The network holds well-formed messages.
LEMMA SendType ==
    ASSUME DriveTypeOK, NEW got \in SUBSET msgs, NEW out \in SUBSET Message, Send(got, out)
    PROVE  msgs' \subseteq Message
BY DEF DriveTypeOK, Send

\* drive() leaves raft.state and the network well-formed, whether the write fails
\* or not.
LEMMA DriveType ==
    ASSUME DriveTypeOK, NEW i \in Node, NEW t \in Nat, NEW v \in Node \cup {kNoNode},
           NEW owes \in BOOLEAN, NEW got \in SUBSET msgs, NEW out \in SUBSET Message,
           Drive(i, t, v, owes, got, out)
    PROVE  DriveTypeOK'
<1> DEFINE state == [term |-> t, voted_for |-> v]
<1>1. state \in HardState
    BY DEF HardState
<1>2. term' \in [Node -> Nat] /\ voted_for' \in [Node -> Node \cup {kNoNode}]
    BY DEF DriveTypeOK, Drive
<1>3. msgs' \subseteq Message
  <2>1. Send(got, out) \/ Send(got, {})
    BY DEF Drive
  <2> QED BY <2>1, SendType
<1>4. dirty' \in [Node -> BOOLEAN]
    BY DEF DriveTypeOK, Drive
<1>6. slot' \in [Node -> HardState]
    BY <1>1 DEF DriveTypeOK, Drive
<1>7. disk' \in [Node -> HardState]
    BY <1>1 DEF DriveTypeOK, Drive
<1>5. ballots' \subseteq [voter : Node, term : Nat, candidate : Node]
  <2>1. record_ballot(i, t, v) \/ UNCHANGED ballots
    BY DEF Drive
  <2> QED BY <2>1, BallotType DEF DriveTypeOK
<1> QED BY <1>2, <1>3, <1>4, <1>5, <1>6, <1>7 DEF DriveTypeOK

\* The answers and vote requests are well-formed.
LEMMA ReplyTypes ==
    ASSUME NEW i \in Node, NEW p \in Node, NEW t \in Nat, NEW g \in BOOLEAN, NEW n \in Nat
    PROVE  /\ vote_response(i, p, t, g) \in Message
           /\ append_response(i, p, t, g, n) \in Message
           /\ \A l \in Seq(Nat) : request_vote(i, p, t, l) \in Message
<1>1. vote_response(i, p, t, g) \in RequestVoteResponse
    BY DEF vote_response, RequestVoteResponse
<1>2. append_response(i, p, t, g, n) \in AppendEntriesResponse
    BY DEF append_response, AppendEntriesResponse
<1>3. ASSUME NEW l \in Seq(Nat) PROVE request_vote(i, p, t, l) \in RequestVote
    BY LastTermType DEF request_vote, RequestVote
<1> QED BY <1>1, <1>2, <1>3 DEF Message

\* So are the heartbeats.
LEMMA HeartbeatType ==
    ASSUME TypeOK, NEW i \in Node, NEW t \in Nat, NEW nexts \in [Node -> Nat]
    PROVE  broadcast_heartbeat(i, t, nexts) \subseteq Message
<1> SUFFICES ASSUME NEW p \in Node
             PROVE  send_append_entries(i, p, t, log[i], store[i], commit_index[i], nexts[p])
                        \subseteq Message
    BY DEF broadcast_heartbeat, Peers
<1> QED BY SendAppendType DEF TypeOK

\* become_follower keeps a vote or forgets it.
LEMMA VoteInType ==
    ASSUME TypeOK, NEW i \in Node, NEW t \in Nat
    PROVE  vote_in(i, t) \in Node \cup {kNoNode} /\ owes_in(i, t) \in BOOLEAN
BY DEF TypeOK, vote_in, owes_in

\* A message of each type has the fields its handler reads.
LEMMA MessageFields ==
    ASSUME NEW m \in Message
    PROVE  /\ m.from \in Node /\ m.to \in Node /\ m.term \in Nat
           /\ m.type = "RequestVote" => m \in RequestVote
           /\ m.type = "RequestVoteResponse" => m \in RequestVoteResponse
           /\ m.type = "AppendEntries" => m \in AppendEntries
           /\ m.type = "AppendEntriesResponse" => m \in AppendEntriesResponse
BY DEF Message, RequestVote, RequestVoteResponse, AppendEntries, AppendEntriesResponse

\* become_leader starts with one match_ and next_ per peer.
LEMMA BecomeLeaderType ==
    ASSUME TypeOK, NEW i \in Node, NEW t \in Nat, become_leader(i, t)
    PROVE  /\ role' \in [Node -> Role]
           /\ match' \in [Node -> [Node -> Nat]]
           /\ next' \in [Node -> [Node -> Nat]]
           /\ elected' \subseteq [term : Nat, node : Node]
<1>1. Len(log[i]) \in Nat
    BY DEF TypeOK
<1>2. [p \in Node |-> 0] \in [Node -> Nat] /\ [p \in Node |-> Len(log[i])] \in [Node -> Nat]
    BY <1>1
<1>3. role' \in [Node -> Role]
    BY DEF TypeOK, become_leader, Role
<1>4. match' \in [Node -> [Node -> Nat]]
    BY <1>2 DEF TypeOK, become_leader
<1>5. next' \in [Node -> [Node -> Nat]]
    BY <1>2 DEF TypeOK, become_leader
<1>6. elected' \subseteq [term : Nat, node : Node]
  <2>1. elected \subseteq [term : Nat, node : Node]
    BY DEF TypeOK
  <2>2. elected' = elected \cup {[term |-> t, node |-> i]}
    BY DEF become_leader
  <2>3. [term |-> t, node |-> i] \in [term : Nat, node : Node]
    OBVIOUS
  <2> QED BY <2>1, <2>2, <2>3, Zenon
<1> QED BY <1>3, <1>4, <1>5, <1>6

\* What a leader reports committed is a prefix of its storage.
LEMMA RecordCommitType ==
    ASSUME TypeOK, NEW s \in Seq(Cell), NEW commit \in Nat, record_commit(s, commit)
    PROVE  committed' \in Seq(Cell)
<1>1. MinOf(commit, Len(s)) \in Nat /\ MinOf(commit, Len(s)) <= Len(s)
    BY DEF MinOf
<1>2. SubSeq(s, 1, MinOf(commit, Len(s))) \in Seq(Cell)
    BY <1>1, PrefixType
<1> QED BY <1>2 DEF TypeOK, record_commit

-----------------------------------------------------------------------------
(* Type correctness, action by action.                                     *)

\* Types are kept by campaign().
LEMMA TypeCampaign ==
    ASSUME TypeOK, NEW i \in Node, Campaign(i)
    PROVE  TypeOK'
<1> DEFINE t == term[i] + 1
           asks == {request_vote(i, p, t, log[i]) : p \in Peers(i)}
<1>0. DriveTypeOK
    BY DEF TypeOK, DriveTypeOK
<1>1. t \in Nat /\ log[i] \in Seq(Nat)
    BY DEF TypeOK
<1>2. asks \in SUBSET Message
    BY <1>1, ReplyTypes DEF Peers
<1>3. Drive(i, t, i, TRUE, {}, {}) \/ Drive(i, t, i, TRUE, {}, asks)
    BY DEF Campaign
<1>4. DriveTypeOK'
    BY <1>0, <1>1, <1>2, <1>3, DriveType
<1>5. /\ role' \in [Node -> Role]
      /\ match' \in [Node -> [Node -> Nat]]
      /\ next' \in [Node -> [Node -> Nat]]
      /\ elected' \subseteq [term : Nat, node : Node]
  <2>1. CASE become_leader(i, t)
    BY <1>1, <2>1, BecomeLeaderType
  <2>2. CASE role' = [role EXCEPT ![i] = "candidate"] /\ UNCHANGED <<leaderVars, elected>>
    BY <2>2 DEF TypeOK, leaderVars, Role
  <2> QED BY <2>1, <2>2 DEF Campaign
<1>6. votes' \in [Node -> SUBSET Node]
    BY DEF Campaign, TypeOK
<1> QED BY <1>4, <1>5, <1>6 DEF TypeOK, DriveTypeOK, Campaign, logVars

\* Types are kept by a heartbeat, and by a retried write of raft.state.
LEMMA TypeHeartbeat ==
    ASSUME TypeOK, NEW i \in Node, Heartbeat(i) \/ RetryPersist(i)
    PROVE  TypeOK'
<1>0. DriveTypeOK
    BY DEF TypeOK, DriveTypeOK
<1>1. /\ term[i] \in Nat /\ voted_for[i] \in Node \cup {kNoNode}
      /\ dirty[i] \in BOOLEAN /\ next[i] \in [Node -> Nat]
    BY DEF TypeOK
<1>2. broadcast_heartbeat(i, term[i], next[i]) \in SUBSET Message
    BY <1>1, HeartbeatType
<1>3. DriveTypeOK'
  <2>1. CASE Heartbeat(i)
    <3>1. Drive(i, term[i], voted_for[i], dirty[i], {}, broadcast_heartbeat(i, term[i], next[i]))
        BY <2>1 DEF Heartbeat
    <3> QED BY <1>0, <1>1, <1>2, <3>1, DriveType
  <2>2. CASE RetryPersist(i)
    <3>1. Drive(i, term[i], voted_for[i], TRUE, {}, {})
        BY <2>2 DEF RetryPersist
    <3>2. {} \in SUBSET msgs /\ {} \in SUBSET Message /\ TRUE \in BOOLEAN
        OBVIOUS
    <3> QED BY <1>0, <1>1, <3>1, <3>2, DriveType, Zenon
  <2> QED BY <2>1, <2>2
<1> QED BY <1>3 DEF TypeOK, DriveTypeOK, Heartbeat, RetryPersist, logVars, leaderVars, historyVars

\* Types are kept by propose().
LEMMA TypePropose ==
    ASSUME TypeOK, NEW i \in Node, NEW n \in BatchSizes, propose(i, n)
    PROVE  TypeOK'
<1> DEFINE index == Len(store[i])
           end == index + n
           l == log_appended(log[i], index, end, term[i])
           s == store[i] \o Batch(index, end, term[i])
           commit == advance_commit_index(i, term[i], l, match[i], commit_index[i])
           out == UNION {send_append_entries(i, p, term[i], l, s, commit, index) :
                         p \in {q \in Peers(i) : next[i][q] = index}}
<1>0. DriveTypeOK
    BY DEF TypeOK, DriveTypeOK
<1>1. /\ term[i] \in Nat /\ voted_for[i] \in Node \cup {kNoNode} /\ dirty[i] \in BOOLEAN
      /\ log[i] \in Seq(Nat) /\ store[i] \in Seq(Cell) /\ match[i] \in [Node -> Nat]
      /\ commit_index[i] \in Nat
    BY DEF TypeOK
<1>2. index \in Nat /\ n \in Nat /\ end \in Nat
    BY <1>1, BatchAssumption
<1>3. l \in Seq(Nat)
    BY <1>1, <1>2, LogAppendedType
<1>4. s \in Seq(Cell)
    BY <1>1, <1>2, BatchType, ConcatType
<1>5. commit \in Nat
    BY <1>1, <1>3, AdvanceType
<1> HIDE DEF index, end, l, s, commit
<1>6. out \in SUBSET Message
  <2>1. ASSUME NEW p \in Node
        PROVE  send_append_entries(i, p, term[i], l, s, commit, index) \subseteq Message
    BY <1>1, <1>2, <1>3, <1>4, <1>5, SendAppendType
  <2> QED BY <2>1 DEF Peers
<1>7. Drive(i, term[i], voted_for[i], dirty[i], {}, out)
    BY DEF propose, index, end, l, s, commit
<1>8. DriveTypeOK'
  <2>1. {} \in SUBSET msgs
    OBVIOUS
  <2> HIDE DEF out
  <2> QED BY <1>0, <1>1, <1>6, <1>7, <2>1, DriveType, Zenon
<1>9. /\ log' = [log EXCEPT ![i] = l] /\ store' = [store EXCEPT ![i] = s]
      /\ synced' = [synced EXCEPT ![i] = end]
      /\ commit_index' = [commit_index EXCEPT ![i] = commit]
      /\ record_commit(s, commit)
      /\ UNCHANGED <<role, votes, running, leaderVars, elected>>
    BY DEF propose, index, end, l, s, commit
<1>10. log' \in [Node -> Seq(Nat)]
    BY <1>3, <1>9 DEF TypeOK
<1>11. store' \in [Node -> Seq(Cell)]
    BY <1>4, <1>9 DEF TypeOK
<1>12. synced' \in [Node -> Nat] /\ commit_index' \in [Node -> Nat]
    BY <1>2, <1>5, <1>9 DEF TypeOK
<1>13. committed' \in Seq(Cell)
    BY <1>4, <1>5, <1>9, RecordCommitType
<1> QED BY <1>8, <1>9, <1>10, <1>11, <1>12, <1>13 DEF TypeOK, DriveTypeOK, leaderVars

\* Types are kept by a propose() whose fsync fails.
LEMMA TypeProposeUnsynced ==
    ASSUME TypeOK, NEW i \in Node, NEW n \in BatchSizes, propose_unsynced(i, n)
    PROVE  TypeOK'
<1> DEFINE index == Len(store[i])
           s == store[i] \o Batch(index, index + n, term[i])
<1>1. store[i] \in Seq(Cell) /\ term[i] \in Nat /\ n \in Nat
    BY BatchAssumption DEF TypeOK
<1>2. index \in Nat /\ index + n \in Nat
  <2>1. index \in Nat
    BY <1>1
  <2> HIDE DEF index
  <2> QED BY <1>1, <2>1
<1>3. s \in Seq(Cell)
    BY <1>1, <1>2, BatchType, ConcatType
<1>4. store' = [store EXCEPT ![i] = s]
    BY DEF propose_unsynced
<1> HIDE DEF s
<1>5. store' \in [Node -> Seq(Cell)]
    BY <1>3, <1>4 DEF TypeOK
<1> QED BY <1>5 DEF TypeOK, propose_unsynced, hardVars, leaderVars, historyVars

\* Types are kept by the answer to a stale request.
LEMMA TypeStepStale ==
    ASSUME TypeOK, NEW m \in msgs, step_stale(m)
    PROVE  TypeOK'
<1> DEFINE i == m.to
           reply == IF m.type = "RequestVote"
                    THEN vote_response(i, m.from, term[i], FALSE)
                    ELSE append_response(i, m.from, term[i], FALSE, Len(log[i]))
<1>0. DriveTypeOK /\ m \in Message
    BY DEF TypeOK, DriveTypeOK
<1>1. i \in Node /\ m.from \in Node
    BY <1>0, MessageFields
<1>2. term[i] \in Nat /\ voted_for[i] \in Node \cup {kNoNode} /\ dirty[i] \in BOOLEAN
    BY <1>1 DEF TypeOK
<1>3. {reply} \in SUBSET Message
  <2>1. log[i] \in Seq(Nat)
    BY <1>1 DEF TypeOK
  <2>2. Len(log[i]) \in Nat /\ FALSE \in BOOLEAN
    BY <2>1
  <2>3. /\ vote_response(i, m.from, term[i], FALSE) \in Message
        /\ append_response(i, m.from, term[i], FALSE, Len(log[i])) \in Message
    BY <1>1, <1>2, <2>2, ReplyTypes, Zenon
  <2> QED BY <2>3
<1>4. Drive(i, term[i], voted_for[i], dirty[i], {m}, {reply})
    BY Zenon DEF step_stale
<1>5. DriveTypeOK'
  <2>1. {m} \in SUBSET msgs
    OBVIOUS
  <2> HIDE DEF reply, i
  <2> QED BY <1>0, <1>1, <1>2, <1>3, <1>4, <2>1, DriveType, Zenon
<1> QED BY <1>5 DEF TypeOK, DriveTypeOK, step_stale, logVars, leaderVars, historyVars

\* Types are kept by handle_request_vote.
LEMMA TypeHandleRequestVote ==
    ASSUME TypeOK, NEW m \in msgs, handle_request_vote(m)
    PROVE  TypeOK'
<1> DEFINE i == m.to
           vote == vote_in(i, m.term)
           granted == vote \in {kNoNode, m.from}
                      /\ log_is_up_to_date(log[i], m.log_index, m.log_term)
           v == IF granted THEN m.from ELSE vote
           owes == owes_in(i, m.term) \/ (granted /\ vote # m.from)
           out == {vote_response(i, m.from, m.term, granted)}
<1>0. DriveTypeOK /\ m \in Message
    BY DEF TypeOK, DriveTypeOK
<1>1. i \in Node /\ m.from \in Node /\ m.term \in Nat /\ m \in RequestVote
    BY <1>0, MessageFields DEF handle_request_vote
<1>2. log[i] \in Seq(Nat) /\ m.log_index \in Nat /\ m.log_term \in Nat
    BY <1>1 DEF TypeOK, RequestVote
<1>3. granted \in BOOLEAN
    BY <1>2 DEF log_is_up_to_date
<1>4. vote \in Node \cup {kNoNode} /\ owes_in(i, m.term) \in BOOLEAN
    BY <1>1, VoteInType
<1>5. v \in Node \cup {kNoNode} /\ owes \in BOOLEAN
    BY <1>1, <1>3, <1>4
<1>6. out \in SUBSET Message
  <2> HIDE DEF granted, i
  <2> QED BY <1>1, <1>3, ReplyTypes
<1>7. Drive(i, m.term, v, owes, {m}, out)
    BY Zenon DEF handle_request_vote
<1>8. DriveTypeOK'
  <2>1. {m} \in SUBSET msgs
    OBVIOUS
  <2> HIDE DEF i, v, owes, out
  <2> QED BY <1>0, <1>1, <1>5, <1>6, <1>7, <2>1, DriveType, Zenon
<1>9. role' \in [Node -> Role] /\ votes' \in [Node -> SUBSET Node]
  <2>1. CASE role' = [role EXCEPT ![i] = "follower"] /\ votes' = [votes EXCEPT ![i] = {}]
    BY <2>1 DEF TypeOK, Role
  <2>2. CASE UNCHANGED <<role, votes>>
    BY <2>2 DEF TypeOK
  <2> QED BY <2>1, <2>2 DEF handle_request_vote
<1>10. UNCHANGED <<logVars, commit_index, leaderVars, historyVars>>
    BY DEF handle_request_vote
<1> QED BY <1>8, <1>9, <1>10 DEF TypeOK, DriveTypeOK, logVars, leaderVars, historyVars

\* Types are kept when an answer carries a later term.
LEMMA TypeStepDown ==
    ASSUME TypeOK, NEW m \in msgs, step_down_on_response(m)
    PROVE  TypeOK'
<1>0. DriveTypeOK /\ m \in Message
    BY DEF TypeOK, DriveTypeOK
<1>1. m.to \in Node /\ m.term \in Nat
    BY <1>0, MessageFields
<1>2. Drive(m.to, m.term, kNoNode, TRUE, {m}, {})
    BY DEF step_down_on_response
<1>3. DriveTypeOK'
  <2>1. /\ {m} \in SUBSET msgs /\ {} \in SUBSET Message /\ TRUE \in BOOLEAN
        /\ kNoNode \in Node \cup {kNoNode}
    OBVIOUS
  <2> QED BY <1>0, <1>1, <1>2, <2>1, DriveType, Zenon
<1>4. role' \in [Node -> Role] /\ votes' \in [Node -> SUBSET Node]
    BY DEF TypeOK, Role, step_down_on_response
<1> QED BY <1>3, <1>4 DEF TypeOK, DriveTypeOK, step_down_on_response, logVars, leaderVars,
                          historyVars

\* Types are kept by handle_request_vote_response.
LEMMA TypeHandleRequestVoteResponse ==
    ASSUME TypeOK, NEW m \in msgs, handle_request_vote_response(m)
    PROVE  TypeOK'
<1> DEFINE i == m.to
<1>0. DriveTypeOK /\ m \in Message
    BY DEF TypeOK, DriveTypeOK
<1>1. i \in Node /\ m.from \in Node
    BY <1>0, MessageFields
<1>2. term[i] \in Nat /\ voted_for[i] \in Node \cup {kNoNode} /\ dirty[i] \in BOOLEAN
    BY <1>1 DEF TypeOK
<1>3. votes' \in [Node -> SUBSET Node]
    BY <1>1 DEF TypeOK, handle_request_vote_response
<1>4. {m} \in SUBSET msgs /\ {} \in SUBSET Message
    OBVIOUS
<1>5. UNCHANGED <<logVars, commit_index, committed>>
    BY DEF handle_request_vote_response
<1>6. CASE /\ become_leader(i, term[i])
           /\ Drive(i, term[i], voted_for[i], dirty[i], {m},
                    broadcast_heartbeat(i, term[i], next'[i]))
  <2>1. /\ role' \in [Node -> Role] /\ match' \in [Node -> [Node -> Nat]]
        /\ next' \in [Node -> [Node -> Nat]] /\ elected' \subseteq [term : Nat, node : Node]
    BY <1>1, <1>2, <1>6, BecomeLeaderType
  <2>2. next'[i] \in [Node -> Nat]
    BY <1>1, <2>1
  <2>3. broadcast_heartbeat(i, term[i], next'[i]) \in SUBSET Message
    BY <1>1, <1>2, <2>2, HeartbeatType
  <2>4. DriveTypeOK'
    BY <1>0, <1>1, <1>2, <1>4, <1>6, <2>3, DriveType, Zenon
  <2> QED BY <1>3, <1>5, <2>1, <2>4 DEF TypeOK, DriveTypeOK, logVars
<1>7. CASE /\ Drive(i, term[i], voted_for[i], dirty[i], {m}, {})
           /\ UNCHANGED <<role, leaderVars, elected>>
  <2>1. DriveTypeOK'
    BY <1>0, <1>1, <1>2, <1>4, <1>7, DriveType, Zenon
  <2> QED BY <1>3, <1>5, <1>7, <2>1 DEF TypeOK, DriveTypeOK, logVars, leaderVars
<1> QED BY <1>6, <1>7 DEF handle_request_vote_response

\* become_follower leaves a role and an empty set of votes.
LEMMA FollowType ==
    ASSUME TypeOK, NEW m \in msgs, follow(m)
    PROVE  /\ m \in AppendEntries /\ m.to \in Node /\ m.from \in Node /\ m.term \in Nat
           /\ role' \in [Node -> Role] /\ votes' \in [Node -> SUBSET Node]
<1>1. m \in Message
    BY DEF TypeOK
<1>2. m \in AppendEntries /\ m.to \in Node /\ m.from \in Node /\ m.term \in Nat
    BY <1>1, MessageFields DEF follow
<1>3. role' \in [Node -> Role]
    BY <1>2 DEF TypeOK, follow, Role
<1>4. votes' \in [Node -> SUBSET Node]
    BY <1>2 DEF TypeOK, follow
<1> QED BY <1>2, <1>3, <1>4

\* A follower's view after an accepted AppendEntries.
LEMMA LogAfterType ==
    ASSUME NEW l \in Seq(Nat), NEW m \in AppendEntries, log_matches(l, m)
    PROVE  /\ m.log_index + 1 \in 0..Len(l)
           /\ log_after(l, m) \in Seq(Nat)
           /\ must_append(l, m) => m.entry_index \in Nat
           /\ confirmed(m, l) \in Nat
<1>1. /\ m.log_index \in Nat \cup {kNoIndex} /\ m.entry_index \in Nat \cup {kNoIndex}
      /\ m.entry_end \in Nat /\ m.entry_term \in Nat
    BY DEF AppendEntries
<1>2. m.log_index + 1 \in 0..Len(l)
    BY <1>1 DEF log_matches, kNoIndex
<1>3. kept(l, m) \in Seq(Nat)
  <2>1. SubSeq(l, 1, m.log_index + 1) \in Seq(Nat)
    BY <1>2, PrefixType
  <2> QED BY <2>1 DEF kept
<1>4. log_after(l, m) \in Seq(Nat)
  <2>1. log_appended(kept(l, m), m.log_index + 1, m.entry_end, m.entry_term) \in Seq(Nat)
    <3>1. m.log_index + 1 \in Nat
        BY <1>1 DEF kNoIndex
    <3> QED BY <1>1, <1>3, <3>1, LogAppendedType, Zenon
  <2> QED BY <1>3, <2>1 DEF log_after
<1>5. must_append(l, m) => m.entry_index \in Nat
    BY <1>1 DEF must_append, carries_entry
<1>6. confirmed(m, l) \in Nat
    BY <1>1, <1>2 DEF confirmed
<1> QED BY <1>2, <1>4, <1>5, <1>6

\* carry_out_log_orders leaves whole cells, after a truncation and after an append.
LEMMA StoreAfterType ==
    ASSUME TypeOK, NEW i \in Node, NEW m \in AppendEntries, log_matches(log[i], m), cut_ok(i, m)
    PROVE  store_cut(i, m) \in Seq(Cell) /\ store_after(i, m) \in Seq(Cell)
<1>1. log[i] \in Seq(Nat) /\ store[i] \in Seq(Cell)
    BY DEF TypeOK
<1>2. m.log_index + 1 \in 0..Len(log[i]) /\ (must_append(log[i], m) => m.entry_index \in Nat)
    BY <1>1, LogAfterType
<1>3. store_cut(i, m) \in Seq(Cell)
  <2>1. CASE must_truncate(log[i], m)
    <3>1. m.log_index + 1 <= Len(store[i])
        BY <2>1 DEF cut_ok, truncate_ok
    <3>2. SubSeq(store[i], 1, m.log_index + 1) \in Seq(Cell)
        BY <1>1, <1>2, <3>1, PrefixType
    <3> QED BY <2>1, <3>2 DEF store_cut, truncate_to
  <2>2. CASE ~must_truncate(log[i], m)
    BY <1>1, <2>2 DEF store_cut
  <2> QED BY <2>1, <2>2
<1>4. store_after(i, m) \in Seq(Cell)
  <2>1. CASE must_append(log[i], m)
    <3>1. m.entry_index \in Nat /\ m.entry_end \in Nat /\ m.entry_epoch \in Nat
        BY <1>2, <2>1 DEF AppendEntries
    <3>2. Batch(m.entry_index, m.entry_end, m.entry_epoch) \in Seq(Cell)
        BY <3>1, BatchType
    <3> QED BY <1>3, <2>1, <3>2, ConcatType DEF store_after
  <2>2. CASE ~must_append(log[i], m)
    BY <1>3, <2>2 DEF store_after
  <2> QED BY <2>1, <2>2
<1> QED BY <1>3, <1>4

\* The commit index a follower adopts is an offset.
LEMMA AdoptCommitType ==
    ASSUME NEW commit \in Nat, NEW m \in AppendEntries, NEW l \in Seq(Nat)
    PROVE  adopt_commit(commit, m, l) \in Nat
BY DEF adopt_commit, MinOf, AppendEntries

\* Types are kept by a refused AppendEntries.
LEMMA TypeReject ==
    ASSUME TypeOK, NEW m \in msgs, reject_append_entries(m)
    PROVE  TypeOK'
<1> DEFINE i == m.to
           hint == IF m.log_index >= Len(log[i]) THEN Len(log[i])
                   ELSE epoch_start_at(log[i], m.log_index)
           out == {append_response(i, m.from, m.term, FALSE, hint)}
<1>0. DriveTypeOK
    BY DEF TypeOK, DriveTypeOK
<1>1. /\ m \in AppendEntries /\ i \in Node /\ m.from \in Node /\ m.term \in Nat
      /\ role' \in [Node -> Role] /\ votes' \in [Node -> SUBSET Node]
    BY FollowType DEF reject_append_entries
<1>2. log[i] \in Seq(Nat) /\ m.log_index \in Nat \cup {kNoIndex}
    BY <1>1 DEF TypeOK, AppendEntries
<1>3. m.log_index # kNoIndex
    BY DEF reject_append_entries, log_matches
<1>4. hint \in Nat
  <2>1. Len(log[i]) \in Nat
    BY <1>2
  <2>2. epoch_start_at(log[i], m.log_index) \in Nat
    BY <1>2, <1>3, EpochStartType
  <2> QED BY <2>1, <2>2
<1>5. vote_in(i, m.term) \in Node \cup {kNoNode} /\ owes_in(i, m.term) \in BOOLEAN
    BY <1>1, VoteInType
<1>6. out \in SUBSET Message
  <2>1. FALSE \in BOOLEAN
    OBVIOUS
  <2>2. append_response(i, m.from, m.term, FALSE, hint) \in Message
    <3> HIDE DEF i, hint
    <3> QED BY <1>1, <1>4, <2>1, ReplyTypes, Zenon
  <2> QED BY <2>2
<1>7. Drive(i, m.term, vote_in(i, m.term), owes_in(i, m.term), {m}, out)
    BY Zenon DEF reject_append_entries
<1>8. DriveTypeOK'
  <2>1. {m} \in SUBSET msgs
    OBVIOUS
  <2> HIDE DEF i, out
  <2> QED BY <1>0, <1>1, <1>5, <1>6, <1>7, <2>1, DriveType, Zenon
<1>9. UNCHANGED <<logVars, commit_index, leaderVars, historyVars>>
    BY DEF reject_append_entries
<1> QED BY <1>1, <1>8, <1>9 DEF TypeOK, DriveTypeOK, logVars, leaderVars, historyVars

\* Types are kept by an accepted AppendEntries.
LEMMA TypeAccept ==
    ASSUME TypeOK, NEW m \in msgs, accept_append_entries(m)
    PROVE  TypeOK'
<1> DEFINE i == m.to
           l == log_after(log[i], m)
           commit == adopt_commit(commit_index[i], m, l)
           out == {append_response(i, m.from, m.term, TRUE, confirmed(m, l))}
<1>0. DriveTypeOK
    BY DEF TypeOK, DriveTypeOK
<1>1. /\ m \in AppendEntries /\ i \in Node /\ m.from \in Node /\ m.term \in Nat
      /\ role' \in [Node -> Role] /\ votes' \in [Node -> SUBSET Node]
    BY FollowType DEF accept_append_entries
<1>2. log[i] \in Seq(Nat) /\ commit_index[i] \in Nat /\ synced[i] \in Nat
    BY <1>1 DEF TypeOK
<1>3. log_matches(log[i], m) /\ cut_ok(i, m)
    BY DEF accept_append_entries
<1>4. l \in Seq(Nat) /\ confirmed(m, l) \in Nat
    BY <1>1, <1>2, <1>3, LogAfterType DEF confirmed
<1>5. store_cut(i, m) \in Seq(Cell) /\ store_after(i, m) \in Seq(Cell)
    BY <1>1, <1>3, StoreAfterType
<1>6. commit \in Nat
    BY <1>1, <1>2, <1>4, AdoptCommitType
<1>7. synced_after(i, m) \in Nat
    BY <1>2, <1>5 DEF synced_after, MinOf
<1>8. vote_in(i, m.term) \in Node \cup {kNoNode} /\ owes_in(i, m.term) \in BOOLEAN
    BY <1>1, VoteInType
<1>9. out \in SUBSET Message
  <2>1. TRUE \in BOOLEAN
    OBVIOUS
  <2>2. append_response(i, m.from, m.term, TRUE, confirmed(m, l)) \in Message
    <3> HIDE DEF i, l
    <3> QED BY <1>1, <1>4, <2>1, ReplyTypes, Zenon
  <2> QED BY <2>2
<1>10. Drive(i, m.term, vote_in(i, m.term), owes_in(i, m.term), {m}, out)
    BY Zenon DEF accept_append_entries
<1>11. DriveTypeOK'
  <2>1. {m} \in SUBSET msgs
    OBVIOUS
  <2> HIDE DEF i, out
  <2> QED BY <1>0, <1>1, <1>8, <1>9, <1>10, <2>1, DriveType, Zenon
<1>12. /\ log' = [log EXCEPT ![i] = l]
       /\ store' = [store EXCEPT ![i] = store_after(i, m)]
       /\ synced' = [synced EXCEPT ![i] = synced_after(i, m)]
       /\ commit_index' = [commit_index EXCEPT ![i] = commit]
       /\ UNCHANGED <<running, leaderVars, historyVars>>
    BY DEF accept_append_entries
<1> HIDE DEF i, l, commit
<1>13. log' \in [Node -> Seq(Nat)]
    BY <1>4, <1>12 DEF TypeOK
<1>14. store' \in [Node -> Seq(Cell)]
    BY <1>5, <1>12 DEF TypeOK
<1>15. synced' \in [Node -> Nat] /\ commit_index' \in [Node -> Nat]
    BY <1>6, <1>7, <1>12 DEF TypeOK
<1> QED BY <1>1, <1>11, <1>12, <1>13, <1>14, <1>15 DEF TypeOK, DriveTypeOK, leaderVars,
                                                       historyVars

\* Types are kept when storage fails in a log order.
LEMMA TypeStopServing ==
    ASSUME TypeOK, NEW m \in msgs, stop_serving(m)
    PROVE  TypeOK'
<1> DEFINE i == m.to
           l == log_after(log[i], m)
           commit == adopt_commit(commit_index[i], m, l)
<1>0. DriveTypeOK
    BY DEF TypeOK, DriveTypeOK
<1>1. /\ m \in AppendEntries /\ i \in Node /\ m.from \in Node /\ m.term \in Nat
      /\ role' \in [Node -> Role] /\ votes' \in [Node -> SUBSET Node]
    BY FollowType DEF stop_serving
<1>2. /\ log[i] \in Seq(Nat) /\ commit_index[i] \in Nat /\ synced[i] \in Nat
      /\ store[i] \in Seq(Cell)
    BY <1>1 DEF TypeOK
<1>3. log_matches(log[i], m)
    BY DEF stop_serving
<1>4. l \in Seq(Nat)
    BY <1>1, <1>2, <1>3, LogAfterType
<1>5. commit \in Nat
    BY <1>1, <1>2, <1>4, AdoptCommitType
<1>6. cut_ok(i, m) => store_cut(i, m) \in Seq(Cell) /\ store_after(i, m) \in Seq(Cell)
    BY <1>1, <1>3, StoreAfterType
<1>7. PICK s \in {store[i]} \cup (IF cut_ok(i, m) THEN {store_cut(i, m)} ELSE {})
                            \cup (IF (cut_ok(i, m) /\ append_ok(i, m)) /\ must_append(log[i], m)
                                  THEN {store_after(i, m)} ELSE {}) :
             /\ store' = [store EXCEPT ![i] = s]
             /\ synced' = [synced EXCEPT ![i] = MinOf(@, Len(s))]
    BY Zenon DEF stop_serving
<1>8. s \in Seq(Cell)
    BY <1>2, <1>6, <1>7
<1>9. vote_in(i, m.term) \in Node \cup {kNoNode} /\ owes_in(i, m.term) \in BOOLEAN
    BY <1>1, VoteInType
<1>10. msgs' \subseteq Message
  <2>1. Send({m}, {}) /\ {m} \in SUBSET msgs /\ {} \in SUBSET Message
    BY DEF stop_serving
  <2> QED BY <1>0, <2>1, SendType, Zenon
<1>11. /\ log' = [log EXCEPT ![i] = l]
       /\ commit_index' = [commit_index EXCEPT ![i] = commit]
       /\ running' = [running EXCEPT ![i] = FALSE]
       /\ term' = [term EXCEPT ![i] = m.term]
       /\ voted_for' = [voted_for EXCEPT ![i] = vote_in(i, m.term)]
       /\ dirty' = [dirty EXCEPT ![i] = owes_in(i, m.term)]
       /\ UNCHANGED <<slot, disk, ballots, leaderVars, historyVars>>
    BY DEF stop_serving
<1> HIDE DEF i, l, commit
<1>12. log' \in [Node -> Seq(Nat)]
    BY <1>4, <1>11 DEF TypeOK
<1>13. store' \in [Node -> Seq(Cell)]
    BY <1>7, <1>8 DEF TypeOK
<1>14. synced' \in [Node -> Nat] /\ commit_index' \in [Node -> Nat]
  <2>1. Len(s) \in Nat
    BY <1>8
  <2>2. MinOf(synced[i], Len(s)) \in Nat
    BY <1>2, <2>1 DEF MinOf
  <2>3. synced' \in [Node -> Nat]
    BY <1>7, <2>2 DEF TypeOK
  <2>4. commit_index' \in [Node -> Nat]
    BY <1>5, <1>11 DEF TypeOK
  <2> QED BY <2>3, <2>4
<1>15. term' \in [Node -> Nat] /\ voted_for' \in [Node -> Node \cup {kNoNode}]
    BY <1>1, <1>9, <1>11 DEF TypeOK
<1>16. running' \in [Node -> BOOLEAN]
    BY <1>11 DEF TypeOK
<1>17. dirty' \in [Node -> BOOLEAN]
    BY <1>9, <1>11 DEF TypeOK
<1> QED BY <1>1, <1>10, <1>11, <1>12, <1>13, <1>14, <1>15, <1>16, <1>17 DEF TypeOK, leaderVars,
                                                                          historyVars

\* Types are kept by handle_append_entries_response.
LEMMA TypeHandleAppendEntriesResponse ==
    ASSUME TypeOK, NEW m \in msgs, handle_append_entries_response(m)
    PROVE  TypeOK'
<1> DEFINE i == m.to
           l == log[i]
           p == m.from
           held == MinOf(m.log_index, Len(l))
           retry == IF held < match[i][p] THEN match[i][p] ELSE held
           matches == IF held > match[i][p] THEN [match[i] EXCEPT ![p] = held] ELSE match[i]
           from == IF held > next[i][p] THEN held ELSE next[i][p]
           commit == advance_commit_index(i, term[i], l, matches, commit_index[i])
           onward == IF from < Len(l)
                     THEN send_append_entries(i, p, term[i], l, store[i], commit, from)
                     ELSE {}
           again == send_append_entries(i, p, term[i], l, store[i], commit_index[i], retry)
<1>0. DriveTypeOK /\ m \in Message
    BY DEF TypeOK, DriveTypeOK
<1>1. i \in Node /\ p \in Node /\ m.log_index \in Nat
    BY <1>0, MessageFields DEF handle_append_entries_response, AppendEntriesResponse
<1>2. term[i] \in Nat /\ voted_for[i] \in Node \cup {kNoNode} /\ dirty[i] \in BOOLEAN
    BY <1>1 DEF TypeOK
<1>3. /\ l \in Seq(Nat) /\ store[i] \in Seq(Cell) /\ commit_index[i] \in Nat
      /\ match[i] \in [Node -> Nat] /\ next[i] \in [Node -> Nat]
    BY <1>1 DEF TypeOK
<1>4. held \in Nat
  <2> HIDE DEF l
  <2>1. l \in Seq(Nat)
    BY <1>3
  <2>2. Len(l) \in Nat
    BY <2>1
  <2> QED BY <1>1, <2>2 DEF MinOf
<1>5. retry \in Nat /\ from \in Nat /\ matches \in [Node -> Nat]
  <2> HIDE DEF held
  <2> QED BY <1>1, <1>3, <1>4
<1>6. commit \in Nat
  <2> HIDE DEF matches
  <2> QED BY <1>1, <1>2, <1>3, <1>5, AdvanceType
<1>7. onward \in SUBSET Message /\ again \in SUBSET Message
  <2> HIDE DEF l, i, p, from, retry, commit
  <2>1. send_append_entries(i, p, term[i], l, store[i], commit, from) \subseteq Message
    BY <1>1, <1>2, <1>3, <1>5, <1>6, SendAppendType, Zenon
  <2>2. send_append_entries(i, p, term[i], l, store[i], commit_index[i], retry) \subseteq Message
    BY <1>1, <1>2, <1>3, <1>5, SendAppendType, Zenon
  <2> QED BY <2>1, <2>2
<1>8. {m} \in SUBSET msgs
    OBVIOUS
<1>9. UNCHANGED <<role, votes, logVars, elected>>
    BY DEF handle_append_entries_response
<1>10. CASE m.granted
  <2>1. /\ match' = [match EXCEPT ![i] = matches]
        /\ next' = [next EXCEPT ![i][p] = from]
        /\ commit_index' = [commit_index EXCEPT ![i] = commit]
        /\ record_commit(store[i], commit)
        /\ Drive(i, term[i], voted_for[i], dirty[i], {m}, onward)
    BY <1>10, Zenon DEF handle_append_entries_response
  <2> HIDE DEF i, p, matches, from, commit, onward
  <2>2. DriveTypeOK'
    BY <1>0, <1>1, <1>2, <1>7, <1>8, <2>1, DriveType, Zenon
  <2>3. match' \in [Node -> [Node -> Nat]]
    BY <1>5, <2>1 DEF TypeOK
  <2>4. next' \in [Node -> [Node -> Nat]]
    BY <1>1, <1>3, <1>5, <2>1 DEF TypeOK
  <2>5. commit_index' \in [Node -> Nat]
    BY <1>6, <2>1 DEF TypeOK
  <2>6. committed' \in Seq(Cell)
    BY <1>3, <1>6, <2>1, RecordCommitType, Zenon
  <2> QED BY <1>9, <2>2, <2>3, <2>4, <2>5, <2>6 DEF TypeOK, DriveTypeOK, logVars
<1>11. CASE ~m.granted
  <2>1. /\ next' = [next EXCEPT ![i][p] = retry]
        /\ Drive(i, term[i], voted_for[i], dirty[i], {m}, again)
        /\ UNCHANGED <<match, commit_index, committed>>
    BY <1>11, Zenon DEF handle_append_entries_response
  <2> HIDE DEF i, p, retry, again
  <2>2. DriveTypeOK'
    BY <1>0, <1>1, <1>2, <1>7, <1>8, <2>1, DriveType, Zenon
  <2>3. next' \in [Node -> [Node -> Nat]]
    BY <1>1, <1>3, <1>5, <2>1 DEF TypeOK
  <2> QED BY <1>9, <2>1, <2>2, <2>3 DEF TypeOK, DriveTypeOK, logVars
<1> QED BY <1>10, <1>11

\* Broker::start rebuilds a well-typed node from any storage it recovers.
LEMMA StartType ==
    ASSUME TypeOK, NEW i \in Node, NEW s \in Seq(Cell), msgs' \subseteq Message, start(i, s)
    PROVE  TypeOK'
<1>1. Len(s) \in Nat
    OBVIOUS
<1>2. scan_epochs(s) \in Seq(Nat)
  <2>1. \A k \in 1..Len(s) : s[k] \in Cell
    OBVIOUS
  <2>2. scan_epochs(s) \in [1..Len(s) -> Nat]
    BY <2>1 DEF scan_epochs, Cell
  <2> QED BY <1>1, <2>2
<1>3. disk[i] \in HardState
    BY DEF TypeOK
<1>4. disk[i].term \in Nat /\ disk[i].voted_for \in Node \cup {kNoNode}
    BY <1>3 DEF HardState
<1>5. [p \in Node |-> 0] \in [Node -> Nat]
    OBVIOUS
<1>6. log' \in [Node -> Seq(Nat)]
    BY <1>2 DEF TypeOK, start
<1>7. store' \in [Node -> Seq(Cell)]
    BY DEF TypeOK, start
<1>8. synced' \in [Node -> Nat] /\ commit_index' \in [Node -> Nat]
    BY <1>1 DEF TypeOK, start
<1>9. running' \in [Node -> BOOLEAN]
    BY DEF TypeOK, start
<1>10. dirty' \in [Node -> BOOLEAN]
    BY DEF TypeOK, start
<1>11. term' \in [Node -> Nat] /\ voted_for' \in [Node -> Node \cup {kNoNode}]
    BY <1>4 DEF TypeOK, start
<1>12. slot' \in [Node -> HardState] /\ UNCHANGED <<disk, historyVars>>
    BY <1>3 DEF TypeOK, start
<1>13. role' \in [Node -> Role] /\ votes' \in [Node -> SUBSET Node]
    BY DEF TypeOK, start, Role
<1>14. match' \in [Node -> [Node -> Nat]]
    BY <1>5 DEF TypeOK, start
<1>15. next' \in [Node -> [Node -> Nat]]
    BY <1>5 DEF TypeOK, start
<1>16. ballots' \subseteq [voter : Node, term : Nat, candidate : Node]
  <2>1. DriveTypeOK
    BY DEF TypeOK, DriveTypeOK
  <2>2. record_ballot(i, disk[i].term, disk[i].voted_for)
    BY DEF start
  <2> QED BY <1>4, <2>1, <2>2, BallotType, Zenon
<1> QED BY <1>6, <1>7, <1>8, <1>9, <1>10, <1>11, <1>12, <1>13, <1>14, <1>15, <1>16
        DEF TypeOK, historyVars

\* Recovery keeps a prefix of the log.
LEMMA RecoveredType ==
    ASSUME NEW s \in Seq(Cell), NEW durable \in Nat, NEW r \in recovered(s, durable)
    PROVE  r \in Seq(Cell)
<1>1. PICK k \in durable..Len(s) : r = SubSeq(s, 1, k)
    BY DEF recovered
<1> QED BY <1>1, PrefixType

\* Types are kept by a crash between callbacks and the restart.
LEMMA TypeRestart ==
    ASSUME TypeOK, NEW i \in Node, Restart(i)
    PROVE  TypeOK'
<1>1. store[i] \in Seq(Cell) /\ synced[i] \in Nat /\ msgs \subseteq Message
    BY DEF TypeOK
<1>2. msgs' = msgs
    BY DEF Restart
<1>3. PICK s \in recovered(store[i], synced[i]) : start(i, s)
    BY DEF Restart
<1>4. s \in Seq(Cell)
    BY <1>1, RecoveredType
<1> QED BY <1>1, <1>2, <1>3, <1>4, StartType

\* Types are kept by a crash inside drive() and the restart.
LEMMA TypeCrashInDrive ==
    ASSUME TypeOK, NEW m \in msgs, CrashInDrive(m)
    PROVE  TypeOK'
<1> DEFINE i == m.to
           durable == MinOf(synced[i], Len(store_cut(i, m)))
<1>0. DriveTypeOK /\ m \in Message
    BY DEF TypeOK, DriveTypeOK
<1>1. i \in Node /\ m \in AppendEntries
    BY <1>0, MessageFields DEF CrashInDrive
<1>2. log_matches(log[i], m) /\ cut_ok(i, m)
    BY DEF CrashInDrive
<1>3. store_cut(i, m) \in Seq(Cell) /\ store_after(i, m) \in Seq(Cell)
    BY <1>1, <1>2, StoreAfterType
<1>4. durable \in Nat
  <2>1. synced[i] \in Nat
    BY <1>1 DEF TypeOK
  <2>2. Len(store_cut(i, m)) \in Nat
    BY <1>3
  <2> QED BY <2>1, <2>2 DEF MinOf
<1>5. PICK s \in recovered(store_after(i, m), durable) : start(i, s)
    BY DEF CrashInDrive
<1>6. s \in Seq(Cell)
  <2> HIDE DEF durable
  <2> QED BY <1>3, <1>4, <1>5, RecoveredType, Zenon
<1>7. msgs' \subseteq Message
  <2>1. Send({m}, {}) /\ {m} \in SUBSET msgs /\ {} \in SUBSET Message
    BY DEF CrashInDrive
  <2> QED BY <1>0, <2>1, SendType, Zenon
<1> QED BY <1>1, <1>5, <1>6, <1>7, StartType

\* Every variable of the cluster keeps its type, in every reachable state.
THEOREM TypeCorrect == Spec => []TypeOK
<1>1. Init => TypeOK
  <2> SUFFICES ASSUME Init PROVE TypeOK
    OBVIOUS
  <2>1. [p \in Node |-> 0] \in [Node -> Nat]
    OBVIOUS
  <2>2. match \in [Node -> [Node -> Nat]] /\ next \in [Node -> [Node -> Nat]]
    BY <2>1 DEF Init
  <2>3. slot \in [Node -> HardState] /\ disk \in [Node -> HardState]
    BY DEF Init, HardState
  <2> QED BY <2>2, <2>3 DEF Init, TypeOK, Role
<1>2. TypeOK /\ [Next]_vars => TypeOK'
  <2> SUFFICES ASSUME TypeOK, [Next]_vars PROVE TypeOK'
    OBVIOUS
  <2>1. CASE Next
    BY <2>1, TypeCampaign, TypeHeartbeat, TypePropose, TypeProposeUnsynced, TypeStepStale,
       TypeHandleRequestVote, TypeStepDown, TypeHandleRequestVoteResponse, TypeReject,
       TypeAccept, TypeStopServing, TypeHandleAppendEntriesResponse, TypeRestart,
       TypeCrashInDrive, Zenon DEF Next
  <2>2. CASE UNCHANGED vars
    BY <2>2 DEF vars, hardVars, logVars, leaderVars, historyVars, TypeOK
  <2> QED BY <2>1, <2>2
<1> QED BY <1>1, <1>2, PTL DEF Spec

=============================================================================
