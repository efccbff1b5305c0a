--------------------------- MODULE RaftVoteProofs ---------------------------
(***************************************************************************)
(* Proofs about votes.  VoteInv of RaftCluster is inductive, and from it   *)
(* follow ElectionSafety (I6), AnnouncedVoteIsDurable and                  *)
(* DurableVoteIsFinal, for every cluster, every bound and every set of     *)
(* faults.                                                                 *)
(***************************************************************************)
EXTENDS RaftClusterProofs

\* Follows orders the hard states of a node.
LEMMA FollowsTransitive ==
    ASSUME NEW a \in HardState, NEW b \in HardState, NEW c \in HardState,
           Follows(a, b), Follows(b, c)
    PROVE  Follows(a, c)
BY DEF Follows, HardState

\* Every hard state follows itself.
LEMMA FollowsReflexive ==
    ASSUME NEW a \in HardState
    PROVE  Follows(a, a)
BY DEF Follows, HardState

\* No step takes raft.state behind what persist() reported.
KeepsVotes ==
    \A j \in Node : Follows(slot'[j], slot[j]) /\ Follows(disk'[j], slot[j])

\* The part of VoteInv that Drive and start can disturb by themselves.
BallotInv ==
    /\ \A j \in Node : HardStateOrdered(j)
    /\ \A j \in Node : slot[j].voted_for # kNoNode =>
          Ballot(j, slot[j].term, slot[j].voted_for) \in ballots
    /\ \A b \in ballots :
          Follows(slot[b.voter], [term |-> b.term, voted_for |-> b.candidate])
    /\ \A a, b \in ballots :
          a.voter = b.voter /\ a.term = b.term => a.candidate = b.candidate

\* A ballot that follows all the earlier ones of its voter keeps one per term.
LEMMA CastBallot ==
    ASSUME TypeOK, TypeOK', BallotInv, NEW i \in Node, NEW state \in HardState,
           Follows(state, slot[i]),
           slot' = [slot EXCEPT ![i] = state],
           record_ballot(i, state.term, state.voted_for)
    PROVE  /\ ballots \subseteq ballots'
           /\ state.voted_for # kNoNode =>
                 Ballot(i, state.term, state.voted_for) \in ballots'
           /\ \A j \in Node : slot'[j].voted_for # kNoNode =>
                 Ballot(j, slot'[j].term, slot'[j].voted_for) \in ballots'
           /\ \A b \in ballots' :
                 Follows(slot'[b.voter], [term |-> b.term, voted_for |-> b.candidate])
           /\ \A a, b \in ballots' :
                 a.voter = b.voter /\ a.term = b.term => a.candidate = b.candidate
<1> DEFINE mine == Ballot(i, state.term, state.voted_for)
<1>1. /\ ballots' = IF state.voted_for = kNoNode THEN ballots ELSE ballots \cup {mine}
      /\ slot'[i] = state /\ \A j \in Node : j # i => slot'[j] = slot[j]
    BY DEF record_ballot, Ballot, TypeOK
<1>2. /\ ballots \subseteq ballots'
      /\ state.voted_for # kNoNode => mine \in ballots'
      /\ \A b \in ballots' : b \in ballots \/ (b = mine /\ state.voted_for # kNoNode)
    BY <1>1, Zenon
<1>3. /\ mine.voter = i /\ mine.term = state.term /\ mine.candidate = state.voted_for
    BY DEF Ballot
<1>4. \A b \in ballots : /\ b.voter \in Node /\ b.term \in Nat /\ b.candidate \in Node
    BY DEF TypeOK
<1>5. \A b \in ballots : b.voter = i =>
          Follows(state, [term |-> b.term, voted_for |-> b.candidate])
  <2> SUFFICES ASSUME NEW b \in ballots, b.voter = i
               PROVE  Follows(state, [term |-> b.term, voted_for |-> b.candidate])
    OBVIOUS
  <2>1. Follows(slot[i], [term |-> b.term, voted_for |-> b.candidate])
    BY DEF BallotInv
  <2>2. slot[i] \in HardState /\ [term |-> b.term, voted_for |-> b.candidate] \in HardState
    BY <1>4 DEF TypeOK, HardState
  <2> QED BY <2>1, <2>2, FollowsTransitive
<1>6. \A j \in Node : slot'[j].voted_for # kNoNode =>
          Ballot(j, slot'[j].term, slot'[j].voted_for) \in ballots'
  <2> SUFFICES ASSUME NEW j \in Node, slot'[j].voted_for # kNoNode
               PROVE  Ballot(j, slot'[j].term, slot'[j].voted_for) \in ballots'
    OBVIOUS
  <2>1. CASE j = i
    BY <1>1, <1>2, <2>1
  <2>2. CASE j # i
    BY <1>1, <1>2, <2>2 DEF BallotInv
  <2> QED BY <2>1, <2>2
<1>7. \A b \in ballots' :
          Follows(slot'[b.voter], [term |-> b.term, voted_for |-> b.candidate])
  <2> SUFFICES ASSUME NEW b \in ballots'
               PROVE  Follows(slot'[b.voter], [term |-> b.term, voted_for |-> b.candidate])
    OBVIOUS
  <2>1. CASE b \in ballots /\ b.voter = i
    BY <1>1, <1>5, <2>1
  <2>2. CASE b \in ballots /\ b.voter # i
    BY <1>1, <1>4, <2>2 DEF BallotInv
  <2>3. CASE b = mine
    BY <1>1, <1>3, <2>3 DEF Follows, HardState
  <2> QED BY <1>2, <2>1, <2>2, <2>3
<1>8. \A b \in ballots : b.voter = i /\ b.term = state.term => b.candidate = state.voted_for
    BY <1>4, <1>5, NodeAssumption DEF Follows, HardState
<1>9. \A a, b \in ballots' :
          a.voter = b.voter /\ a.term = b.term => a.candidate = b.candidate
  <2> SUFFICES ASSUME NEW a \in ballots', NEW b \in ballots',
                      a.voter = b.voter, a.term = b.term
               PROVE  a.candidate = b.candidate
    OBVIOUS
  <2>1. CASE a \in ballots /\ b \in ballots
    BY <2>1 DEF BallotInv
  <2>2. CASE a = mine /\ b \in ballots
    BY <1>3, <1>8, <2>2
  <2>3. CASE a \in ballots /\ b = mine
    BY <1>3, <1>8, <2>3
  <2>4. CASE a = mine /\ b = mine
    BY <2>4
  <2> QED BY <1>2, <2>1, <2>2, <2>3, <2>4
<1> QED BY <1>2, <1>6, <1>7, <1>9

\* Drive with a hard state that follows the node's own: what was reported stays,
\* a message leaves only with its vote cast, and a failed write casts nothing.
LEMMA DriveVotes ==
    ASSUME TypeOK, TypeOK', BallotInv, NEW i \in Node, NEW t \in Nat,
           NEW v \in Node \cup {kNoNode}, NEW owes \in BOOLEAN,
           NEW got \in SUBSET msgs, NEW out,
           Follows([term |-> t, voted_for |-> v], Hard(i)),
           ~owes => ~dirty[i] /\ t = term[i] /\ v = voted_for[i],
           Drive(i, t, v, owes, got, out)
    PROVE  /\ BallotInv' /\ KeepsVotes /\ ballots \subseteq ballots'
           /\ msgs' \subseteq msgs \cup out
           /\ msgs' \subseteq msgs \/ v = kNoNode \/ Ballot(i, t, v) \in ballots'
<1> DEFINE state == [term |-> t, voted_for |-> v]
<1>1. /\ state \in HardState /\ state.term = t /\ state.voted_for = v
      /\ Hard(i) \in HardState /\ disk[i] \in HardState /\ slot[i] \in HardState
    BY DEF TypeOK, HardState, Hard
<1>2. Hard(i)' = state /\ \A j \in Node : j # i => Hard(j)' = Hard(j)
    BY DEF Drive, Hard, TypeOK
<1>3. Follows(disk[i], slot[i]) /\ Follows(Hard(i), disk[i])
    BY DEF BallotInv, HardStateOrdered
<1>4. Follows(state, disk[i]) /\ Follows(state, slot[i])
  <2> HIDE DEF state
  <2>1. Follows(state, disk[i])
    BY <1>1, <1>3, FollowsTransitive, Zenon DEF state
  <2> QED BY <1>1, <1>3, <2>1, FollowsTransitive, Zenon
<1>5. \A j \in Node : slot[j] \in HardState /\ disk[j] \in HardState
    BY DEF TypeOK
<1>6. CASE ~owes
  <2>1. UNCHANGED <<dirty, slot, disk, ballots>> /\ Send(got, out)
    BY <1>6 DEF Drive
  <2>2. Hard(i) = state /\ slot[i] = state
    BY <1>6 DEF Hard, BallotInv, HardStateOrdered
  <2>3. \A j \in Node : Hard(j)' = Hard(j)
    BY <1>2, <2>2
  <2>4. BallotInv'
    BY <2>1, <2>3 DEF BallotInv, HardStateOrdered
  <2>5. KeepsVotes
    BY <1>5, <2>1, FollowsReflexive DEF KeepsVotes, BallotInv, HardStateOrdered
  <2>6. msgs' \subseteq msgs \cup out
    BY <2>1 DEF Send
  <2>7. v = kNoNode \/ Ballot(i, t, v) \in ballots'
    BY <1>1, <2>1, <2>2 DEF BallotInv
  <2> QED BY <2>1, <2>4, <2>5, <2>6, <2>7
<1>7. CASE /\ owes
           /\ dirty' = [dirty EXCEPT ![i] = FALSE]
           /\ slot' = [slot EXCEPT ![i] = state]
           /\ disk' = [disk EXCEPT ![i] = state]
           /\ record_ballot(i, t, v)
           /\ Send(got, out)
  <2> HIDE DEF state
  <2>1. /\ slot'[i] = state /\ disk'[i] = state
        /\ \A j \in Node : j # i => slot'[j] = slot[j] /\ disk'[j] = disk[j] /\ dirty'[j] = dirty[j]
    BY <1>7 DEF TypeOK
  <2>2. /\ ballots \subseteq ballots'
        /\ v # kNoNode => Ballot(i, t, v) \in ballots'
        /\ \A j \in Node : slot'[j].voted_for # kNoNode =>
              Ballot(j, slot'[j].term, slot'[j].voted_for) \in ballots'
        /\ \A b \in ballots' :
              Follows(slot'[b.voter], [term |-> b.term, voted_for |-> b.candidate])
        /\ \A a, b \in ballots' :
              a.voter = b.voter /\ a.term = b.term => a.candidate = b.candidate
    BY <1>1, <1>4, <1>7, CastBallot
  <2>3. \A j \in Node : HardStateOrdered(j)'
    BY <1>1, <1>2, <2>1, FollowsReflexive DEF BallotInv, HardStateOrdered
  <2>4. BallotInv'
    BY <2>2, <2>3 DEF BallotInv
  <2>5. KeepsVotes
    BY <1>4, <1>5, <2>1, FollowsReflexive DEF KeepsVotes, BallotInv, HardStateOrdered
  <2>6. msgs' \subseteq msgs \cup out
    BY <1>7 DEF Send
  <2> QED BY <2>2, <2>4, <2>5, <2>6
<1>8. CASE /\ owes
           /\ dirty' = [dirty EXCEPT ![i] = TRUE]
           /\ \E found \in {disk[i], slot[i], state} : disk' = [disk EXCEPT ![i] = found]
           /\ Send(got, {})
           /\ UNCHANGED <<slot, ballots>>
  <2> HIDE DEF state
  <2>1. PICK found \in {disk[i], slot[i], state} : disk' = [disk EXCEPT ![i] = found]
    BY <1>8
  <2>2. Follows(state, found) /\ Follows(found, slot[i])
    BY <1>1, <1>3, <1>4, FollowsReflexive
  <2>3. /\ disk'[i] = found /\ dirty'[i] = TRUE /\ slot'[i] = slot[i]
        /\ \A j \in Node : j # i => slot'[j] = slot[j] /\ disk'[j] = disk[j] /\ dirty'[j] = dirty[j]
    BY <1>8, <2>1 DEF TypeOK
  <2>4. \A j \in Node : HardStateOrdered(j)'
    BY <1>2, <2>2, <2>3 DEF BallotInv, HardStateOrdered
  <2>5. BallotInv'
    BY <1>8, <2>4 DEF BallotInv
  <2>6. KeepsVotes
    BY <1>5, <2>2, <2>3, FollowsReflexive DEF KeepsVotes, BallotInv, HardStateOrdered
  <2>7. msgs' \subseteq msgs
    BY <1>8 DEF Send
  <2> QED BY <1>8, <2>5, <2>6, <2>7
<1> QED BY <1>6, <1>7, <1>8 DEF Drive

-----------------------------------------------------------------------------
(* Every step keeps VoteInv and raft.state.                                *)

\* The votes candidates hold stand on the same ballots as before.
StillCounted ==
    \A j \in Node : role'[j] = "candidate" =>
        role[j] = "candidate" /\ term'[j] = term[j] /\ votes'[j] \subseteq votes[j]

\* VoteInv after a step, from what is new in it.
LEMMA VoteFrame ==
    ASSUME VoteInv, BallotInv', ballots \subseteq ballots',
           \A m \in msgs' : m \in msgs \/ Backed(m, ballots'),
           \A j \in Node : role'[j] = "candidate" =>
               \A k \in votes'[j] \ {j} : Ballot(k, term'[j], j) \in ballots',
           \A e \in elected' : e \in elected \/ Chosen(e, ballots')
    PROVE  VoteInv'
<1>1. \A m \in msgs' : Backed(m, ballots')
    BY DEF VoteInv, Backed
<1>2. \A e \in elected' : Chosen(e, ballots')
    BY DEF VoteInv, Chosen
<1> QED BY <1>1, <1>2 DEF VoteInv, BallotInv

\* A step that only drives and elects nobody.
LEMMA DriveStep ==
    ASSUME TypeOK, TypeOK', VoteInv, NEW i \in Node, NEW t \in Nat,
           NEW v \in Node \cup {kNoNode}, NEW owes \in BOOLEAN,
           NEW got \in SUBSET msgs, NEW out,
           Follows([term |-> t, voted_for |-> v], Hard(i)),
           ~owes => ~dirty[i] /\ t = term[i] /\ v = voted_for[i],
           Drive(i, t, v, owes, got, out),
           \A m \in out : \A cast :
               ballots \subseteq cast /\ (v = kNoNode \/ Ballot(i, t, v) \in cast) => Backed(m, cast),
           StillCounted, elected' = elected
    PROVE  VoteInv' /\ KeepsVotes
<1>1. BallotInv
    BY DEF VoteInv, BallotInv
<1>2. /\ BallotInv' /\ KeepsVotes /\ ballots \subseteq ballots'
      /\ msgs' \subseteq msgs \cup out
      /\ msgs' \subseteq msgs \/ v = kNoNode \/ Ballot(i, t, v) \in ballots'
    BY <1>1, DriveVotes
<1>3. \A m \in msgs' : m \in msgs \/ Backed(m, ballots')
    BY <1>2, Zenon
<1>4. \A j \in Node : role'[j] = "candidate" =>
          \A k \in votes'[j] \ {j} : Ballot(k, term'[j], j) \in ballots'
  <2> SUFFICES ASSUME NEW j \in Node, role'[j] = "candidate", NEW k \in votes'[j] \ {j}
               PROVE  Ballot(k, term'[j], j) \in ballots'
    OBVIOUS
  <2>1. role[j] = "candidate" /\ term'[j] = term[j] /\ k \in votes[j] \ {j}
    BY Zenon DEF StillCounted
  <2> QED BY <1>2, <2>1, Zenon DEF VoteInv
<1> QED BY <1>2, <1>3, <1>4, VoteFrame, Zenon

\* AppendEntries and its answers rest on no vote.
LEMMA AppendBacked ==
    ASSUME NEW out, \A m \in out : m.type \in {"AppendEntries", "AppendEntriesResponse"}
    PROVE  \A m \in out : \A cast : Backed(m, cast)
BY DEF Backed

\* What send_append_entries and append_response build.
LEMMA AppendTypes ==
    /\ \A i, p, t, l, s, commit, from :
          \A m \in send_append_entries(i, p, t, l, s, commit, from) : m.type = "AppendEntries"
    /\ \A i, p, t, g, n : append_response(i, p, t, g, n).type = "AppendEntriesResponse"
<1>1. ASSUME NEW i, NEW p, NEW t, NEW l, NEW s, NEW commit, NEW from,
             NEW m \in send_append_entries(i, p, t, l, s, commit, from)
      PROVE  m.type = "AppendEntries"
    BY DEF send_append_entries
<1>2. \A i, p, t, g, n : append_response(i, p, t, g, n).type = "AppendEntriesResponse"
    BY DEF append_response
<1> QED BY <1>1, <1>2

\* The hard state a node keeps follows itself, and a write it owes stays owed.
LEMMA SameHard ==
    ASSUME TypeOK, NEW i \in Node
    PROVE  /\ Follows([term |-> term[i], voted_for |-> voted_for[i]], Hard(i))
           /\ term[i] \in Nat /\ voted_for[i] \in Node \cup {kNoNode} /\ dirty[i] \in BOOLEAN
BY DEF Follows, Hard, TypeOK

\* become_follower moves to a later term without a vote, or stays as it is.
LEMMA LaterHard ==
    ASSUME TypeOK, NEW i \in Node, NEW t \in Nat, t >= term[i]
    PROVE  /\ Follows([term |-> t, voted_for |-> vote_in(i, t)], Hard(i))
           /\ ~owes_in(i, t) => ~dirty[i] /\ t = term[i] /\ vote_in(i, t) = voted_for[i]
           /\ vote_in(i, t) \in Node \cup {kNoNode} /\ owes_in(i, t) \in BOOLEAN
<1>1. term[i] \in Nat /\ voted_for[i] \in Node \cup {kNoNode} /\ dirty[i] \in BOOLEAN
    BY DEF TypeOK
<1>2. Follows([term |-> t, voted_for |-> vote_in(i, t)], Hard(i))
    BY <1>1 DEF Follows, Hard, vote_in
<1>3. ~owes_in(i, t) => ~dirty[i] /\ t = term[i] /\ vote_in(i, t) = voted_for[i]
    BY <1>1 DEF owes_in, vote_in
<1> QED BY <1>2, <1>3, VoteInType

\* Leaders' ticks and proposals, the retried write, and stale requests keep term
\* and vote, and say nothing of votes but a refusal.
LEMMA VotesKeptHard ==
    ASSUME TypeOK, TypeOK', VoteInv, NEW i \in Node, NEW got \in SUBSET msgs, NEW out,
           NEW owes \in BOOLEAN, dirty[i] => owes,
           \A m \in out : \A cast : Backed(m, cast),
           Drive(i, term[i], voted_for[i], owes, got, out),
           UNCHANGED <<role, votes, elected>>
    PROVE  VoteInv' /\ KeepsVotes
<1>1. term' = term
    BY DEF Drive, TypeOK
<1>2. StillCounted
    BY <1>1 DEF StillCounted
<1>3. ~owes => ~dirty[i] /\ term[i] = term[i] /\ voted_for[i] = voted_for[i]
    OBVIOUS
<1>4. elected' = elected
    OBVIOUS
<1> QED BY <1>2, <1>3, <1>4, SameHard, DriveStep, Zenon

\* Steps of Ticks and propose.
LEMMA VotesLeader ==
    ASSUME TypeOK, TypeOK', VoteInv, NEW i \in Node,
           \/ Heartbeat(i)
           \/ RetryPersist(i)
           \/ \E n \in BatchSizes : propose(i, n)
    PROVE  VoteInv' /\ KeepsVotes
<1>0. {} \in SUBSET msgs /\ TRUE \in BOOLEAN /\ dirty[i] \in BOOLEAN
    BY SameHard
<1>1. CASE Heartbeat(i)
  <2>1. \A m \in broadcast_heartbeat(i, term[i], next[i]) :
            m.type \in {"AppendEntries", "AppendEntriesResponse"}
    BY AppendTypes DEF broadcast_heartbeat
  <2>2. \A m \in broadcast_heartbeat(i, term[i], next[i]) : \A cast : Backed(m, cast)
    BY <2>1, AppendBacked, Zenon
  <2>3. /\ Drive(i, term[i], voted_for[i], dirty[i], {}, broadcast_heartbeat(i, term[i], next[i]))
        /\ UNCHANGED <<role, votes, elected>>
    BY <1>1 DEF Heartbeat, historyVars
  <2> QED BY <1>0, <2>2, <2>3, VotesKeptHard, Zenon
<1>2. CASE RetryPersist(i)
  <2> DEFINE owes == TRUE
             none == {}
  <2>1. /\ \A m \in none : \A cast : Backed(m, cast)
        /\ owes \in BOOLEAN /\ (dirty[i] => owes) /\ none \in SUBSET msgs
    OBVIOUS
  <2>2. /\ Drive(i, term[i], voted_for[i], owes, none, none)
        /\ UNCHANGED <<role, votes, elected>>
    BY <1>2 DEF RetryPersist, historyVars
  <2> HIDE DEF owes, none
  <2> QED BY <1>0, <2>1, <2>2, VotesKeptHard, Zenon
<1>3. ASSUME NEW n \in BatchSizes, propose(i, n) PROVE VoteInv' /\ KeepsVotes
  <2> DEFINE index == Len(store[i])
             end == index + n
             l == log_appended(log[i], index, end, term[i])
             s == store[i] \o Batch(index, end, term[i])
             commit == advance_commit_index(i, term[i], l, match[i], commit_index[i])
             out == UNION {send_append_entries(i, p, term[i], l, s, commit, index) :
                           p \in {q \in Peers(i) : next[i][q] = index}}
  <2>1. /\ Drive(i, term[i], voted_for[i], dirty[i], {}, out)
        /\ UNCHANGED <<role, votes, elected>>
    BY <1>3, Zenon DEF propose
  <2> HIDE DEF l, s, commit, index
  <2>2. \A m \in out : m.type \in {"AppendEntries", "AppendEntriesResponse"}
    BY AppendTypes
  <2> HIDE DEF out
  <2>3. \A m \in out : \A cast : Backed(m, cast)
    BY <2>2, AppendBacked, Zenon
  <2> QED BY <1>0, <2>1, <2>3, VotesKeptHard, Zenon
<1> QED BY <1>1, <1>2, <1>3

\* propose whose fsync fails touches no vote.
LEMMA VotesProposeUnsynced ==
    ASSUME TypeOK, VoteInv, NEW i \in Node, NEW n \in BatchSizes, propose_unsynced(i, n)
    PROVE  VoteInv' /\ KeepsVotes
<1>1. UNCHANGED <<hardVars, role, votes, msgs, elected>>
    BY DEF propose_unsynced, historyVars
<1>2. \A j \in Node : slot[j] \in HardState
    BY DEF TypeOK
<1>3. VoteInv'
    BY <1>1, Zenon DEF VoteInv, hardVars, HardStateOrdered, Hard, Backed, Chosen
<1>4. KeepsVotes
    BY <1>1, <1>2, FollowsReflexive DEF KeepsVotes, VoteInv, HardStateOrdered, hardVars
<1> QED BY <1>3, <1>4

\* A stale request is refused.
LEMMA VotesStepStale ==
    ASSUME TypeOK, TypeOK', VoteInv, NEW m \in msgs, step_stale(m)
    PROVE  VoteInv' /\ KeepsVotes
<1> DEFINE i == m.to
           reply == IF m.type = "RequestVote"
                    THEN vote_response(i, m.from, term[i], FALSE)
                    ELSE append_response(i, m.from, term[i], FALSE, Len(log[i]))
<1>1. i \in Node /\ {m} \in SUBSET msgs
    BY MessageFields DEF TypeOK
<1>2. dirty[i] \in BOOLEAN
    BY <1>1, SameHard
<1>3. /\ Drive(i, term[i], voted_for[i], dirty[i], {m}, {reply})
      /\ UNCHANGED <<role, votes, elected>>
    BY Zenon DEF step_stale, historyVars
<1>4. \A r \in {reply} : \A cast : Backed(r, cast)
  <2>1. reply.type \in {"RequestVoteResponse", "AppendEntriesResponse"} /\ reply.granted = FALSE
    BY DEF vote_response, append_response
  <2> HIDE DEF reply
  <2> QED BY <2>1 DEF Backed
<1> HIDE DEF i, reply
<1> QED BY <1>1, <1>2, <1>3, <1>4, VotesKeptHard, Zenon

\* The leader's bookkeeping of answers.
LEMMA VotesHandleAppendEntriesResponse ==
    ASSUME TypeOK, TypeOK', VoteInv, NEW m \in msgs, handle_append_entries_response(m)
    PROVE  VoteInv' /\ KeepsVotes
<1> DEFINE i == m.to
<1>1. i \in Node /\ {m} \in SUBSET msgs
    BY MessageFields DEF TypeOK
<1>2. dirty[i] \in BOOLEAN
    BY <1>1, SameHard
<1>3. UNCHANGED <<role, votes, elected>>
    BY DEF handle_append_entries_response
<1>4. \E p, l, s, c, from, out :
          /\ out \subseteq send_append_entries(i, p, term[i], l, s, c, from)
          /\ Drive(i, term[i], voted_for[i], dirty[i], {m}, out)
  <2> DEFINE l == log[i]
             p == m.from
             held == MinOf(m.log_index, Len(l))
             retry == IF held < match[i][p] THEN match[i][p] ELSE held
             matches == IF held > match[i][p] THEN [match[i] EXCEPT ![p] = held] ELSE match[i]
             from == IF held > next[i][p] THEN held ELSE next[i][p]
             commit == advance_commit_index(i, term[i], l, matches, commit_index[i])
             onward == IF from < Len(l)
                       THEN send_append_entries(i, p, term[i], l, store[i], commit, from)
                       ELSE {}
             again == send_append_entries(i, p, term[i], l, store[i], commit_index[i], retry)
  <2>1. CASE m.granted
    <3>1. Drive(i, term[i], voted_for[i], dirty[i], {m}, onward)
      BY <2>1, Zenon DEF handle_append_entries_response
    <3>2. onward \subseteq send_append_entries(i, p, term[i], l, store[i], commit, from)
      BY Zenon
    <3> QED BY <3>1, <3>2, Zenon
  <2>2. CASE ~m.granted
    <3>1. Drive(i, term[i], voted_for[i], dirty[i], {m}, again)
      BY <2>2, Zenon DEF handle_append_entries_response
    <3> QED BY <3>1, Zenon
  <2> QED BY <2>1, <2>2
<1>5. PICK p, l, s, c, from, out :
          /\ out \subseteq send_append_entries(i, p, term[i], l, s, c, from)
          /\ Drive(i, term[i], voted_for[i], dirty[i], {m}, out)
    BY <1>4
<1>6. \A r \in out : r.type \in {"AppendEntries", "AppendEntriesResponse"}
    BY <1>5, AppendTypes
<1>7. \A r \in out : \A cast : Backed(r, cast)
    BY <1>6, AppendBacked, Zenon
<1> HIDE DEF i
<1> QED BY <1>1, <1>2, <1>3, <1>5, <1>7, VotesKeptHard, Zenon

\* Following a leader: the answers rest on no vote, a later term has none yet.
LEMMA VotesFollow ==
    ASSUME TypeOK, TypeOK', VoteInv, NEW m \in msgs, follow(m), NEW out,
           \A r \in out : r.type \in {"AppendEntries", "AppendEntriesResponse"},
           Drive(m.to, m.term, vote_in(m.to, m.term), owes_in(m.to, m.term), {m}, out),
           UNCHANGED elected
    PROVE  VoteInv' /\ KeepsVotes
<1> DEFINE i == m.to
<1>1. i \in Node /\ m.term \in Nat /\ {m} \in SUBSET msgs
    BY MessageFields DEF TypeOK
<1>2. m.term >= term[i]
    BY DEF follow
<1>3. role' = [role EXCEPT ![i] = "follower"] /\ votes' = [votes EXCEPT ![i] = {}]
    BY DEF follow
<1>4. term' = [term EXCEPT ![i] = m.term]
    BY DEF Drive
<1>5. StillCounted
  <2> HIDE DEF i
  <2>1. DOMAIN role = Node /\ DOMAIN term = Node /\ DOMAIN votes = Node
    BY DEF TypeOK
  <2>2. ASSUME NEW j \in Node, role'[j] = "candidate"
        PROVE  role[j] = "candidate" /\ term'[j] = term[j] /\ votes'[j] \subseteq votes[j]
    <3>1. j # i
      BY <1>1, <1>3, <2>1, <2>2
    <3>2. role'[j] = role[j] /\ term'[j] = term[j] /\ votes'[j] = votes[j]
      BY <1>3, <1>4, <2>1, <3>1
    <3> QED BY <2>2, <3>2
  <2> QED BY <2>2, Zenon DEF StillCounted
<1>6. \A r \in out : \A cast : Backed(r, cast)
    BY AppendBacked, Zenon
<1>7. elected' = elected
    OBVIOUS
<1>8. Drive(i, m.term, vote_in(i, m.term), owes_in(i, m.term), {m}, out)
    OBVIOUS
<1> HIDE DEF i
<1>9. /\ Follows([term |-> m.term, voted_for |-> vote_in(i, m.term)], Hard(i))
      /\ ~owes_in(i, m.term) => ~dirty[i] /\ m.term = term[i] /\ vote_in(i, m.term) = voted_for[i]
      /\ vote_in(i, m.term) \in Node \cup {kNoNode} /\ owes_in(i, m.term) \in BOOLEAN
    BY <1>1, <1>2, LaterHard, Zenon
<1> QED BY <1>1, <1>5, <1>6, <1>7, <1>8, <1>9, DriveStep, Zenon

\* handle_append_entries, refusing or accepting.
LEMMA VotesHandleAppendEntries ==
    ASSUME TypeOK, TypeOK', VoteInv, NEW m \in msgs,
           reject_append_entries(m) \/ accept_append_entries(m)
    PROVE  VoteInv' /\ KeepsVotes
<1> DEFINE i == m.to
           l == log_after(log[i], m)
           hint == IF m.log_index >= Len(log[i]) THEN Len(log[i])
                   ELSE epoch_start_at(log[i], m.log_index)
           no == {append_response(i, m.from, m.term, FALSE, hint)}
           yes == {append_response(i, m.from, m.term, TRUE, confirmed(m, l))}
<1>1. CASE reject_append_entries(m)
  <2>1. /\ follow(m)
        /\ Drive(i, m.term, vote_in(i, m.term), owes_in(i, m.term), {m}, no)
        /\ UNCHANGED elected
    BY <1>1, Zenon DEF reject_append_entries, historyVars
  <2>2. \A r \in no : r.type \in {"AppendEntries", "AppendEntriesResponse"}
    BY DEF append_response
  <2> HIDE DEF no
  <2> QED BY <2>1, <2>2, VotesFollow, Zenon
<1>2. CASE accept_append_entries(m)
  <2>1. /\ follow(m)
        /\ Drive(i, m.term, vote_in(i, m.term), owes_in(i, m.term), {m}, yes)
        /\ UNCHANGED elected
    BY <1>2, Zenon DEF accept_append_entries, historyVars
  <2>2. \A r \in yes : r.type \in {"AppendEntries", "AppendEntriesResponse"}
    BY DEF append_response
  <2> HIDE DEF yes
  <2> QED BY <2>1, <2>2, VotesFollow, Zenon
<1> QED BY <1>1, <1>2

\* A later term in an answer.
LEMMA VotesStepDown ==
    ASSUME TypeOK, TypeOK', VoteInv, NEW m \in msgs, step_down_on_response(m)
    PROVE  VoteInv' /\ KeepsVotes
<1> DEFINE i == m.to
<1>1. i \in Node /\ m.term \in Nat /\ {m} \in SUBSET msgs
    BY MessageFields DEF TypeOK
<1>2. /\ m.term > term[i] /\ elected' = elected
      /\ role' = [role EXCEPT ![i] = "follower"] /\ votes' = [votes EXCEPT ![i] = {}]
      /\ Drive(i, m.term, kNoNode, TRUE, {m}, {})
    BY DEF step_down_on_response, historyVars
<1>3. term' = [term EXCEPT ![i] = m.term]
    BY <1>2 DEF Drive
<1>4. StillCounted
  <2> HIDE DEF i
  <2>1. DOMAIN role = Node /\ DOMAIN term = Node /\ DOMAIN votes = Node
    BY DEF TypeOK
  <2>2. role'[i] = "follower"
    BY <1>1, <1>2, <2>1
  <2>3. \A j \in Node : j # i => role'[j] = role[j] /\ term'[j] = term[j] /\ votes'[j] = votes[j]
    BY <1>2, <1>3, <2>1
  <2> QED BY <2>2, <2>3 DEF StillCounted
<1>5. Follows([term |-> m.term, voted_for |-> kNoNode], Hard(i))
    BY <1>1, <1>2 DEF Follows, Hard, TypeOK
<1> DEFINE owes == TRUE
           none == {}
           v == kNoNode
<1>6. v \in Node \cup {kNoNode} /\ owes \in BOOLEAN
    OBVIOUS
<1>7. \A r \in none : \A cast : Backed(r, cast)
    OBVIOUS
<1>8. ~owes => ~dirty[i] /\ m.term = term[i] /\ v = voted_for[i]
    OBVIOUS
<1>9. Drive(i, m.term, v, owes, {m}, none) /\ elected' = elected
    BY <1>2
<1>10. Follows([term |-> m.term, voted_for |-> v], Hard(i))
    BY <1>5
<1> HIDE DEF i, owes, none, v
<1> QED BY <1>1, <1>4, <1>6, <1>7, <1>8, <1>9, <1>10, DriveStep, Zenon

\* A follower whose storage fails moves its term and vote in memory only.
LEMMA VotesStopServing ==
    ASSUME TypeOK, TypeOK', VoteInv, NEW m \in msgs, stop_serving(m)
    PROVE  VoteInv' /\ KeepsVotes
<1> DEFINE i == m.to
<1>1. i \in Node /\ m.term \in Nat
    BY MessageFields DEF TypeOK
<1>2. /\ follow(m)
      /\ term' = [term EXCEPT ![i] = m.term]
      /\ voted_for' = [voted_for EXCEPT ![i] = vote_in(i, m.term)]
      /\ dirty' = [dirty EXCEPT ![i] = owes_in(i, m.term)]
      /\ Send({m}, {})
      /\ UNCHANGED <<slot, disk, ballots, elected>>
    BY Zenon DEF stop_serving, historyVars
<1>3. /\ Follows([term |-> m.term, voted_for |-> vote_in(i, m.term)], Hard(i))
      /\ ~owes_in(i, m.term) => ~dirty[i] /\ m.term = term[i] /\ vote_in(i, m.term) = voted_for[i]
      /\ vote_in(i, m.term) \in Node \cup {kNoNode} /\ owes_in(i, m.term) \in BOOLEAN
  <2>1. m.term >= term[i]
    BY <1>2 DEF follow
  <2> QED BY <1>1, <2>1, LaterHard
<1>4. /\ role' = [role EXCEPT ![i] = "follower"] /\ votes' = [votes EXCEPT ![i] = {}]
    BY <1>2 DEF follow
<1>5. \A j \in Node : HardStateOrdered(j)'
  <2> SUFFICES ASSUME NEW j \in Node PROVE HardStateOrdered(j)'
    OBVIOUS
  <2>0. HardStateOrdered(j)
    BY DEF VoteInv
  <2>1. CASE j # i
    <3>1. Hard(j)' = Hard(j) /\ dirty'[j] = dirty[j]
      BY <1>2, <2>1 DEF Hard, TypeOK
    <3> QED BY <1>2, <2>0, <3>1 DEF HardStateOrdered
  <2>2. CASE j = i
    <3>1. Hard(i)' = [term |-> m.term, voted_for |-> vote_in(i, m.term)]
      BY <1>1, <1>2 DEF Hard, TypeOK
    <3>2. dirty'[i] = owes_in(i, m.term)
      BY <1>1, <1>2 DEF TypeOK
    <3>3. Hard(i)' \in HardState /\ Hard(i) \in HardState /\ disk[i] \in HardState
      BY <1>1, <1>3, <3>1 DEF Hard, TypeOK, HardState
    <3>4. Follows(Hard(i)', Hard(i))
      BY <1>3, <3>1
    <3>5. Follows(Hard(i), disk[i]) /\ Follows(disk[i], slot[i])
      BY <2>0, <2>2 DEF HardStateOrdered
    <3>6. Follows(Hard(i)', disk[i])
      BY <3>3, <3>4, <3>5, FollowsTransitive, Zenon
    <3>7. ~owes_in(i, m.term) => slot[i] = Hard(i)' /\ disk[i] = Hard(i)'
      BY <1>3, <2>0, <2>2, <3>1 DEF HardStateOrdered, Hard
    <3> QED BY <1>2, <2>2, <3>2, <3>5, <3>6, <3>7 DEF HardStateOrdered
  <2> QED BY <2>1, <2>2
<1>6. BallotInv'
    BY <1>2, <1>5 DEF BallotInv, VoteInv
<1>7. msgs' \subseteq msgs
    BY <1>2 DEF Send
<1>8. \A j \in Node : role'[j] = "candidate" =>
          \A k \in votes'[j] \ {j} : Ballot(k, term'[j], j) \in ballots'
  <2>1. /\ role \in [Node -> Role] /\ votes \in [Node -> SUBSET Node] /\ term \in [Node -> Nat]
    BY DEF TypeOK
  <2>2. \A j \in Node : role[j] = "candidate" =>
          \A k \in votes[j] \ {j} : Ballot(k, term[j], j) \in ballots
    BY DEF VoteInv
  <2> HIDE DEF i
  <2> QED BY <1>1, <1>2, <1>4, <2>1, <2>2
<1>9. VoteInv'
    BY <1>2, <1>6, <1>7, <1>8, VoteFrame, Zenon
<1>10. KeepsVotes
  <2>1. \A j \in Node : slot[j] \in HardState
    BY DEF TypeOK
  <2> QED BY <1>2, <2>1, FollowsReflexive DEF KeepsVotes, VoteInv, HardStateOrdered
<1> QED BY <1>9, <1>10

\* A voter announces only a vote it has cast, to a candidate that cast its own.
LEMMA VotesHandleRequestVote ==
    ASSUME TypeOK, TypeOK', VoteInv, NEW m \in msgs, handle_request_vote(m)
    PROVE  VoteInv' /\ KeepsVotes
<1> DEFINE i == m.to
           vote == vote_in(i, m.term)
           granted == vote \in {kNoNode, m.from}
                      /\ log_is_up_to_date(log[i], m.log_index, m.log_term)
           v == IF granted THEN m.from ELSE vote
           owes == owes_in(i, m.term) \/ (granted /\ vote # m.from)
           out == {vote_response(i, m.from, m.term, granted)}
<1>0. m.type = "RequestVote" /\ m.term >= term[i]
    BY DEF handle_request_vote
<1>1. i \in Node /\ m.from \in Node /\ m.term \in Nat /\ {m} \in SUBSET msgs
    BY MessageFields DEF TypeOK
<1>2. /\ Follows([term |-> m.term, voted_for |-> vote], Hard(i))
      /\ ~owes_in(i, m.term) => ~dirty[i] /\ m.term = term[i] /\ vote = voted_for[i]
      /\ vote \in Node \cup {kNoNode} /\ owes_in(i, m.term) \in BOOLEAN
    BY <1>0, <1>1, LaterHard
<1>3. /\ Drive(i, m.term, v, owes, {m}, out)
      /\ elected' = elected
    BY Zenon DEF handle_request_vote, historyVars
<1>4. v \in Node \cup {kNoNode} /\ owes \in BOOLEAN
  <2> HIDE DEF vote
  <2> QED BY <1>1, <1>2
<1>5. Follows([term |-> m.term, voted_for |-> v], Hard(i))
  <2> HIDE DEF vote
  <2>1. CASE granted
    <3>1. vote \in {kNoNode, m.from} /\ v = m.from
      BY <2>1
    <3>2. term[i] \in Nat /\ voted_for[i] \in Node \cup {kNoNode}
      BY <1>1 DEF TypeOK
    <3> QED BY <1>1, <1>2, <3>1, <3>2 DEF Follows, Hard
  <2>2. CASE ~granted
    BY <1>2, <2>2
  <2> QED BY <2>1, <2>2
<1>6. ~owes => ~dirty[i] /\ m.term = term[i] /\ v = voted_for[i]
  <2> HIDE DEF vote
  <2> QED BY <1>2
<1>7. \A r \in out : \A cast :
          ballots \subseteq cast /\ (v = kNoNode \/ Ballot(i, m.term, v) \in cast) => Backed(r, cast)
  <2> SUFFICES ASSUME NEW r \in out, NEW cast, ballots \subseteq cast,
                      v = kNoNode \/ Ballot(i, m.term, v) \in cast
               PROVE  Backed(r, cast)
    OBVIOUS
  <2>1. r = [type |-> "RequestVoteResponse", from |-> i, to |-> m.from, term |-> m.term,
             granted |-> granted]
    BY Zenon DEF vote_response
  <2>2. Ballot(m.from, m.term, m.from) \in cast
    BY <1>0 DEF VoteInv, Backed
  <2>3. granted => v = m.from /\ v # kNoNode
    BY <1>1, NodeAssumption
  <2>4. granted => Ballot(i, m.term, m.from) \in cast
    BY <2>3, Zenon
  <2> HIDE DEF granted
  <2> QED BY <2>1, <2>2, <2>4 DEF Backed
<1>8. StillCounted
  <2>1. term' = [term EXCEPT ![i] = m.term]
    BY <1>3 DEF Drive
  <2>2. CASE m.term > term[i]
    <3>1. role' = [role EXCEPT ![i] = "follower"] /\ votes' = [votes EXCEPT ![i] = {}]
      BY <2>2, Zenon DEF handle_request_vote
    <3>2. /\ role \in [Node -> Role] /\ votes \in [Node -> SUBSET Node] /\ term \in [Node -> Nat]
      BY DEF TypeOK
    <3>3. role'[i] = "follower"
      BY <1>1, <3>1, <3>2
    <3>4. \A j \in Node : j # i => /\ role'[j] = role[j] /\ votes'[j] = votes[j]
                                   /\ term'[j] = term[j]
      BY <2>1, <3>1, <3>2
    <3> HIDE DEF i
    <3> QED BY <3>3, <3>4 DEF StillCounted
  <2>3. CASE ~(m.term > term[i])
    <3>1. UNCHANGED <<role, votes>>
      BY <2>3, Zenon DEF handle_request_vote
    <3>2. m.term = term[i]
      <4>1. term[i] \in Nat
        BY <1>1 DEF TypeOK
      <4> HIDE DEF i
      <4> QED BY <1>0, <1>1, <2>3, <4>1
    <3> QED BY <1>1, <2>1, <3>1, <3>2 DEF StillCounted, TypeOK
  <2> QED BY <2>2, <2>3
<1> HIDE DEF i, v, owes, out
<1> QED BY <1>1, <1>3, <1>4, <1>5, <1>6, <1>7, <1>8, DriveStep, Zenon

\* A counted vote rests on a ballot, and so does a leader on a quorum of them.
LEMMA VotesHandleRequestVoteResponse ==
    ASSUME TypeOK, TypeOK', VoteInv, NEW m \in msgs, handle_request_vote_response(m)
    PROVE  VoteInv' /\ KeepsVotes
<1> DEFINE i == m.to
           counted == votes[i] \cup {m.from}
<1>0. /\ m.type = "RequestVoteResponse" /\ m.term = term[i] /\ role[i] = "candidate"
      /\ m.granted /\ votes' = [votes EXCEPT ![i] = counted]
    BY DEF handle_request_vote_response
<1>1. i \in Node /\ m.from \in Node /\ m.term \in Nat /\ {m} \in SUBSET msgs
    BY MessageFields DEF TypeOK
<1>2. BallotInv
    BY DEF BallotInv, VoteInv
<1>3. \A j \in counted \cup {i} : Ballot(j, term[i], i) \in ballots
    BY <1>0, <1>1 DEF VoteInv, Backed
<1>4. \E out : /\ Drive(i, term[i], voted_for[i], dirty[i], {m}, out)
               /\ \A r \in out : r.type \in {"AppendEntries", "AppendEntriesResponse"}
  <2> DEFINE hb == broadcast_heartbeat(i, term[i], next'[i])
  <2>1. CASE Cardinality(counted) >= Quorum
    <3>1. Drive(i, term[i], voted_for[i], dirty[i], {m}, hb)
      BY <2>1, Zenon DEF handle_request_vote_response
    <3>2. \A r \in hb : r.type \in {"AppendEntries", "AppendEntriesResponse"}
      BY AppendTypes DEF broadcast_heartbeat
    <3> QED BY <3>1, <3>2, Zenon
  <2>2. CASE ~(Cardinality(counted) >= Quorum)
    <3> DEFINE none == {}
    <3>1. Drive(i, term[i], voted_for[i], dirty[i], {m}, none)
      BY <2>2, Zenon DEF handle_request_vote_response
    <3>2. \A r \in none : r.type \in {"AppendEntries", "AppendEntriesResponse"}
      OBVIOUS
    <3> HIDE DEF none
    <3> QED BY <3>1, <3>2, Zenon
  <2> QED BY <2>1, <2>2
<1>5. PICK out : /\ Drive(i, term[i], voted_for[i], dirty[i], {m}, out)
                 /\ \A r \in out : r.type \in {"AppendEntries", "AppendEntriesResponse"}
    BY <1>4
<1>6. \A r \in out : \A cast : Backed(r, cast)
    BY <1>5, AppendBacked, Zenon
<1>7. /\ BallotInv' /\ KeepsVotes /\ ballots \subseteq ballots'
      /\ msgs' \subseteq msgs \cup out
  <2> DEFINE owes == dirty[i]
             t == term[i]
             v == voted_for[i]
  <2>1. ~owes => ~dirty[i] /\ t = term[i] /\ v = voted_for[i]
    OBVIOUS
  <2>2. Drive(i, t, v, owes, {m}, out)
    BY <1>5
  <2>3. /\ Follows([term |-> t, voted_for |-> v], Hard(i))
        /\ t \in Nat /\ v \in Node \cup {kNoNode} /\ owes \in BOOLEAN
    BY <1>1, SameHard
  <2> HIDE DEF i, owes, t, v
  <2>4. /\ BallotInv' /\ KeepsVotes /\ ballots \subseteq ballots'
        /\ msgs' \subseteq msgs \cup out
        /\ msgs' \subseteq msgs \/ v = kNoNode \/ Ballot(i, t, v) \in ballots'
    BY <1>1, <1>2, <2>1, <2>2, <2>3, DriveVotes
  <2> QED BY <2>4
<1>8. \A r \in msgs' : r \in msgs \/ Backed(r, ballots')
    BY <1>6, <1>7, Zenon
<1>9. \A j \in Node : role'[j] = "candidate" =>
          \A k \in votes'[j] \ {j} : Ballot(k, term'[j], j) \in ballots'
  <2> SUFFICES ASSUME NEW j \in Node, role'[j] = "candidate", NEW k \in votes'[j] \ {j}
               PROVE  Ballot(k, term'[j], j) \in ballots'
    OBVIOUS
  <2>1. term' = term
    BY <1>5 DEF Drive, TypeOK
  <2>2. CASE j = i
    <3>1. k \in counted
      <4>1. votes \in [Node -> SUBSET Node]
        BY DEF TypeOK
      <4> HIDE DEF i, counted
      <4> QED BY <1>0, <1>1, <2>2, <4>1
    <3> QED BY <1>3, <1>7, <2>1, <2>2, <3>1
  <2>3. CASE j # i
    <3>1. votes'[j] = votes[j]
      BY <1>0, <1>1, <2>3 DEF TypeOK
    <3>2. role[j] = "candidate"
      <4>1. role' = role \/ role' = [role EXCEPT ![i] = "leader"]
        BY Zenon DEF handle_request_vote_response, become_leader
      <4> QED BY <1>1, <2>3, <4>1 DEF TypeOK
    <3> QED BY <1>7, <2>1, <3>1, <3>2 DEF VoteInv
  <2> QED BY <2>2, <2>3
<1>10. \A e \in elected' : e \in elected \/ Chosen(e, ballots')
  <2>1. CASE Cardinality(counted) >= Quorum
    <3>1. elected' = elected \cup {[term |-> term[i], node |-> i]}
      BY <2>1, Zenon DEF handle_request_vote_response, become_leader
    <3>2. counted \in SUBSET Node
      BY <1>1 DEF TypeOK
    <3>3. \A j \in counted : Ballot(j, term[i], i) \in ballots'
      BY <1>3, <1>7
    <3> HIDE DEF counted
    <3>4. Chosen([term |-> term[i], node |-> i], ballots')
      BY <2>1, <3>2, <3>3 DEF Chosen
    <3> QED BY <3>1, <3>4
  <2>2. CASE ~(Cardinality(counted) >= Quorum)
    BY <2>2, Zenon DEF handle_request_vote_response
  <2> QED BY <2>1, <2>2
<1> QED BY <1>7, <1>8, <1>9, <1>10, VoteFrame, Zenon

\* A candidate asks for votes once its own is cast; alone, it is its own quorum.
LEMMA VotesCampaign ==
    ASSUME TypeOK, TypeOK', VoteInv, NEW i \in Node, Campaign(i)
    PROVE  VoteInv' /\ KeepsVotes
<1> DEFINE t == term[i] + 1
           owes == TRUE
           none == {}
           asked == {request_vote(i, p, term[i] + 1, log[i]) : p \in Peers(i)}
<1>1. term[i] \in Nat /\ t \in Nat /\ i \in Node \cup {kNoNode} /\ owes \in BOOLEAN
      /\ none \in SUBSET msgs /\ BallotInv
  <2>1. term[i] \in Nat
    BY DEF TypeOK
  <2>2. BallotInv
    BY DEF BallotInv, VoteInv
  <2> QED BY <2>1, <2>2
<1>2. \E out : Drive(i, t, i, owes, none, out) /\ out \subseteq asked
  <2>1. CASE 1 >= Quorum
    <3>1. Drive(i, t, i, owes, none, none)
      BY <2>1, Zenon DEF Campaign
    <3>2. none \subseteq asked
      OBVIOUS
    <3> HIDE DEF none
    <3> QED BY <3>1, <3>2, Zenon
  <2>2. CASE ~(1 >= Quorum)
    <3>1. Drive(i, t, i, owes, none, asked)
      BY <2>2, Zenon DEF Campaign
    <3> QED BY <3>1, Zenon
  <2> QED BY <2>1, <2>2
<1>3. PICK out : Drive(i, t, i, owes, none, out) /\ out \subseteq asked
    BY <1>2
<1>4. Follows([term |-> t, voted_for |-> i], Hard(i))
    BY <1>1 DEF Follows, Hard
<1>5. ~owes => ~dirty[i] /\ t = term[i] /\ i = voted_for[i]
    OBVIOUS
<1>6. /\ BallotInv' /\ KeepsVotes /\ ballots \subseteq ballots'
      /\ msgs' \subseteq msgs \cup out
      /\ msgs' \subseteq msgs \/ i = kNoNode \/ Ballot(i, t, i) \in ballots'
  <2> HIDE DEF t, owes, none
  <2> QED BY <1>1, <1>3, <1>4, <1>5, DriveVotes
<1>7. \A r \in msgs' : r \in msgs \/ Backed(r, ballots')
  <2> SUFFICES ASSUME NEW r \in msgs', r \notin msgs PROVE Backed(r, ballots')
    OBVIOUS
  <2>1. r \in asked /\ Ballot(i, t, i) \in ballots'
    BY <1>3, <1>6, NodeAssumption
  <2>2. PICK p \in Peers(i) : r = request_vote(i, p, t, log[i])
    BY <2>1
  <2>3. r.type = "RequestVote" /\ r.from = i /\ r.term = t
    BY <2>2 DEF request_vote
  <2> HIDE DEF t
  <2> QED BY <2>1, <2>3 DEF Backed
<1>8. \A j \in Node : role'[j] = "candidate" =>
          \A k \in votes'[j] \ {j} : Ballot(k, term'[j], j) \in ballots'
  <2> SUFFICES ASSUME NEW j \in Node, role'[j] = "candidate", NEW k \in votes'[j] \ {j}
               PROVE  Ballot(k, term'[j], j) \in ballots'
    OBVIOUS
  <2>1. votes' = [votes EXCEPT ![i] = {i}]
    BY DEF Campaign
  <2>d. DOMAIN votes = Node /\ DOMAIN term = Node
    BY DEF TypeOK
  <2>2. j # i
    BY <2>1, <2>d
  <2>3. term' = [term EXCEPT ![i] = t]
    BY <1>3 DEF Drive
  <2> HIDE DEF t
  <2>4. term'[j] = term[j] /\ votes'[j] = votes[j]
    BY <2>1, <2>2, <2>3, <2>d
  <2>5. role' = [role EXCEPT ![i] = "leader"] \/ role' = [role EXCEPT ![i] = "candidate"]
    BY Zenon DEF Campaign, become_leader
  <2>6. role[j] = "candidate"
    BY <2>2, <2>5 DEF TypeOK
  <2> QED BY <1>6, <2>4, <2>6 DEF VoteInv
<1>9. \A e \in elected' : e \in elected \/ Chosen(e, ballots')
  <2>1. CASE 1 >= Quorum
    <3>1. Quorum \in Int
      BY NodeAssumption, FS_CardinalityType DEF Quorum
    <3>2. Quorum <= 1
      BY <2>1, <3>1
    <3> QED BY <3>2 DEF Chosen
  <2>2. CASE ~(1 >= Quorum)
    BY <2>2, Zenon DEF Campaign
  <2> QED BY <2>1, <2>2
<1> QED BY <1>6, <1>7, <1>8, <1>9, VoteFrame, Zenon

\* A restarted node reports the vote it finds, and finds what it reported.
LEMMA VotesStart ==
    ASSUME TypeOK, TypeOK', VoteInv, NEW i \in Node, NEW s, start(i, s), msgs' \subseteq msgs
    PROVE  VoteInv' /\ KeepsVotes
<1> DEFINE state == disk[i]
<1>1. /\ slot' = [slot EXCEPT ![i] = state]
      /\ record_ballot(i, state.term, state.voted_for)
      /\ UNCHANGED <<disk, elected>>
    BY DEF start, historyVars
<1>2. BallotInv /\ state \in HardState /\ \A j \in Node : slot[j] \in HardState
    BY DEF BallotInv, VoteInv, TypeOK
<1>3. Follows(state, slot[i])
    BY DEF VoteInv, HardStateOrdered
<1>4. /\ term' = [term EXCEPT ![i] = state.term]
      /\ voted_for' = [voted_for EXCEPT ![i] = state.voted_for]
      /\ dirty' = [dirty EXCEPT ![i] = FALSE]
      /\ role' = [role EXCEPT ![i] = "follower"]
      /\ votes' = [votes EXCEPT ![i] = {}]
    BY DEF start
<1>5. disk'[i] = state
    BY <1>1
<1> HIDE DEF state
<1>6. /\ ballots \subseteq ballots'
      /\ state.voted_for # kNoNode => Ballot(i, state.term, state.voted_for) \in ballots'
      /\ \A j \in Node : slot'[j].voted_for # kNoNode =>
            Ballot(j, slot'[j].term, slot'[j].voted_for) \in ballots'
      /\ \A b \in ballots' :
            Follows(slot'[b.voter], [term |-> b.term, voted_for |-> b.candidate])
      /\ \A a, b \in ballots' :
            a.voter = b.voter /\ a.term = b.term => a.candidate = b.candidate
    BY <1>1, <1>2, <1>3, CastBallot
<1>7. /\ slot'[i] = state /\ Hard(i)' = state
      /\ \A j \in Node : j # i => /\ slot'[j] = slot[j] /\ Hard(j)' = Hard(j)
                                  /\ dirty'[j] = dirty[j]
  <2>1. slot'[i] = state /\ term'[i] = state.term /\ voted_for'[i] = state.voted_for
    BY <1>1, <1>4 DEF TypeOK
  <2>2. Hard(i)' = state
    BY <1>2, <2>1 DEF Hard, HardState
  <2>d. DOMAIN slot = Node /\ DOMAIN term = Node /\ DOMAIN voted_for = Node /\ DOMAIN dirty = Node
    BY DEF TypeOK
  <2>3. \A j \in Node : j # i => /\ slot'[j] = slot[j] /\ Hard(j)' = Hard(j)
                                 /\ dirty'[j] = dirty[j]
    <3>1. \A j \in Node : j # i => /\ slot'[j] = slot[j] /\ dirty'[j] = dirty[j]
                                   /\ term'[j] = term[j] /\ voted_for'[j] = voted_for[j]
      BY <1>1, <1>4, <2>d
    <3> QED BY <3>1 DEF Hard
  <2> QED BY <2>1, <2>2, <2>3
<1>8. \A j \in Node : HardStateOrdered(j)'
    BY <1>1, <1>2, <1>5, <1>7, FollowsReflexive DEF VoteInv, HardStateOrdered
<1>9. BallotInv'
    BY <1>6, <1>8 DEF BallotInv
<1>10. KeepsVotes
    BY <1>1, <1>2, <1>3, <1>7, FollowsReflexive DEF KeepsVotes, VoteInv, HardStateOrdered
<1>11. \A j \in Node : role'[j] = "candidate" =>
          \A k \in votes'[j] \ {j} : Ballot(k, term'[j], j) \in ballots'
  <2>1. /\ role \in [Node -> Role] /\ votes \in [Node -> SUBSET Node] /\ term \in [Node -> Nat]
    BY DEF TypeOK
  <2>2. \A j \in Node : role[j] = "candidate" =>
          \A k \in votes[j] \ {j} : Ballot(k, term[j], j) \in ballots
    BY DEF VoteInv
  <2> QED BY <1>4, <1>6, <2>1, <2>2
<1>12. \A e \in elected' : e \in elected \/ Chosen(e, ballots')
    BY <1>1
<1>13. \A m \in msgs' : m \in msgs \/ Backed(m, ballots')
    OBVIOUS
<1> QED BY <1>6, <1>9, <1>10, <1>11, <1>12, <1>13, VoteFrame, Zenon

\* A crash between callbacks or inside drive().
LEMMA VotesRestart ==
    ASSUME TypeOK, TypeOK', VoteInv,
           (\E i \in Node : Restart(i)) \/ (\E m \in msgs : CrashInDrive(m))
    PROVE  VoteInv' /\ KeepsVotes
<1>1. ASSUME NEW i \in Node, Restart(i) PROVE VoteInv' /\ KeepsVotes
  <2>1. \E s : start(i, s)
    BY <1>1 DEF Restart
  <2>2. msgs' \subseteq msgs
    BY <1>1 DEF Restart
  <2> QED BY <2>1, <2>2, VotesStart
<1>2. ASSUME NEW m \in msgs, CrashInDrive(m) PROVE VoteInv' /\ KeepsVotes
  <2>1. \E s : start(m.to, s)
    BY <1>2, Zenon DEF CrashInDrive
  <2>2. msgs' \subseteq msgs
    BY <1>2 DEF CrashInDrive, Send
  <2>3. m.to \in Node
    BY MessageFields DEF TypeOK
  <2> QED BY <2>1, <2>2, <2>3, VotesStart
<1> QED BY <1>1, <1>2

-----------------------------------------------------------------------------
(* The theorems.                                                           *)

\* A cluster that has just been created has cast no vote.
LEMMA VotesInit == Init => VoteInv
<1> SUFFICES ASSUME Init PROVE VoteInv
    OBVIOUS
<1>1. \A i \in Node : HardStateOrdered(i)
    BY DEF Init, HardStateOrdered, Follows, Hard
<1>2. ballots = {} /\ msgs = {} /\ elected = {}
    BY DEF Init
<1>3. \A j \in Node : role[j] = "follower"
    BY DEF Init
<1>4. \A j \in Node : slot[j].voted_for = kNoNode
    BY DEF Init
<1> QED BY <1>1, <1>2, <1>3, <1>4 DEF VoteInv

\* One step of the cluster: the votes stay in order, and raft.state too.
LEMMA VotesNext ==
    ASSUME TypeOK, TypeOK', VoteInv, [Next]_vars
    PROVE  VoteInv' /\ KeepsVotes
<1>1. CASE Next
    BY <1>1, VotesCampaign, VotesLeader, VotesProposeUnsynced, VotesStepStale,
       VotesHandleRequestVote, VotesStepDown, VotesHandleRequestVoteResponse,
       VotesHandleAppendEntries, VotesStopServing, VotesHandleAppendEntriesResponse,
       VotesRestart, Zenon DEF Next
<1>2. CASE UNCHANGED vars
  <2>1. UNCHANGED <<hardVars, role, votes, msgs, elected>>
    BY <1>2 DEF vars, historyVars
  <2>2. \A j \in Node : slot[j] \in HardState
    BY DEF TypeOK
  <2>3. VoteInv'
    BY <2>1, Zenon DEF VoteInv, hardVars, HardStateOrdered, Hard, Backed, Chosen
  <2>4. KeepsVotes
    BY <2>1, <2>2, FollowsReflexive DEF KeepsVotes, VoteInv, HardStateOrdered, hardVars
  <2> QED BY <2>3, <2>4
<1> QED BY <1>1, <1>2

\* Two quorums share a voter, and a voter casts one ballot in a term.
LEMMA OneLeaderPerTerm ==
    ASSUME TypeOK, VoteInv
    PROVE  ElectionSafety
<1> SUFFICES ASSUME NEW a \in elected, NEW b \in elected, a.term = b.term
             PROVE  a.node = b.node
    BY DEF ElectionSafety
<1>1. Chosen(a, ballots) /\ Chosen(b, ballots) /\ a.node \in Node /\ b.node \in Node
    BY DEF VoteInv, TypeOK
<1>2. Cardinality(Node) \in Nat /\ IsFiniteSet(Node)
    BY NodeAssumption, FS_CardinalityType
<1>3. CASE Quorum <= 1
  <2>1. Cardinality(Node) <= 1
    BY <1>2, <1>3 DEF Quorum
  <2>2. {a.node} \in SUBSET Node /\ Cardinality({a.node}) = 1
    BY <1>1, FS_Singleton
  <2>3. Node = {a.node}
    BY <1>2, <2>1, <2>2, FS_Subset
  <2> QED BY <1>1, <2>3
<1>4. CASE ~(Quorum <= 1)
  <2>1. PICK Q \in SUBSET Node :
            Cardinality(Q) >= Quorum /\ \A j \in Q : Ballot(j, a.term, a.node) \in ballots
    BY <1>1, <1>4 DEF Chosen
  <2>2. PICK R \in SUBSET Node :
            Cardinality(R) >= Quorum /\ \A j \in R : Ballot(j, b.term, b.node) \in ballots
    BY <1>1, <1>4 DEF Chosen
  <2>3. Cardinality(Q) \in Nat /\ Cardinality(R) \in Nat
    BY <1>2, FS_Subset, FS_CardinalityType
  <2>4. Cardinality(Q) + Cardinality(R) > Cardinality(Node)
    BY <1>2, <2>1, <2>2, <2>3 DEF Quorum
  <2>5. PICK j : j \in Q /\ j \in R
    BY <1>2, <2>4, FS_MajoritiesIntersect
  <2>6. Ballot(j, a.term, a.node) \in ballots /\ Ballot(j, a.term, b.node) \in ballots
    BY <2>1, <2>2, <2>5
  <2>7. Ballot(j, a.term, a.node).candidate = Ballot(j, a.term, b.node).candidate
    <3>1. /\ Ballot(j, a.term, a.node).voter = Ballot(j, a.term, b.node).voter
          /\ Ballot(j, a.term, a.node).term = Ballot(j, a.term, b.node).term
      BY DEF Ballot
    <3> QED BY <2>6, <3>1, Zenon DEF VoteInv
  <2> QED BY <2>7 DEF Ballot
<1> QED BY <1>3, <1>4

\* A ballot is held by the disk of its voter.
LEMMA BallotHeld ==
    ASSUME TypeOK, VoteInv, NEW j \in Node, NEW t \in Nat, NEW c \in Node,
           Ballot(j, t, c) \in ballots
    PROVE  Holds(disk[j], t, c)
<1> DEFINE state == [term |-> t, voted_for |-> c]
<1>1. slot[j] \in HardState /\ disk[j] \in HardState /\ state \in HardState
    BY DEF TypeOK, HardState
<1>2. Follows(slot[j], state)
  <2>1. Ballot(j, t, c).voter = j /\ Ballot(j, t, c).term = t /\ Ballot(j, t, c).candidate = c
    BY DEF Ballot
  <2> QED BY <2>1 DEF VoteInv
<1>3. Follows(disk[j], slot[j])
    BY DEF VoteInv, HardStateOrdered
<1>4. Follows(disk[j], state)
  <2> HIDE DEF state
  <2> QED BY <1>1, <1>2, <1>3, FollowsTransitive, Zenon
<1> QED BY <1>4, NodeAssumption DEF Follows, Holds

\* Announced and counted votes are ballots, so they are held.
LEMMA AnnouncedVotesHeld ==
    ASSUME TypeOK, VoteInv
    PROVE  AnnouncedVoteIsDurable
<1>1. ASSUME NEW m \in msgs, m.type = "RequestVoteResponse", m.granted
      PROVE  Holds(disk[m.from], m.term, m.to)
  <2>1. m.from \in Node /\ m.to \in Node /\ m.term \in Nat
    BY MessageFields DEF TypeOK
  <2>2. Ballot(m.from, m.term, m.to) \in ballots
    BY <1>1 DEF VoteInv, Backed
  <2> QED BY <2>1, <2>2, BallotHeld
<1>2. ASSUME NEW i \in Node, role[i] = "candidate", NEW j \in votes[i] \ {i}
      PROVE  Holds(disk[j], term[i], i)
  <2>1. j \in Node /\ term[i] \in Nat
    BY DEF TypeOK
  <2>2. Ballot(j, term[i], i) \in ballots
    BY <1>2 DEF VoteInv
  <2> QED BY <2>1, <2>2, BallotHeld
<1> QED BY <1>1, <1>2 DEF AnnouncedVoteIsDurable

\* The inductive invariant: in every reachable state, whatever crashes, tears,
\* loses or redelivers, the votes announced and counted rest on one ballot per
\* voter and term, and no disk is behind a ballot.
THEOREM VotesInOrder == Spec => []VoteInv
<1>1. Init => VoteInv
    BY VotesInit
<1>2. TypeOK /\ TypeOK' /\ VoteInv /\ [Next]_vars => VoteInv'
    BY VotesNext
<1> QED BY <1>1, <1>2, TypeCorrect, PTL DEF Spec

\* I6, for every cluster: at most one node counts a majority in a term
\* (handle_request_vote, handle_request_vote_response, persist, start).
THEOREM OneLeader == Spec => []ElectionSafety
<1>1. TypeOK /\ VoteInv => ElectionSafety
    BY OneLeaderPerTerm
<1> QED BY <1>1, TypeCorrect, VotesInOrder, PTL

\* Persist, then send, for every cluster: a granted vote on the wire, or counted
\* by its candidate, would be read back from raft.state after a power loss.
THEOREM VotesSurvive == Spec => []AnnouncedVoteIsDurable
<1>1. TypeOK /\ VoteInv => AnnouncedVoteIsDurable
    BY AnnouncedVotesHeld
<1> QED BY <1>1, TypeCorrect, VotesInOrder, PTL

\* No write, failed write, retry or restart takes raft.state behind a hard state
\* that persist() reported written.
THEOREM VotesFinal == Spec => DurableVoteIsFinal
<1>1. TypeOK /\ TypeOK' /\ VoteInv /\ [Next]_vars =>
          [\A i \in Node : Follows(slot'[i], slot[i]) /\ Follows(disk'[i], slot[i])]_vars
    BY VotesNext DEF KeepsVotes
<1> QED BY <1>1, TypeCorrect, VotesInOrder, PTL DEF Spec, DurableVoteIsFinal

=============================================================================
