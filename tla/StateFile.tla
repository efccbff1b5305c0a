----------------------------- MODULE StateFile -----------------------------
(***************************************************************************)
(* raft.state: two slots written in turn (src/src/raft/state_file.cpp),    *)
(* through Broker::persist and Broker::load_hard_state, on a disk that     *)
(* keeps unflushed writes in issue order and may tear the one the power    *)
(* loss falls on (SimDisk::pwrite, fsync and crash).                       *)
(*                                                                         *)
(* A slot is what decode_state_slot makes of its 32 bytes.  Its CRC is     *)
(* taken to tell a torn slot from a whole one.                             *)
(*                                                                         *)
(* Faults says what may go wrong:                                          *)
(*   "fail"   pwrite or fsync reports an error                             *)
(*   "power"  power is lost: unflushed writes may go                       *)
(*   "kill"   the process dies alone with writes unflushed: the page cache *)
(*            survives it                                                  *)
(***************************************************************************)
EXTENDS Integers, Sequences

CONSTANTS State,      \* the hard states a node may write
          Fresh,      \* HardState{}: term 0, no vote
          MaxSequence,\* bound on state_sequence_
          MaxPending, \* bound on unflushed writes
          Faults

ASSUME StateAssumption == Fresh \notin State
ASSUME BoundAssumption == {MaxSequence, MaxPending} \subseteq Nat
ASSUME FaultAssumption == Faults \subseteq {"fail", "power", "kill"}

VARIABLES
    up,              \* the broker runs
    state_sequence,  \* Broker::state_sequence_, the next write's
    durable,         \* the slots on the platter
    pending,         \* unflushed writes, in issue order
    writing,         \* what persist has written and not yet flushed, or Fresh
    reported         \* history: on_hard_state_persisted, on_raft_recovered

vars == <<up, state_sequence, durable, pending, writing, reported>>

Slots == {0, 1}

\* The three things a slot's bytes can be.
Slot == [kind : {"empty", "torn", "valid"}, sequence : Nat, hard : State \cup {Fresh}]
Empty == [kind |-> "empty", sequence |-> 0, hard |-> Fresh]
Torn == [kind |-> "torn", sequence |-> 0, hard |-> Fresh]
encode_state_slot(s, sequence) == [kind |-> "valid", sequence |-> sequence, hard |-> s]

state_slot_offset(sequence) == sequence % 2

-----------------------------------------------------------------------------
(* The disk.                                                               *)

\* The writes of w to slot o, by position.
WritesTo(w, o) == {k \in 1..Len(w) : w[k].offset = o}

\* The slots after the writes w, in order, on top of slots.
apply_bytes(slots, w) ==
    [o \in Slots |-> IF WritesTo(w, o) = {} THEN slots[o]
                     ELSE w[CHOOSE k \in WritesTo(w, o) : \A h \in WritesTo(w, o) : h <= k].slot]

visible == apply_bytes(durable, pending)

\* SimDisk::crash: a prefix of the unflushed writes survives whole, and the first
\* that does not may survive in part.  A part so long, or so short, that the bytes
\* are those of the whole write, or the old ones, is one of the two whole outcomes.
survivors(slots, w) ==
    {apply_bytes(slots, SubSeq(w, 1, k)) : k \in 0..Len(w)}
    \cup {[apply_bytes(slots, SubSeq(w, 1, k - 1)) EXCEPT ![w[k].offset] = Torn] :
             k \in 1..Len(w)}

-----------------------------------------------------------------------------
(* Loading.                                                                *)

Valid(slots) == {o \in Slots : slots[o].kind = "valid"}

\* Mutant: the first valid slot is taken.
scan_state_file_first(slots) ==
    IF slots[0].kind = "valid" THEN {slots[0]} ELSE {slots[o] : o \in Valid(slots)}

\* The valid slot with the higher sequence, as a set of at most one.
scan_state_file(slots) ==
    {slots[o] : o \in {p \in Valid(slots) :
                          \A q \in Valid(slots) : slots[q].sequence <= slots[p].sequence}}

\* Nothing was ever written: disk_.size() is 0.
NoFile(slots) == \A o \in Slots : slots[o].kind = "empty"

\* What load_hard_state finds: nothing when neither slot can be read.
Found(slots) ==
    IF NoFile(slots) THEN {Fresh} ELSE {s.hard : s \in scan_state_file(slots)}

\* Mutant: the sequence that was read is used again.
next_sequence_reused(slots) ==
    IF NoFile(slots) THEN 0 ELSE (CHOOSE s \in scan_state_file(slots) : TRUE).sequence

next_sequence(slots) ==
    IF NoFile(slots) THEN 0 ELSE (CHOOSE s \in scan_state_file(slots) : TRUE).sequence + 1

-----------------------------------------------------------------------------
(* The broker.                                                             *)

\* The pwrite half of Broker::persist, on the slot that state_sequence_ selects.
Issue(slot) ==
    /\ up
    /\ writing = Fresh
    /\ state_sequence < MaxSequence
    /\ Len(pending) < MaxPending
    /\ pending' = Append(pending, [offset |-> state_slot_offset(state_sequence), slot |-> slot])
    /\ UNCHANGED <<up, state_sequence, durable, reported>>

pwrite(s) ==
    /\ Issue(encode_state_slot(s, state_sequence))
    /\ writing' = s

\* pwrite fails, or writes too few bytes: persist gives up, and the next attempt
\* uses the same sequence.
pwrite_fails ==
    /\ "fail" \in Faults
    /\ Issue(Torn)
    /\ UNCHANGED writing

\* Mutant: the fsync is left out (config_.fsync_hard_state is false).
fsync_skipped ==
    /\ up
    /\ writing # Fresh
    /\ state_sequence' = state_sequence + 1
    /\ reported' = writing
    /\ writing' = Fresh
    /\ UNCHANGED <<up, durable, pending>>

\* The rest of Broker::persist, when the fsync succeeds.
fsync ==
    /\ up
    /\ writing # Fresh
    /\ durable' = visible
    /\ pending' = <<>>
    /\ state_sequence' = state_sequence + 1
    /\ reported' = writing
    /\ writing' = Fresh
    /\ UNCHANGED up

\* And when it fails: the write stays unflushed and the sequence is not used up.
fsync_fails ==
    /\ "fail" \in Faults
    /\ up
    /\ writing # Fresh
    /\ writing' = Fresh
    /\ UNCHANGED <<up, state_sequence, durable, pending, reported>>

\* Power is lost, between two calls or between the pwrite and the fsync of one.
crash ==
    /\ "power" \in Faults
    /\ up
    /\ up' = FALSE
    /\ durable' \in survivors(durable, pending)
    /\ pending' = <<>>
    /\ writing' = Fresh
    /\ UNCHANGED <<state_sequence, reported>>

\* The process dies and the page cache outlives it: at the same points when the
\* configuration says so, otherwise only with nothing unflushed.
kill ==
    /\ up
    /\ "kill" \in Faults \/ pending = <<>>
    /\ up' = FALSE
    /\ writing' = Fresh
    /\ UNCHANGED <<state_sequence, durable, pending, reported>>

\* Broker::load_hard_state from Broker::start.  When it fails the broker stays down.
load_hard_state ==
    /\ ~up
    /\ \E hard \in Found(visible) :
          /\ up' = TRUE
          /\ reported' = hard
          /\ state_sequence' = next_sequence(visible)
    /\ UNCHANGED <<durable, pending, writing>>

Init ==
    /\ up = TRUE
    /\ state_sequence = 0
    /\ durable = [o \in Slots |-> Empty]
    /\ pending = <<>>
    /\ writing = Fresh
    /\ reported = Fresh

Next ==
    \/ \E s \in State : pwrite(s)
    \/ pwrite_fails
    \/ fsync
    \/ fsync_fails
    \/ crash
    \/ kill
    \/ load_hard_state

Spec == Init /\ [][Next]_vars

-----------------------------------------------------------------------------
(* Properties.                                                             *)

\* Every variable has the type its declaration gives it.
TypeOK ==
    /\ up \in BOOLEAN
    /\ state_sequence \in Nat
    /\ durable \in [Slots -> Slot]
    /\ pending \in Seq([offset : Slots, slot : Slot])
    /\ {writing, reported} \subseteq State \cup {Fresh}

\* What a power loss now, or a restart, could leave to be found.
Possible ==
    IF up THEN UNION {Found(slots) : slots \in survivors(durable, pending)}
    ELSE Found(visible)

Register == INSTANCE HardStateRegister WITH
    possible <- Possible,
    written <- IF up THEN state_sequence > 0 ELSE Valid(durable) # {}

\* raft.state keeps the promise of HardStateRegister: what was reported written is
\* found again, or a later attempt, whatever is torn, lost or retried.
KeepsHardState == Register!Spec

\* The slot that is not being written holds what was last reported: a torn write
\* has something to fall back on.
OtherSlotIntact ==
    up /\ state_sequence > 0 =>
        durable[state_slot_offset(state_sequence + 1)]
            = encode_state_slot(reported, state_sequence - 1)

\* Why that is so, power losses and failed writes included: every unflushed write
\* is an attempt at the slot that state_sequence_ selects, the other slot holds
\* what was last reported under the sequence before, each slot holds sequences of
\* its own parity only, and none of them is state_sequence_ yet.
Attempt(w) ==
    /\ w.offset = state_slot_offset(state_sequence)
    /\ w.slot = Torn \/ \E s \in State : w.slot = encode_state_slot(s, state_sequence)

FileInv ==
    /\ \A o \in Valid(durable) : /\ durable[o].hard \in State
                                 /\ state_slot_offset(durable[o].sequence) = o
    /\ \A k \in 1..Len(pending) : Attempt(pending[k])
    /\ writing # Fresh =>
          /\ up
          /\ pending # <<>>
          /\ pending[Len(pending)].slot = encode_state_slot(writing, state_sequence)
    /\ up /\ state_sequence = 0 => reported = Fresh /\ NoFile(durable)
    /\ OtherSlotIntact
    /\ up => \A o \in Valid(durable) : durable[o].sequence < state_sequence
    /\ ~up => pending = <<>>

\* A broker that starts without a file "has provably never voted" (load_hard_state):
\* nothing it was ever told of its own hard state is lost with the file.
NoFileNeverVoted == ~up /\ NoFile(visible) => reported = Fresh

=============================================================================
