------------------------- MODULE StateFileProofs ---------------------------
(* That raft.state implements HardStateRegister: on a disk that loses      *)
(* power and fails, for any hard states and any bounds.                    *)
EXTENDS StateFile, TLAPS

Write == [offset : Slots, slot : Slot]

\* The hard states that the unflushed writes w may leave behind.
Attempted(w) == {w[k].slot.hard : k \in {h \in 1..Len(w) : w[h].slot.kind = "valid"}}

-----------------------------------------------------------------------------
(* The disk, when every unflushed write is to the same slot.               *)

\* The last of the writes decides.
LEMMA ApplySame ==
    ASSUME NEW slots \in [Slots -> Slot], NEW w \in Seq(Write), NEW o \in Slots,
           \A k \in 1..Len(w) : w[k].offset = o
    PROVE  apply_bytes(slots, w) = IF Len(w) = 0 THEN slots
                                   ELSE [slots EXCEPT ![o] = w[Len(w)].slot]
<1>1. WritesTo(w, o) = 1..Len(w)
    BY DEF WritesTo
<1>2. \A p \in Slots : p # o => WritesTo(w, p) = {}
    BY DEF WritesTo
<1>3. Len(w) \in Nat
    OBVIOUS
<1>4. CASE Len(w) = 0
  <2>1. \A p \in Slots : WritesTo(w, p) = {}
    BY <1>1, <1>2, <1>4
  <2> QED BY <1>4, <2>1 DEF apply_bytes
<1>5. CASE Len(w) # 0
  <2> DEFINE last == CHOOSE k \in WritesTo(w, o) : \A h \in WritesTo(w, o) : h <= k
  <2>1. Len(w) \in WritesTo(w, o) /\ \A h \in WritesTo(w, o) : h <= Len(w)
    BY <1>1, <1>3, <1>5
  <2>2. last \in WritesTo(w, o) /\ \A h \in WritesTo(w, o) : h <= last
    BY <2>1
  <2>3. last = Len(w)
    BY <1>1, <1>3, <2>1, <2>2
  <2>4. WritesTo(w, o) # {}
    BY <2>1
  <2>5. apply_bytes(slots, w)[o] = w[last].slot
    BY <2>4 DEF apply_bytes
  <2>6. \A p \in Slots : p # o => apply_bytes(slots, w)[p] = slots[p]
    BY <1>2 DEF apply_bytes
  <2>7. apply_bytes(slots, w) = [p \in Slots |-> apply_bytes(slots, w)[p]]
    BY DEF apply_bytes
  <2> HIDE DEF last
  <2> QED BY <1>5, <2>3, <2>5, <2>6, <2>7
<1> QED BY <1>4, <1>5

\* A power loss leaves the slot as it was, torn, or as one of the writes left it.
LEMMA SurvivorsSame ==
    ASSUME NEW slots \in [Slots -> Slot], NEW w \in Seq(Write), NEW o \in Slots,
           \A k \in 1..Len(w) : w[k].offset = o
    PROVE  survivors(slots, w)
               = {slots} \cup {[slots EXCEPT ![o] = w[k].slot] : k \in 1..Len(w)}
                         \cup {[slots EXCEPT ![o] = Torn] : k \in 1..Len(w)}
<1>1. Len(w) \in Nat
    OBVIOUS
<1>2. ASSUME NEW k \in 0..Len(w)
      PROVE  apply_bytes(slots, SubSeq(w, 1, k))
                 = IF k = 0 THEN slots ELSE [slots EXCEPT ![o] = w[k].slot]
  <2> DEFINE u == SubSeq(w, 1, k)
  <2>1. u \in Seq(Write) /\ Len(u) = k /\ \A h \in 1..k : u[h] = w[h]
    BY <1>1
  <2>2. \A h \in 1..Len(u) : u[h].offset = o
    BY <1>1, <2>1
  <2> HIDE DEF u
  <2>3. apply_bytes(slots, u) = IF Len(u) = 0 THEN slots
                                ELSE [slots EXCEPT ![o] = u[Len(u)].slot]
    BY <2>1, <2>2, ApplySame
  <2>4. k # 0 => u[Len(u)] = w[k]
    BY <1>1, <2>1
  <2> QED BY <2>1, <2>3, <2>4 DEF u
<1>3. {apply_bytes(slots, SubSeq(w, 1, k)) : k \in 0..Len(w)}
          = {slots} \cup {[slots EXCEPT ![o] = w[k].slot] : k \in 1..Len(w)}
  <2>1. 0 \in 0..Len(w) /\ \A k : k \in 1..Len(w) <=> k \in 0..Len(w) /\ k # 0
    BY <1>1
  <2>2. apply_bytes(slots, SubSeq(w, 1, 0)) = slots
    BY <1>2, <2>1
  <2>3. \A k \in 1..Len(w) :
            /\ k \in 0..Len(w)
            /\ apply_bytes(slots, SubSeq(w, 1, k)) = [slots EXCEPT ![o] = w[k].slot]
    BY <1>2, <2>1
  <2> DEFINE f(k) == apply_bytes(slots, SubSeq(w, 1, k))
             g(k) == [slots EXCEPT ![o] = w[k].slot]
  <2>4. f(0) = slots /\ \A k \in 1..Len(w) : k \in 0..Len(w) /\ f(k) = g(k)
    BY <2>2, <2>3
  <2> HIDE DEF f, g
  <2>5. {f(k) : k \in 0..Len(w)} = {slots} \cup {g(k) : k \in 1..Len(w)}
    <3>1. ASSUME NEW k \in 0..Len(w)
          PROVE  f(k) \in {slots} \cup {g(h) : h \in 1..Len(w)}
      BY <2>1, <2>4
    <3>2. slots \in {f(k) : k \in 0..Len(w)}
      BY <2>1, <2>4
    <3>3. ASSUME NEW k \in 1..Len(w)
          PROVE  g(k) \in {f(h) : h \in 0..Len(w)}
      BY <2>4
    <3> QED BY <3>1, <3>2, <3>3
  <2> QED BY <2>5 DEF f, g
<1>4. ASSUME NEW k \in 1..Len(w)
      PROVE  [apply_bytes(slots, SubSeq(w, 1, k - 1)) EXCEPT ![w[k].offset] = Torn]
                 = [slots EXCEPT ![o] = Torn]
  <2>1. k - 1 \in 0..Len(w) /\ w[k].offset = o
    BY <1>1
  <2>2. \/ apply_bytes(slots, SubSeq(w, 1, k - 1)) = slots
        \/ apply_bytes(slots, SubSeq(w, 1, k - 1)) = [slots EXCEPT ![o] = w[k - 1].slot]
    BY <1>2, <2>1
  <2> QED BY <2>1, <2>2
<1> QED BY <1>3, <1>4 DEF survivors

-----------------------------------------------------------------------------
(* Loading.                                                                *)

\* What the file is to state_sequence_ n and reported state r while no write of
\* sequence n has reached the platter.
Behind(slots, n, r) ==
    /\ slots \in [Slots -> Slot]
    /\ \A o \in Valid(slots) : /\ state_slot_offset(slots[o].sequence) = o
                               /\ slots[o].sequence < n
    /\ n = 0 => r = Fresh /\ NoFile(slots)
    /\ n > 0 => slots[state_slot_offset(n + 1)] = encode_state_slot(r, n - 1)

\* The file new is slots with slot o replaced by c.
Replaces(new, slots, o, c) ==
    /\ new \in [Slots -> Slot]
    /\ new[o] = c
    /\ \A p \in Slots : p # o => new[p] = slots[p]

\* Replacing one slot is Replaces.
LEMMA ReplaceOne ==
    ASSUME NEW slots \in [Slots -> Slot], NEW o \in Slots, NEW c \in Slot
    PROVE  Replaces([slots EXCEPT ![o] = c], slots, o, c)
BY DEF Replaces

\* Two sequences of one parity are two apart.
LEMMA Alternate ==
    ASSUME NEW n \in Nat
    PROVE  /\ state_slot_offset(n) \in Slots /\ state_slot_offset(n + 1) \in Slots
           /\ state_slot_offset(n) # state_slot_offset(n + 1)
           /\ \A p \in Slots : p = state_slot_offset(n) \/ p = state_slot_offset(n + 1)
           /\ n > 0 => state_slot_offset(n - 1) = state_slot_offset(n + 1)
           /\ \A h \in Nat : h < n /\ state_slot_offset(h) = state_slot_offset(n) => h < n - 1
BY DEF state_slot_offset, Slots

\* With the newest slot at hand, scan_state_file finds it and nothing else.
LEMMA ScanNewest ==
    ASSUME NEW slots \in [Slots -> Slot], NEW p \in Valid(slots),
           \A o \in Valid(slots) : o # p => slots[o].sequence < slots[p].sequence
    PROVE  /\ scan_state_file(slots) = {slots[p]}
           /\ Found(slots) = {slots[p].hard}
           /\ next_sequence(slots) = slots[p].sequence + 1
<1>1. \A o \in Valid(slots) : slots[o].sequence \in Nat
    BY DEF Valid, Slot
<1>2. {o \in Valid(slots) : \A q \in Valid(slots) : slots[q].sequence <= slots[o].sequence} = {p}
    BY <1>1
<1>3. scan_state_file(slots) = {slots[p]}
    BY <1>2 DEF scan_state_file
<1>4. ~NoFile(slots)
    BY DEF NoFile, Valid
<1> QED BY <1>3, <1>4 DEF Found, next_sequence

\* What was reported is found when no later write has reached the platter.
LEMMA FindsReported ==
    ASSUME NEW n \in Nat, NEW r, NEW slots, Behind(slots, n, r)
    PROVE  Found(slots) = {r}
<1>1. CASE n = 0
    BY <1>1 DEF Behind, Found
<1>2. CASE n > 0
  <2> DEFINE p == state_slot_offset(n + 1)
             q == state_slot_offset(n)
  <2>1. /\ p \in Slots /\ q # p
        /\ \A o \in Slots : o = q \/ o = p
        /\ \A h \in Nat : h < n /\ state_slot_offset(h) = q => h < n - 1
    BY Alternate
  <2> HIDE DEF p, q
  <2>2. slots[p] = encode_state_slot(r, n - 1)
    BY <1>2 DEF Behind, p
  <2>3. p \in Valid(slots) /\ slots[p].sequence = n - 1 /\ slots[p].hard = r
    BY <2>1, <2>2 DEF Valid, encode_state_slot
  <2>4. \A o \in Valid(slots) : o # p => slots[o].sequence < n - 1
    <3>1. \A o \in Valid(slots) : slots[o].sequence \in Nat /\ o \in Slots
      BY DEF Behind, Valid, Slot
    <3> QED BY <2>1, <3>1 DEF Behind
  <2>5. slots \in [Slots -> Slot]
    BY DEF Behind
  <2> QED BY <2>3, <2>4, <2>5, ScanNewest
<1> QED BY <1>1, <1>2

\* A torn attempt is passed over; before the first write there is nothing else.
LEMMA PassesOverTorn ==
    ASSUME NEW n \in Nat, NEW r, NEW slots, Behind(slots, n, r),
           NEW torn, Replaces(torn, slots, state_slot_offset(n), Torn)
    PROVE  /\ n > 0 => Found(torn) = {r} /\ Valid(torn) # {}
           /\ n = 0 => Found(torn) = {} /\ Valid(torn) = {}
<1> DEFINE q == state_slot_offset(n)
           p == state_slot_offset(n + 1)
<1>1. p \in Slots /\ q \in Slots /\ q # p /\ \A o \in Slots : o = q \/ o = p
    BY Alternate
<1> HIDE DEF p, q
<1>2. /\ torn \in [Slots -> Slot] /\ torn[q] = Torn
      /\ \A o \in Slots : o # q => torn[o] = slots[o]
    BY DEF Replaces, q
<1>3. Valid(torn) = Valid(slots) \ {q}
    BY <1>1, <1>2 DEF Valid, Torn
<1>4. CASE n > 0
  <2>1. slots[p] = encode_state_slot(r, n - 1)
    BY <1>4 DEF Behind, p
  <2>2. p \in Valid(torn) /\ torn[p].hard = r
    BY <1>1, <1>2, <2>1 DEF Valid, encode_state_slot
  <2>3. \A o \in Valid(torn) : o = p
    BY <1>1, <1>3 DEF Valid
  <2>4. Found(torn) = {r}
    BY <1>2, <2>2, <2>3, ScanNewest
  <2> QED BY <1>4, <2>2, <2>4
<1>5. CASE n = 0
  <2>1. Valid(torn) = {}
    BY <1>3, <1>5 DEF Behind, NoFile, Valid
  <2>2. ~NoFile(torn)
    BY <1>1, <1>2 DEF NoFile, Torn
  <2>3. Found(torn) = {}
    BY <2>1, <2>2 DEF Found, scan_state_file
  <2> QED BY <1>5, <2>1, <2>3
<1> QED BY <1>4, <1>5

\* An attempt that reached the platter is found.
LEMMA FindsAttempt ==
    ASSUME NEW n \in Nat, NEW r, NEW slots, Behind(slots, n, r), NEW s \in State,
           NEW new, Replaces(new, slots, state_slot_offset(n), encode_state_slot(s, n))
    PROVE  Found(new) = {s} /\ Valid(new) # {} /\ Behind(new, n + 1, s)
<1> DEFINE q == state_slot_offset(n)
           p == state_slot_offset(n + 1)
<1>1. /\ p \in Slots /\ q \in Slots /\ q # p /\ \A o \in Slots : o = q \/ o = p
      /\ q = state_slot_offset((n + 1) + 1)
  <2>1. n + 1 \in Nat /\ (n + 1) - 1 = n
    OBVIOUS
  <2> QED BY <2>1, Alternate
<1>2. /\ new \in [Slots -> Slot] /\ new[q] = encode_state_slot(s, n)
      /\ \A o \in Slots : o # q => new[o] = slots[o]
    BY DEF Replaces, q
<1>3. q \in Valid(new) /\ new[q].hard = s /\ new[q].sequence = n
    BY <1>1, <1>2 DEF Valid, encode_state_slot
<1>4. \A o \in Valid(new) : o # q => /\ new[o].sequence < n
                                     /\ state_slot_offset(new[o].sequence) = o
    BY <1>2 DEF Behind, Valid
<1>5. \A o \in Valid(new) : new[o].sequence \in Nat
    BY <1>2 DEF Valid, Slot
<1>6. state_slot_offset(new[q].sequence) = q
    BY <1>3
<1>7. Found(new) = {s}
    BY <1>2, <1>3, <1>4, ScanNewest
<1>8. Behind(new, n + 1, s)
  <2>1. \A o \in Valid(new) : /\ state_slot_offset(new[o].sequence) = o
                              /\ new[o].sequence < n + 1
    BY <1>3, <1>4, <1>5, <1>6
  <2>2. new[state_slot_offset((n + 1) + 1)] = encode_state_slot(s, (n + 1) - 1)
    BY <1>1, <1>2
  <2> QED BY <1>2, <2>1, <2>2 DEF Behind
<1> QED BY <1>3, <1>7, <1>8

\* load_hard_state finds one state at most, and continues after its sequence.
LEMMA LoadFinds ==
    ASSUME NEW slots \in [Slots -> Slot], NEW hard \in Found(slots),
           \A o \in Valid(slots) : state_slot_offset(slots[o].sequence) = o
    PROVE  /\ next_sequence(slots) \in Nat
           /\ Behind(slots, next_sequence(slots), hard)
           /\ next_sequence(slots) > 0 <=> Valid(slots) # {}
           /\ hard = Fresh \/ \E o \in Valid(slots) : hard = slots[o].hard
<1>1. CASE NoFile(slots)
  <2>1. next_sequence(slots) = 0 /\ hard = Fresh /\ Valid(slots) = {}
    BY <1>1 DEF NoFile, next_sequence, Found, Valid
  <2> QED BY <1>1, <2>1 DEF Behind
<1>2. CASE ~NoFile(slots)
  <2>1. Valid(slots) # {}
    BY <1>2 DEF Found, scan_state_file
  <2>2. \A o \in Valid(slots) : slots[o].sequence \in Nat /\ o \in Slots
    BY DEF Valid, Slot
  <2>3. PICK p \in Valid(slots) :
            \A o \in Valid(slots) : o # p => slots[o].sequence < slots[p].sequence
    <3>1. \A o, q \in Valid(slots) : o # q => slots[o].sequence # slots[q].sequence
      BY Zenon
    <3>2. \A o \in Valid(slots) : o = 0 \/ o = 1
      BY <2>2 DEF Slots
    <3> QED BY <2>1, <2>2, <3>1, <3>2
  <2> DEFINE n == slots[p].sequence
  <2>4. Found(slots) = {slots[p].hard} /\ next_sequence(slots) = n + 1
    BY <2>3, ScanNewest
  <2>5. n \in Nat /\ slots[p].kind = "valid" /\ slots[p] \in Slot
    BY <2>2 DEF Valid
  <2>6. slots[p] = encode_state_slot(hard, n)
    BY <2>4, <2>5 DEF Slot, encode_state_slot
  <2> HIDE DEF n
  <2>7. state_slot_offset((n + 1) + 1) = p
    BY <2>5, Alternate DEF n
  <2>8. \A o \in Valid(slots) : slots[o].sequence < n + 1
    BY <2>2, <2>3, <2>5 DEF n
  <2>9. Behind(slots, n + 1, hard)
    BY <2>5, <2>6, <2>7, <2>8 DEF Behind
  <2> QED BY <2>1, <2>4, <2>5, <2>9
<1> QED BY <1>1, <1>2

-----------------------------------------------------------------------------
(* The invariant.                                                          *)

\* A running broker's file is behind it.
LEMMA UpBehind ==
    ASSUME TypeOK, FileInv, up
    PROVE  Behind(durable, state_sequence, reported)
BY DEF TypeOK, FileInv, OtherSlotIntact, Behind

\* The attempts that are not flushed, and what a power loss makes of them.
LEMMA UpSurvivors ==
    ASSUME TypeOK, FileInv, NEW slots \in survivors(durable, pending)
    PROVE  \/ slots = durable
           \/ /\ pending # <<>>
              /\ Replaces(slots, durable, state_slot_offset(state_sequence), Torn)
           \/ \E s \in Attempted(pending) :
                 /\ s \in State
                 /\ Replaces(slots, durable, state_slot_offset(state_sequence),
                             encode_state_slot(s, state_sequence))
<1> DEFINE o == state_slot_offset(state_sequence)
<1>1. /\ durable \in [Slots -> Slot] /\ pending \in Seq(Write) /\ state_sequence \in Nat
      /\ Len(pending) \in Nat
    BY DEF TypeOK, Write
<1>2. o \in Slots
    BY <1>1, Alternate
<1>3. \A k \in 1..Len(pending) : /\ pending[k] \in Write /\ pending[k].offset = o
                                 /\ Attempt(pending[k])
    BY <1>1 DEF FileInv, Attempt
<1> HIDE DEF o
<1>4. \/ slots = durable
      \/ \E k \in 1..Len(pending) : slots = [durable EXCEPT ![o] = pending[k].slot]
      \/ \E k \in 1..Len(pending) : slots = [durable EXCEPT ![o] = Torn]
    BY <1>1, <1>2, <1>3, SurvivorsSame
<1>5. \A k \in 1..Len(pending) : pending # <<>>
    BY <1>1
<1>6. Torn \in Slot
    BY DEF Torn, Slot
<1>7. CASE slots = durable
    BY <1>7
<1>8. ASSUME NEW k \in 1..Len(pending), slots = [durable EXCEPT ![o] = pending[k].slot]
      PROVE  \/ pending # <<>> /\ Replaces(slots, durable, o, Torn)
             \/ \E s \in Attempted(pending) :
                   /\ s \in State
                   /\ Replaces(slots, durable, o, encode_state_slot(s, state_sequence))
  <2>1. pending[k].slot \in Slot
    BY <1>3 DEF Write
  <2>2. Replaces(slots, durable, o, pending[k].slot)
    BY <1>1, <1>2, <1>8, <2>1, ReplaceOne
  <2>3. CASE pending[k].slot = Torn
    BY <1>5, <2>2, <2>3
  <2>4. ASSUME NEW s \in State, pending[k].slot = encode_state_slot(s, state_sequence)
        PROVE  s \in Attempted(pending)
    BY <2>4 DEF Attempted, encode_state_slot
  <2> QED BY <1>3, <2>2, <2>3, <2>4 DEF Attempt
<1>9. ASSUME NEW k \in 1..Len(pending), slots = [durable EXCEPT ![o] = Torn]
      PROVE  pending # <<>> /\ Replaces(slots, durable, o, Torn)
    BY <1>1, <1>2, <1>5, <1>6, <1>9, ReplaceOne
<1> QED BY <1>4, <1>7, <1>8, <1>9 DEF o

\* Before the fsync, the page cache holds the new state in the slot being written.
LEMMA VisibleWrite ==
    ASSUME TypeOK, FileInv, writing # Fresh
    PROVE  /\ writing \in State
           /\ Replaces(visible, durable, state_slot_offset(state_sequence),
                       encode_state_slot(writing, state_sequence))
<1> DEFINE o == state_slot_offset(state_sequence)
<1>1. /\ durable \in [Slots -> Slot] /\ pending \in Seq(Write) /\ state_sequence \in Nat
      /\ Len(pending) \in Nat /\ writing \in State
    BY DEF TypeOK, Write
<1>2. o \in Slots
    BY <1>1, Alternate
<1>3. \A k \in 1..Len(pending) : pending[k].offset = o
    BY DEF FileInv, Attempt
<1> HIDE DEF o
<1>4. Len(pending) # 0
    BY <1>1 DEF FileInv
<1>5. visible = [durable EXCEPT ![o] = pending[Len(pending)].slot]
    BY <1>1, <1>2, <1>3, <1>4, ApplySame DEF visible
<1>6. pending[Len(pending)].slot = encode_state_slot(writing, state_sequence)
    BY DEF FileInv
<1>7. encode_state_slot(writing, state_sequence) \in Slot
    BY <1>1 DEF encode_state_slot, Slot
<1> QED BY <1>1, <1>2, <1>5, <1>6, <1>7, ReplaceOne DEF o

\* A broker whose data directory is new.
LEMMA FileInit == Init => TypeOK /\ FileInv
BY DEF Init, TypeOK, FileInv, OtherSlotIntact, Valid, NoFile, Empty, Slot

\* The hard states on the platter are ones that were written, each where its
\* sequence belongs.
Placed(slots) ==
    \A o \in Valid(slots) : slots[o].hard \in State /\ state_slot_offset(slots[o].sequence) = o

\* A power loss keeps them so.
LEMMA PlacedReplace ==
    ASSUME NEW slots \in [Slots -> Slot], Placed(slots), NEW n \in Nat, NEW new, NEW c,
           Replaces(new, slots, state_slot_offset(n), c),
           c = Torn \/ \E s \in State : c = encode_state_slot(s, n)
    PROVE  Placed(new)
<1> DEFINE q == state_slot_offset(n)
<1> HIDE DEF q
<1>1. new[q] = c /\ \A o \in Slots : o # q => new[o] = slots[o]
    BY DEF Replaces, q
<1> SUFFICES ASSUME NEW o \in Valid(new)
             PROVE  new[o].hard \in State /\ state_slot_offset(new[o].sequence) = o
    BY DEF Placed
<1>2. o \in Slots /\ new[o].kind = "valid"
    BY DEF Valid
<1>3. CASE o # q
    BY <1>1, <1>2, <1>3 DEF Placed, Valid
<1>4. CASE o = q
  <2>1. c.kind = "valid"
    BY <1>1, <1>2, <1>4
  <2>2. PICK s \in State : c = encode_state_slot(s, n)
    BY <2>1 DEF Torn
  <2>3. new[o].hard = s /\ new[o].sequence = n
    BY <1>1, <1>4, <2>2 DEF encode_state_slot
  <2> QED BY <1>4, <2>3 DEF q
<1> QED BY <1>3, <1>4

\* How the broker goes down, whether the power goes with it or not.
Down ==
    /\ up /\ up' = FALSE
    /\ durable' \in survivors(durable, pending) /\ pending' = <<>>
    /\ writing' = Fresh /\ UNCHANGED <<state_sequence, reported>>

\* A process that dies alone with nothing unflushed leaves what a power loss would.
LEMMA DownNext ==
    ASSUME "kill" \notin Faults, TypeOK, crash \/ kill
    PROVE  Down
<1>1. CASE crash
    BY <1>1 DEF crash, Down
<1>2. CASE kill
  <2>1. /\ up /\ up' = FALSE /\ pending = <<>> /\ writing' = Fresh
        /\ UNCHANGED <<state_sequence, durable, pending, reported>>
    BY <1>2 DEF kill
  <2>2. durable \in survivors(durable, pending)
    <3>1. durable \in [Slots -> Slot] /\ <<>> \in Seq(Write) /\ Len(<<>>) = 0 /\ 0 \in Slots
      BY DEF TypeOK, Slots
    <3>2. \A k \in 1..Len(<<>>) : <<>>[k].offset = 0
      BY <3>1
    <3> QED BY <2>1, <3>1, <3>2, SurvivorsSame
  <2> QED BY <2>1, <2>2 DEF Down
<1> QED BY <1>1, <1>2

\* One step of the file, as long as no process dies with writes in the page cache.
LEMMA FileNext ==
    ASSUME "kill" \notin Faults, TypeOK, FileInv, [Next]_vars
    PROVE  TypeOK' /\ FileInv'
<1> DEFINE o == state_slot_offset(state_sequence)
<1>1. /\ durable \in [Slots -> Slot] /\ pending \in Seq(Write) /\ state_sequence \in Nat
      /\ Len(pending) \in Nat /\ Placed(durable)
    BY DEF TypeOK, Write, FileInv, Placed
<1>2. o \in Slots
    BY <1>1, Alternate
<1>3. ASSUME NEW c \in Slot, Issue(c), Attempt([offset |-> o, slot |-> c]),
             writing' \in State \cup {Fresh},
             writing' # Fresh => c = encode_state_slot(writing', state_sequence)
      PROVE  TypeOK' /\ FileInv'
  <2> DEFINE w == [offset |-> o, slot |-> c]
  <2>1. pending' = Append(pending, w) /\ UNCHANGED <<up, state_sequence, durable, reported>>
        /\ up
    BY <1>3 DEF Issue
  <2>2. w \in Write /\ w.slot = c
    BY <1>2 DEF Write
  <2> HIDE DEF w
  <2>3. /\ pending' \in Seq(Write) /\ Len(pending') = Len(pending) + 1
        /\ pending'[Len(pending')] = w
        /\ \A k \in 1..Len(pending) : pending'[k] = pending[k]
    BY <1>1, <2>1, <2>2
  <2>4. \A k \in 1..Len(pending') : pending'[k] = w \/ \E h \in 1..Len(pending) :
            pending'[k] = pending[h]
    BY <1>1, <2>3
  <2>5. TypeOK'
    BY <1>3, <2>1, <2>3 DEF TypeOK, Write
  <2>6. \A k \in 1..Len(pending') : Attempt(pending[k])'
    <3>1. Attempt(w)
      BY <1>3 DEF w
    <3>2. \A k \in 1..Len(pending) : Attempt(pending[k])
      BY DEF FileInv
    <3>3. \A k \in 1..Len(pending') : Attempt(pending'[k])
      BY <2>4, <3>1, <3>2
    <3> QED BY <2>1, <3>3 DEF Attempt
  <2>7. pending' # <<>>
    BY <1>1, <2>3
  <2> QED BY <1>3, <2>1, <2>2, <2>3, <2>5, <2>6, <2>7 DEF FileInv, OtherSlotIntact
<1>4. ASSUME NEW s \in State, pwrite(s) PROVE TypeOK' /\ FileInv'
  <2> DEFINE c == encode_state_slot(s, state_sequence)
  <2>1. c \in Slot /\ Issue(c) /\ writing' = s
    BY <1>1, <1>4 DEF pwrite, encode_state_slot, Slot
  <2>2. Attempt([offset |-> o, slot |-> c])
    BY DEF Attempt
  <2> HIDE DEF c, o
  <2> QED BY <1>3, <2>1, <2>2 DEF c
<1>5. CASE pwrite_fails
  <2>1. Torn \in Slot /\ Issue(Torn) /\ writing' = Fresh
    BY <1>5 DEF pwrite_fails, Issue, Torn, Slot
  <2>2. Attempt([offset |-> o, slot |-> Torn])
    BY DEF Attempt
  <2> HIDE DEF o
  <2> QED BY <1>3, <2>1, <2>2
<1>6. CASE fsync
  <2>1. /\ durable' = visible /\ pending' = <<>> /\ state_sequence' = state_sequence + 1
        /\ reported' = writing /\ writing' = Fresh /\ writing # Fresh /\ up' /\ up
    BY <1>6 DEF fsync
  <2>2. writing \in State /\ Replaces(visible, durable, o, encode_state_slot(writing, state_sequence))
    BY <2>1, VisibleWrite
  <2>3. Behind(durable, state_sequence, reported)
    BY <2>1, UpBehind
  <2>4. Behind(visible, state_sequence + 1, writing)
    BY <1>1, <2>2, <2>3, FindsAttempt
  <2>5. Placed(visible)
    BY <1>1, <2>2, PlacedReplace
  <2>6. TypeOK'
    BY <1>1, <2>1, <2>2, <2>4 DEF TypeOK, Behind
  <2> HIDE DEF o
  <2> QED BY <1>1, <2>1, <2>4, <2>5, <2>6 DEF FileInv, OtherSlotIntact, Behind, Placed
<1>7. CASE fsync_fails
    BY <1>7 DEF fsync_fails, TypeOK, FileInv, OtherSlotIntact, Attempt
<1>8. CASE crash \/ kill
  <2>1. /\ up' = FALSE /\ durable' \in survivors(durable, pending) /\ pending' = <<>>
        /\ writing' = Fresh /\ UNCHANGED <<state_sequence, reported>>
    BY <1>8, DownNext DEF Down
  <2>2. durable' \in [Slots -> Slot] /\ Placed(durable')
    <3>1. CASE durable' = durable
      BY <1>1, <3>1
    <3>2. CASE Replaces(durable', durable, o, Torn)
      BY <1>1, <3>2, PlacedReplace DEF Replaces
    <3>3. ASSUME NEW s \in State,
                 Replaces(durable', durable, o, encode_state_slot(s, state_sequence))
          PROVE  durable' \in [Slots -> Slot] /\ Placed(durable')
      BY <1>1, <3>3, PlacedReplace DEF Replaces
    <3> QED BY <2>1, <3>1, <3>2, <3>3, UpSurvivors
  <2> HIDE DEF o
  <2>3. TypeOK'
    <3>0. up' \in BOOLEAN
      BY <2>1, Zenon
    <3>1. pending' \in Seq([offset : Slots, slot : Slot])
      BY <2>1
    <3>2. state_sequence' \in Nat /\ {writing', reported'} \subseteq State \cup {Fresh}
      BY <2>1 DEF TypeOK
    <3> QED BY <2>2, <3>0, <3>1, <3>2 DEF TypeOK
  <2>4. \A k \in 1..Len(pending') : Attempt(pending[k])'
    BY <2>1
  <2> QED BY <2>1, <2>2, <2>3, <2>4 DEF FileInv, OtherSlotIntact, Placed
<1>9. CASE load_hard_state
  <2>1. /\ ~up /\ up' /\ UNCHANGED <<durable, pending, writing>>
        /\ \E hard \in Found(visible) :
              reported' = hard /\ state_sequence' = next_sequence(visible)
    BY <1>9 DEF load_hard_state
  <2>2. pending = <<>> /\ writing = Fresh
    BY <2>1 DEF FileInv
  <2>3. visible = durable
    <3>1. Len(pending) = 0 /\ \A k \in 1..Len(pending) : pending[k].offset = o
      BY <2>2
    <3> HIDE DEF o
    <3> QED BY <1>1, <1>2, <3>1, ApplySame DEF visible
  <2>4. /\ reported' \in Found(durable) /\ state_sequence' = next_sequence(durable)
    BY <2>1, <2>3
  <2>5. /\ state_sequence' \in Nat /\ Behind(durable, state_sequence', reported')
        /\ reported' \in State \cup {Fresh}
    BY <1>1, <2>4, LoadFinds DEF Placed
  <2>6. TypeOK'
    BY <2>1, <2>5 DEF TypeOK
  <2> HIDE DEF o
  <2> QED BY <1>1, <2>1, <2>2, <2>5, <2>6 DEF FileInv, OtherSlotIntact, Behind, Placed
<1>10. CASE UNCHANGED vars
    BY <1>10 DEF vars, TypeOK, FileInv, OtherSlotIntact, Attempt
<1> QED BY <1>4, <1>5, <1>6, <1>7, <1>8, <1>9, <1>10 DEF Next

-----------------------------------------------------------------------------
(* The theorems.                                                           *)

\* What a restart may find is what was reported, or an attempt since.
PossibleInv == up => Possible = {reported} \cup Attempted(pending)

\* FileInv leaves load_hard_state no other choice while the broker runs.
LEMMA PossibleUp ==
    ASSUME TypeOK, FileInv, up
    PROVE  PossibleInv
<1> DEFINE o == state_slot_offset(state_sequence)
<1>1. /\ durable \in [Slots -> Slot] /\ pending \in Seq(Write) /\ state_sequence \in Nat
      /\ Len(pending) \in Nat
    BY DEF TypeOK, Write
<1>2. o \in Slots
    BY <1>1, Alternate
<1>3. \A k \in 1..Len(pending) : pending[k].offset = o
    BY DEF FileInv, Attempt
<1>4. Behind(durable, state_sequence, reported)
    BY UpBehind
<1> HIDE DEF o
<1>5. ASSUME NEW slots \in survivors(durable, pending)
      PROVE  Found(slots) \subseteq {reported} \cup Attempted(pending)
  <2>1. CASE slots = durable
    BY <1>1, <1>4, <2>1, FindsReported
  <2>2. CASE Replaces(slots, durable, state_slot_offset(state_sequence), Torn)
    <3>1. /\ state_sequence > 0 => Found(slots) = {reported}
          /\ state_sequence = 0 => Found(slots) = {}
      BY <1>1, <1>4, <2>2, PassesOverTorn
    <3> QED BY <1>1, <3>1
  <2>3. ASSUME NEW s \in Attempted(pending), s \in State,
               Replaces(slots, durable, state_slot_offset(state_sequence),
                        encode_state_slot(s, state_sequence))
        PROVE  Found(slots) = {s}
    BY <1>1, <1>4, <2>3, FindsAttempt
  <2> QED BY <2>1, <2>2, <2>3, UpSurvivors
<1>6. durable \in survivors(durable, pending) /\ Found(durable) = {reported}
    BY <1>1, <1>2, <1>3, <1>4, SurvivorsSame, FindsReported
<1>7. ASSUME NEW s \in Attempted(pending)
      PROVE  \E slots \in survivors(durable, pending) : s \in Found(slots)
  <2>1. PICK k \in 1..Len(pending) : pending[k].slot.kind = "valid" /\ s = pending[k].slot.hard
    BY DEF Attempted
  <2>2. PICK r \in State : pending[k].slot = encode_state_slot(r, state_sequence)
    BY <2>1 DEF FileInv, Attempt, Torn
  <2>3. s = r
    BY <2>1, <2>2 DEF encode_state_slot
  <2> DEFINE slots == [durable EXCEPT ![o] = pending[k].slot]
  <2>4. slots \in survivors(durable, pending)
    <3>1. survivors(durable, pending)
              = {durable} \cup {[durable EXCEPT ![o] = pending[h].slot] : h \in 1..Len(pending)}
                          \cup {[durable EXCEPT ![o] = Torn] : h \in 1..Len(pending)}
      BY <1>1, <1>2, <1>3, SurvivorsSame
    <3> QED BY <3>1, Zenon
  <2>5. encode_state_slot(s, state_sequence) \in Slot
    BY <1>1, <2>3 DEF encode_state_slot, Slot
  <2>6. Replaces(slots, durable, o, encode_state_slot(s, state_sequence))
    BY <1>1, <1>2, <2>2, <2>3, <2>5, ReplaceOne
  <2> HIDE DEF slots
  <2>7. Found(slots) = {s}
    BY <1>1, <1>4, <2>3, <2>6, FindsAttempt DEF o
  <2> QED BY <2>4, <2>7
<1>8. Possible = UNION {Found(slots) : slots \in survivors(durable, pending)}
    BY DEF Possible
<1> QED BY <1>5, <1>6, <1>7, <1>8 DEF PossibleInv

\* raft.state keeps its invariant: the slot that is not being written holds what
\* Broker::persist last reported, whatever fails and whenever the power goes.
THEOREM FileInOrder ==
    ASSUME "kill" \notin Faults
    PROVE  Spec => [](TypeOK /\ FileInv)
<1>1. TypeOK /\ FileInv /\ [Next]_vars => TypeOK' /\ FileInv'
    BY FileNext
<1> QED BY <1>1, FileInit, PTL DEF Spec

\* The previous slot survives every torn write but the first.
THEOREM OtherSlotSurvives ==
    ASSUME "kill" \notin Faults
    PROVE  Spec => []OtherSlotIntact
<1>1. FileInv => OtherSlotIntact
    BY DEF FileInv
<1> QED BY <1>1, FileInOrder, PTL

\* One more attempt.
LEMMA AttemptedAppend ==
    ASSUME NEW u \in Seq(Write), NEW w \in Write
    PROVE  Attempted(Append(u, w))
               = Attempted(u) \cup (IF w.slot.kind = "valid" THEN {w.slot.hard} ELSE {})
<1> DEFINE v == Append(u, w)
<1>1. /\ Len(u) \in Nat /\ Len(v) = Len(u) + 1 /\ v[Len(u) + 1] = w
      /\ \A k \in 1..Len(u) : v[k] = u[k]
    OBVIOUS
<1> HIDE DEF v
<1>2. \A k : k \in 1..Len(v) <=> k \in 1..Len(u) \/ k = Len(u) + 1
    BY <1>1
<1> QED BY <1>1, <1>2 DEF Attempted, v

\* Something was written once the sequence is past 0.
LEMMA BehindValid ==
    ASSUME NEW n \in Nat, n > 0, NEW r, NEW slots, Behind(slots, n, r)
    PROVE  Valid(slots) # {}
<1>1. state_slot_offset(n + 1) \in Slots
    BY Alternate
<1> QED BY <1>1 DEF Behind, Valid, encode_state_slot

\* A broker that lost power left nothing unflushed.
LEMMA VisibleDown ==
    ASSUME NEW slots \in [Slots -> Slot]
    PROVE  apply_bytes(slots, <<>>) = slots
<1>1. <<>> \in Seq(Write) /\ Len(<<>>) = 0 /\ 0 \in Slots
    BY DEF Slots
<1> QED BY <1>1, ApplySame

\* The refinement, step by step: a pwrite is a write that may or may not have
\* taken place, the fsync is the write, a failure is nothing.
LEMMA RegisterNext ==
    ASSUME "kill" \notin Faults, TypeOK, FileInv, PossibleInv, TypeOK', FileInv', PossibleInv',
           [Next]_vars
    PROVE  [Register!Next]_(Register!vars)
<1> DEFINE written == IF up THEN state_sequence > 0 ELSE Valid(durable) # {}
<1>0. /\ durable \in [Slots -> Slot] /\ pending \in Seq(Write) /\ state_sequence \in Nat
      /\ Len(pending) \in Nat /\ state_slot_offset(state_sequence) \in Slots
  <2>1. /\ durable \in [Slots -> Slot] /\ pending \in Seq(Write) /\ state_sequence \in Nat
        /\ Len(pending) \in Nat
    BY DEF TypeOK, Write
  <2> QED BY <2>1, Alternate
<1>1. up => Possible = {reported} \cup Attempted(pending)
    BY DEF PossibleInv
<1>2. up' => Possible' = {reported'} \cup Attempted(pending')
    BY DEF PossibleInv
<1>3. ASSUME NEW s \in State, pwrite(s) PROVE Register!FailedWrite(s)
  <2> DEFINE w == [offset |-> state_slot_offset(state_sequence),
                   slot |-> encode_state_slot(s, state_sequence)]
  <2>1. up /\ pending' = Append(pending, w) /\ UNCHANGED <<up, state_sequence, durable, reported>>
    BY <1>3 DEF pwrite, Issue
  <2>2. w \in Write /\ w.slot.kind = "valid" /\ w.slot.hard = s
    BY <1>0 DEF Write, Slot, encode_state_slot
  <2> HIDE DEF w
  <2>3. Attempted(pending') = Attempted(pending) \cup {s}
    BY <1>0, <2>1, <2>2, AttemptedAppend
  <2>4. Possible' = Possible \cup {s}
    BY <1>1, <1>2, <2>1, <2>3
  <2>5. written' = written
    BY <2>1
  <2> QED BY <2>1, <2>4, <2>5 DEF Register!FailedWrite
<1>4. CASE pwrite_fails
  <2> DEFINE w == [offset |-> state_slot_offset(state_sequence), slot |-> Torn]
  <2>1. up /\ pending' = Append(pending, w) /\ UNCHANGED <<up, state_sequence, durable, reported>>
    BY <1>4 DEF pwrite_fails, Issue
  <2>2. w \in Write /\ w.slot.kind # "valid"
    BY <1>0 DEF Write, Slot, Torn
  <2> HIDE DEF w
  <2>3. Attempted(pending') = Attempted(pending)
    BY <1>0, <2>1, <2>2, AttemptedAppend
  <2>4. Possible' = Possible
    BY <1>1, <1>2, <2>1, <2>3
  <2>5. written' = written
    BY <2>1
  <2> QED BY <2>1, <2>4, <2>5 DEF Register!vars
<1>5. CASE fsync
  <2>1. /\ pending' = <<>> /\ state_sequence' = state_sequence + 1
        /\ reported' = writing /\ writing # Fresh /\ up' = up /\ up
    BY <1>5 DEF fsync
  <2>2. writing \in State
    BY <2>1 DEF TypeOK
  <2>3. Attempted(pending') = {}
    BY <2>1 DEF Attempted
  <2>4. Possible' = {writing}
    BY <1>2, <2>1, <2>3
  <2>5. written' = TRUE
    BY <1>0, <2>1
  <2>6. Register!Write(writing)
    BY <2>1, <2>4, <2>5 DEF Register!Write
  <2> QED BY <2>2, <2>6 DEF Register!Next
<1>6. CASE fsync_fails
  <2>1. up /\ UNCHANGED <<up, state_sequence, durable, pending, reported>>
    BY <1>6 DEF fsync_fails
  <2>2. Possible' = Possible
    BY <1>1, <1>2, <2>1
  <2> QED BY <2>1, <2>2 DEF Register!vars
<1>7. CASE crash \/ kill
  <2>1. /\ up /\ up' = FALSE /\ durable' \in survivors(durable, pending) /\ pending' = <<>>
        /\ reported' = reported
    BY <1>7, DownNext DEF Down
  <2>2. Possible' = Found(durable')
    <3>1. durable' \in [Slots -> Slot]
      BY DEF TypeOK
    <3>2. visible' = durable'
      BY <2>1, <3>1, VisibleDown DEF visible
    <3> QED BY <2>1, <3>2 DEF Possible
  <2>3. Behind(durable, state_sequence, reported)
    BY <2>1, UpBehind
  <2>4. \/ \E s \in Possible : Found(durable') = {s} /\ (state_sequence > 0 => Valid(durable') # {})
        \/ state_sequence = 0 /\ Found(durable') = {} /\ Valid(durable') = {}
    <3>1. CASE durable' = durable
      <4>1. Found(durable') = {reported}
        BY <1>0, <2>3, <3>1, FindsReported
      <4>2. state_sequence > 0 => Valid(durable') # {}
        BY <1>0, <2>3, <3>1, BehindValid
      <4> QED BY <1>1, <2>1, <4>1, <4>2
    <3>2. CASE Replaces(durable', durable, state_slot_offset(state_sequence), Torn)
      <4>1. /\ state_sequence > 0 => Found(durable') = {reported} /\ Valid(durable') # {}
            /\ state_sequence = 0 => Found(durable') = {} /\ Valid(durable') = {}
        BY <1>0, <2>3, <3>2, PassesOverTorn
      <4>2. state_sequence > 0 \/ state_sequence = 0
        BY <1>0
      <4>3. reported \in Possible
        BY <1>1, <2>1
      <4> QED BY <4>1, <4>2, <4>3
    <3>3. ASSUME NEW s \in Attempted(pending), s \in State,
                 Replaces(durable', durable, state_slot_offset(state_sequence),
                          encode_state_slot(s, state_sequence))
          PROVE  Found(durable') = {s} /\ Valid(durable') # {}
      BY <1>0, <2>3, <3>3, FindsAttempt
    <3> QED BY <1>1, <2>1, <3>1, <3>2, <3>3, UpSurvivors
  <2>5. written = (state_sequence > 0) /\ written' = (Valid(durable') # {})
    BY <2>1
  <2>6. written' \in {written, TRUE}
    <3>1. CASE Valid(durable') # {}
      BY <2>5, <3>1
    <3>2. CASE Valid(durable') = {}
      <4>1. ~(state_sequence > 0)
        BY <1>0, <2>4, <3>2
      <4>2. written = FALSE
        BY <2>1, <4>1
      <4>3. written' = FALSE
        BY <2>1, <3>2
      <4> HIDE DEF written
      <4> QED BY <4>2, <4>3, Zenon
    <3> QED BY <3>1, <3>2
  <2>7. (\E s \in Possible : Possible' = {s}) \/ (~written /\ Possible' = {})
    BY <1>0, <2>2, <2>4, <2>5
  <2>8. Register!PowerLoss
    BY <2>1, <2>6, <2>7 DEF Register!PowerLoss
  <2> QED BY <2>8 DEF Register!Next
<1>8. CASE load_hard_state
  <2>1. /\ ~up /\ up' = TRUE /\ UNCHANGED <<durable, pending, writing>>
        /\ \E hard \in Found(visible) :
              reported' = hard /\ state_sequence' = next_sequence(visible)
    BY <1>8 DEF load_hard_state
  <2>2. visible = durable /\ pending = <<>>
    <3>1. pending = <<>>
      BY <2>1 DEF FileInv
    <3> QED BY <1>0, <3>1, VisibleDown DEF visible
  <2>3. Possible = Found(durable)
    BY <2>1, <2>2 DEF Possible
  <2>4. reported' \in Found(durable) /\ state_sequence' = next_sequence(durable)
    BY <2>1, <2>2
  <2>5. /\ state_sequence' \in Nat /\ Behind(durable, state_sequence', reported')
        /\ state_sequence' > 0 <=> Valid(durable) # {}
    BY <1>0, <2>4, LoadFinds DEF FileInv
  <2>6. Found(durable) = {reported'}
    BY <2>5, FindsReported
  <2>7. Attempted(pending') = {}
    BY <2>1, <2>2 DEF Attempted
  <2>8. Possible' = Possible /\ reported' \in Possible
    BY <1>2, <2>1, <2>3, <2>6, <2>7
  <2>9. written' = written
    BY <2>1, <2>5
  <2>10. Register!Start
    BY <2>1, <2>8, <2>9 DEF Register!Start
  <2> QED BY <2>10 DEF Register!Next
<1>9. CASE UNCHANGED vars
  <2>1. Possible' = Possible
    BY <1>9 DEF vars, Possible, visible
  <2> QED BY <1>9, <2>1 DEF vars, Register!vars
<1>10. (\E s \in State : pwrite(s)) => Register!Next
    BY <1>3 DEF Register!Next
<1> QED BY <1>4, <1>5, <1>6, <1>7, <1>8, <1>9, <1>10 DEF Next

\* raft.state implements HardStateRegister: a restart finds what Broker::persist
\* last reported, or a later attempt, whatever the disk tore, lost or refused.
THEOREM FileKeepsHardState ==
    ASSUME "kill" \notin Faults
    PROVE  Spec => KeepsHardState
<1>1. Init => Register!Init
  <2> SUFFICES ASSUME Init PROVE Register!Init
    OBVIOUS
  <2>1. up /\ reported = Fresh /\ state_sequence = 0 /\ pending = <<>>
    BY DEF Init
  <2>2. Attempted(pending) = {}
    BY <2>1 DEF Attempted
  <2>3. Possible = {Fresh}
    BY <2>1, <2>2, FileInit, PossibleUp DEF PossibleInv
  <2> QED BY <2>1, <2>3 DEF Register!Init, Init
<1>2. TypeOK /\ FileInv => PossibleInv
    BY PossibleUp DEF PossibleInv
<1>3. /\ TypeOK /\ FileInv /\ PossibleInv /\ TypeOK' /\ FileInv' /\ PossibleInv'
      /\ [Next]_vars
      => [Register!Next]_(Register!vars)
    BY RegisterNext
<1> QED BY <1>1, <1>2, <1>3, FileInOrder, PTL DEF Spec, KeepsHardState, Register!Spec

=============================================================================
