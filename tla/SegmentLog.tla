----------------------------- MODULE SegmentLog -----------------------------
(***************************************************************************)
(* storage::Log over its segments and their index sidecars                 *)
(* (src/src/storage/log.cpp, segment.cpp, sparse_index.cpp), on a disk     *)
(* that keeps, loses or tears unflushed writes (src/src/io/sim/            *)
(* sim_disk.cpp).                                                          *)
(*                                                                         *)
(* An operation is the sequence of disk calls it makes: it succeeds when   *)
(* all of them do, fails at one of them, or the process dies after some.   *)
(* A file is a sequence of units; a batch occupies a number of them, the   *)
(* first of which is its header.  A checksum tells a whole batch from a    *)
(* torn one.                                                               *)
(*                                                                         *)
(* Faults says what may go wrong:                                          *)
(*   "io"     a disk call fails and does nothing                           *)
(*   "short"  ... or, a write, leaves a part of the batch behind           *)
(*   "power"  power is lost                                                *)
(*   "kill"   the process dies alone: the page cache survives it           *)
(***************************************************************************)
EXTENDS Integers, SequencesExt

CONSTANTS
    Records,        \* how many records a batch may hold
    Sizes,          \* how many units a batch may occupy
    Epochs,         \* the leader epochs of batches
    MaxBytes,       \* Options::segment_max_bytes, in units
    IndexInterval,  \* Options::index_interval_bytes, in units
    MaxOffset,      \* bound: no batch ends past this offset
    MaxPending,     \* bound: unflushed writes of a file when another one fails
    Faults

ASSUME SizeAssumption ==
    /\ {MaxBytes, IndexInterval, MaxOffset, MaxPending} \subseteq Nat
    /\ Records \subseteq Nat \ {0}
    /\ Sizes \subseteq 1..MaxBytes
    /\ Epochs \subseteq Nat
ASSUME FaultAssumption == Faults \subseteq {"io", "short", "power", "kill"}

VARIABLES
    dir,          \* the directory: log files and index files by base offset
    segments,     \* Log::segments_
    next_offset,  \* Log::next_offset_
    status,       \* "open", "stopped" after a failed truncation, or "closed"
    batches,      \* history: the batches of the log, or those an open would find
    durable,      \* history: how many of them fsync has reported durable
    keep          \* history: how many of them the last step had to keep

vars == <<dir, segments, next_offset, status, batches, durable, keep>>

Batch ==
    [base : 0..(MaxOffset - 1), records : Records, size : Sizes, epoch : Epochs]

\* What truncate() fills a file with that is shorter on the platter.
Zero == [batch |-> CHOOSE b \in Batch : TRUE, part |-> 0]

-----------------------------------------------------------------------------
(* Batches in a file.                                                      *)

end_of(b) == b.base + b.records
frame(b) == [k \in 1..b.size |-> [batch |-> b, part |-> k]]

\* The headers that can be read at a position, as a set of at most one.
decode_header(bytes, pos) ==
    {bytes[p].batch : p \in {q \in 1..Len(bytes) : q = pos + 1 /\ bytes[q].part = 1}}

validate_batch(bytes, pos, b) ==
    pos + b.size <= Len(bytes) /\ SubSeq(bytes, pos + 1, pos + b.size) = frame(b)

-----------------------------------------------------------------------------
(* SparseIndex.                                                            *)

maybe_add(index, rel, pos) ==
    IF index # <<>> /\ \/ rel <= Last(index).rel
                       \/ pos <= Last(index).pos
                       \/ pos - Last(index).pos < IndexInterval
    THEN index
    ELSE Append(index, [rel |-> rel, pos |-> pos])

\* Where a search for rel starts.
lookup(index, rel) ==
    LET before == SelectSeq(index, LAMBDA e : e.rel <= rel)
    IN  IF before = <<>> THEN 0 ELSE Last(before).pos

truncate_from(index, pos) == SelectSeq(index, LAMBDA e : e.pos < pos)

\* The entries read back, up to the first that cannot be right.
decode(entries, log_size) ==
    LET good(k) == /\ entries[k].pos < log_size
                   /\ k > 1 => /\ entries[k].rel > entries[k - 1].rel
                               /\ entries[k].pos > entries[k - 1].pos
        n == CHOOSE m \in 0..Len(entries) :
                /\ \A k \in 1..m : good(k)
                /\ m < Len(entries) => ~good(m + 1)
    IN  SubSeq(entries, 1, n)

-----------------------------------------------------------------------------
(* SimDisk: a file is what is on the platter and the writes that are not.  *)

NewFile == [durable |-> <<>>, pending |-> <<>>]
NewIndex == [entries |-> <<>>, flushed |-> TRUE]

apply_bytes(image, w) ==
    SubSeq(image, 1, w.pos) \o w.bytes
    \o SubSeq(image, w.pos + Len(w.bytes) + 1, Len(image))

\* The file after its first n unflushed writes.
after(f, n) ==
    LET go[k \in 0..n] ==
            IF k = 0 THEN f.durable
            ELSE LET image == go[k - 1] IN apply_bytes(image, f.pending[k])
    IN  go[n]

visible(f) == after(f, Len(f.pending))

\* What a power loss leaves of a file: some writes, in order, the last one torn.
survivors(f) ==
    LET torn(k, n) == [f.pending[k + 1] EXCEPT !.bytes = SubSeq(@, 1, n)]
    IN  {after(f, k) : k \in 0..Len(f.pending)}
        \cup UNION {{apply_bytes(after(f, k), torn(k, n)) : n \in 1..(Len(f.pending[k + 1].bytes) - 1)} :
                    k \in 0..(Len(f.pending) - 1)}

cut_file(f, size) ==
    LET inside == SelectSeq(f.pending, LAMBDA w : w.pos < size)
        fit(w) == SubSeq(w.bytes, 1, IF Len(w.bytes) <= size - w.pos THEN Len(w.bytes)
                                     ELSE size - w.pos)
    IN  [durable |-> [k \in 1..size |-> IF k <= Len(f.durable) THEN f.durable[k] ELSE Zero],
         pending |-> [k \in 1..Len(inside) |-> [inside[k] EXCEPT !.bytes = fit(inside[k])]]]

Without(f, base) == [b \in DOMAIN f \ {base} |-> f[b]]
With(f, base, v) == [b \in DOMAIN f \cup {base} |-> IF b = base THEN v ELSE f[b]]

\* The disk calls.
pwrite(base, pos, bytes) == [call |-> "pwrite", base |-> base, pos |-> pos, bytes |-> bytes]
fsync_file(base) == [call |-> "fsync", base |-> base]
truncate(base, size) == [call |-> "truncate", base |-> base, size |-> size]
create(base) == [call |-> "create", base |-> base]
remove(base) == [call |-> "remove", base |-> base]
remove_index(base) == [call |-> "remove_index", base |-> base]
clear_index(base) == [call |-> "clear_index", base |-> base]
write_index(base, index) == [call |-> "write_index", base |-> base, index |-> index]

Do(d, c) ==
    CASE c.call = "pwrite" ->
           [d EXCEPT !.log[c.base].pending = Append(@, [pos |-> c.pos, bytes |-> c.bytes])]
      [] c.call = "fsync" ->
           [d EXCEPT !.log[c.base] = [durable |-> visible(@), pending |-> <<>>]]
      [] c.call = "truncate" -> [d EXCEPT !.log[c.base] = cut_file(@, c.size)]
      [] c.call = "create" ->
           IF c.base \in DOMAIN d.log THEN d ELSE [d EXCEPT !.log = With(@, c.base, NewFile)]
      [] c.call = "remove" -> [d EXCEPT !.log = Without(@, c.base)]
      [] c.call = "remove_index" -> [d EXCEPT !.index = Without(@, c.base)]
      [] c.call = "clear_index" -> [d EXCEPT !.index = With(@, c.base, NewIndex)]
      [] c.call = "write_index" ->
           [d EXCEPT !.index = With(@, c.base, [entries |-> c.index, flushed |-> FALSE])]

DoAll(d, calls) ==
    LET go[n \in 0..Len(calls)] ==
            IF n = 0 THEN d ELSE LET before == go[n - 1] IN Do(before, calls[n])
    IN  go[Len(calls)]

\* The directories a power loss may leave.
power_loss(d) ==
    LET images == {survivors(d.log[b]) : b \in DOMAIN d.log}
        left(e) == IF e.flushed THEN {e.entries}
                   ELSE {SubSeq(e.entries, 1, n) : n \in 0..Len(e.entries)}
    IN  {[log |-> [b \in DOMAIN d.log |-> [durable |-> l[b], pending |-> <<>>]],
          index |-> [b \in DOMAIN d.index |-> [entries |-> x[b], flushed |-> TRUE]]] :
         l \in {f \in [DOMAIN d.log -> UNION images] : \A b \in DOMAIN f : f[b] \in survivors(d.log[b])},
         x \in {f \in [DOMAIN d.index -> UNION {left(d.index[b]) : b \in DOMAIN d.index}] :
                   \A b \in DOMAIN f : f[b] \in left(d.index[b])}}

-----------------------------------------------------------------------------
(* Segment.  A segment in memory is its base offset, its size, its next    *)
(* offset and its index; the bytes are on disk.                            *)

bytes_of(d, base) == IF base \in DOMAIN d.log THEN visible(d.log[base]) ELSE <<>>
index_of(d, base) == IF base \in DOMAIN d.index THEN d.index[base].entries ELSE <<>>

\* The scan of recover(), from a position at which an offset is expected.
scan(base, bytes, from) ==
    LET valid(s) == {b \in decode_header(bytes, s.size) :
                        validate_batch(bytes, s.size, b) /\ b.base = s.next}
        past(s, b) == [s EXCEPT !.index = maybe_add(@, b.base - base, s.size),
                                !.next = end_of(b),
                                !.size = @ + b.size]
        step(s, found) == IF found = {} THEN s ELSE past(s, CHOOSE b \in found : TRUE)
        go[n \in 0..Len(bytes)] ==
            IF n = 0 THEN from ELSE LET s == go[n - 1] IN step(s, valid(s))
    IN  go[Len(bytes)]

\* Segment::recover: the last index entry that names a header starts the scan.
recover_segment(base, bytes, entries) ==
    LET usable(index) ==
            {k \in 1..Len(index) :
                \E b \in decode_header(bytes, index[k].pos) : b.base = base + index[k].rel}
        start(index, k) ==
            [base |-> base,
             size |-> IF k = 0 THEN 0 ELSE index[k].pos,
             next |-> IF k = 0 THEN base ELSE base + index[k].rel,
             index |-> SubSeq(index, 1, k)]
        scanned(index) == scan(base, bytes, start(index, Max({0} \cup usable(index))))
        trimmed(s) == [s EXCEPT !.index = truncate_from(@, s.size)]
    IN  trimmed(scanned(decode(entries, Len(bytes))))

\* The headers found by walking a segment from a position, with their positions.
walk(bytes, size, from) ==
    LET at(pos) == {[pos |-> pos, batch |-> b] :
                       b \in IF pos < size THEN decode_header(bytes, pos) ELSE {}}
        further(met) == met \cup UNION {at(h.pos + h.batch.size) : h \in met}
        go[n \in 0..Len(bytes)] == IF n = 0 THEN at(from) ELSE LET met == go[n - 1] IN further(met)
    IN  go[Len(bytes)]

\* Segment::truncate_to: where the batch that begins at offset is.
cut_at(s, bytes, offset) ==
    IF offset <= s.base THEN {0}
    ELSE {h.pos : h \in {g \in walk(bytes, s.size, lookup(s.index, offset - s.base)) :
                            g.batch.base = offset}}

\* Segment::read: the batches that contain offset, the first of which is returned.
read(s, bytes, offset) ==
    LET found == {h \in walk(bytes, s.size, lookup(s.index, offset - s.base)) :
                     end_of(h.batch) > offset}
    IN  {h.batch : h \in {g \in found : \A f \in found : g.pos <= f.pos}}

-----------------------------------------------------------------------------
(* Log.                                                                    *)

\* Log::recover: the segments up to a hole or a torn tail, each with its index.
recovered(d, indexes) ==
    LET bases == SetToSortSeq(DOMAIN d.log, <)
        open_at(base) == recover_segment(base, bytes_of(d, base), indexes[base])
        torn(s) == s.size < Len(bytes_of(d, s.base))
        try(segs, n) ==
            IF \/ Len(segs) < n - 1
               \/ segs # <<>> /\ (torn(Last(segs)) \/ Last(segs).next # bases[n])
            THEN segs
            ELSE Append(segs, open_at(bases[n]))
        go[n \in 0..Len(bases)] ==
            IF n = 0 THEN <<>> ELSE LET segs == go[n - 1] IN try(segs, n)
    IN  go[Len(bases)]

recover(d) == recovered(d, [base \in DOMAIN d.log |-> index_of(d, base)])

bases_of(segs) == {segs[k].base : k \in 1..Len(segs)}

\* Segment files are removed together with their indexes.
remove_segments(bases) ==
    FlattenSeq([k \in 1..Len(bases) |-> <<remove(bases[k]), remove_index(bases[k])>>])

\* The disk calls of Log::recover, which keeps the segments kept.
recover_calls(d, kept) ==
    LET cut(s) == IF s.size < Len(bytes_of(d, s.base)) THEN <<truncate(s.base, s.size)>> ELSE <<>>
    IN  FlattenSeq([k \in 1..Len(kept) |-> cut(kept[k])])
        \o remove_segments(SetToSortSeq(DOMAIN d.log \ bases_of(kept), <))
        \o (IF kept = <<>> THEN <<create(0)>> ELSE <<>>)

active == Last(segments)

rolls(b) == active.size > 0 /\ b.size > MaxBytes - active.size

flush_index(s) ==
    <<clear_index(s.base)>> \o (IF s.index = <<>> THEN <<>> ELSE <<write_index(s.base, s.index)>>)

flush_indexes(segs) == FlattenSeq([k \in 1..Len(segs) |-> flush_index(segs[k])])


\* Log::roll.
roll_calls(s) == <<fsync_file(s.base)>> \o flush_index(s) \o <<create(next_offset)>>

rolled == Append(segments, recover_segment(next_offset, bytes_of(dir, next_offset),
                                           index_of(dir, next_offset)))

\* The segments a batch is appended to, and the calls that precede its write.
target(b) == IF rolls(b) THEN rolled ELSE segments
before_write(b) == IF rolls(b) THEN roll_calls(active) ELSE <<>>

append_calls(b, segs) ==
    Append(before_write(b), pwrite(Last(segs).base, Last(segs).size, frame(b)))

\* Segment::append, in memory.
appended(s, b) ==
    [s EXCEPT !.index = maybe_add(@, b.base - s.base, s.size),
              !.size = @ + b.size,
              !.next = end_of(b)]

\* The batches the broker may append: a leader's own, or one that continues the log.
Appendable ==
    {b \in Batch : /\ b.base = next_offset
                   /\ end_of(b) <= MaxOffset
                   /\ active.next = b.base}

\* The batches of a file up to a size, in order.
batches_in(bytes, size) ==
    LET headers == SelectSeq(SubSeq(bytes, 1, size), LAMBDA u : u.part = 1)
    IN  [k \in 1..Len(headers) |-> headers[k].batch]

batches_of(d, segs) ==
    FlattenSeq([k \in 1..Len(segs) |-> batches_in(bytes_of(d, segs[k].base), segs[k].size)])

held == batches_of(dir, segments)

\* Log::truncate_to: the segments that stay, the calls that remove the others.
staying(offset) ==
    SubSeq(segments, 1, Max({1} \cup {k \in 1..Len(segments) : segments[k].base < offset}))

\* Mutant: the files of the segments that are dropped stay behind.
remove_calls_forgotten(kept) == <<>>

remove_calls(kept) ==
    LET gone == Reverse(SubSeq(segments, Len(kept) + 1, Len(segments)))
    IN  remove_segments([k \in 1..Len(gone) |-> gone[k].base])

\* The position to cut the last of them at, if it must be cut and can be.
last_cut(s, offset) ==
    IF offset >= s.next THEN {s.size} ELSE cut_at(s, bytes_of(dir, s.base), offset)

truncate_calls(kept, offset) ==
    remove_calls(kept)
    \o (IF offset >= Last(kept).next THEN <<>>
        ELSE SetToSeq({truncate(Last(kept).base, pos) : pos \in last_cut(Last(kept), offset)}))

-----------------------------------------------------------------------------
(* The operations.                                                         *)

\* Log::open.
open ==
    /\ status = "closed"
    /\ \E kept \in {recover(dir)} :
          /\ dir' = DoAll(dir, recover_calls(dir, kept))
          /\ segments' = IF kept = <<>> THEN <<recover_segment(0, <<>>, index_of(dir, 0))>>
                         ELSE kept
    /\ next_offset' = Last(segments').next
    /\ status' = "open"

\* Log::recover gives up at a segment it cannot read, and ~Log flushes the indexes of
\* those before it.
open_fails ==
    /\ status = "closed"
    /\ "io" \in Faults
    /\ \E met \in {recover(dir)} :
          \E n \in 0..Max({0, Len(met) - 1}) : dir' = DoAll(dir, flush_indexes(SubSeq(met, 1, n)))
    /\ UNCHANGED <<segments, next_offset, status>>

\* Log::append and Log::append_replicated.
append(b) ==
    /\ status = "open"
    /\ \E segs \in {target(b)} :
          /\ dir' = DoAll(dir, append_calls(b, segs))
          /\ segments' = Append(Front(segs), appended(Last(segs), b))
    /\ next_offset' = end_of(b)
    /\ UNCHANGED status

\* The write of a batch stops half way.
short_writes(d, write) ==
    IF "short" \in Faults /\ Len(d.log[write.base].pending) < MaxPending
    THEN {Do(d, [write EXCEPT !.bytes = SubSeq(@, 1, n)]) : n \in 1..(Len(write.bytes) - 1)}
    ELSE {}

\* One of their disk calls fails.  A roll that is complete stays so.
append_fails(b) ==
    /\ status = "open"
    /\ "io" \in Faults
    /\ \E segs \in {target(b)} : \E calls \in {append_calls(b, segs)} :
          \E k \in 0..(Len(calls) - 1) : \E d \in {DoAll(dir, SubSeq(calls, 1, k))} :
              IF k < Len(calls) - 1 THEN dir' = d /\ segments' = segments
              ELSE dir' \in {d} \cup short_writes(d, Last(calls)) /\ segments' = segs
    /\ UNCHANGED <<next_offset, status>>


\* Log::fsync.  When it fails nothing has changed.
fsync ==
    /\ status = "open"
    /\ dir' = Do(dir, fsync_file(active.base))
    /\ UNCHANGED <<segments, next_offset, status>>

\* Log::truncate_to.
truncate_to(offset) ==
    /\ status = "open"
    /\ \E kept \in {staying(offset)} : \E pos \in last_cut(Last(kept), offset) :
          /\ dir' = DoAll(dir, truncate_calls(kept, offset))
          /\ segments' = IF offset >= Last(kept).next THEN kept
                         ELSE Append(Front(kept),
                                     [Last(kept) EXCEPT !.size = pos, !.next = offset,
                                                        !.index = truncate_from(@, pos)])
    /\ next_offset' = Last(segments').next
    /\ UNCHANGED status

\* The cut fails or finds no header.  The segments after it are gone all the same,
\* next_offset_ is not moved, and the broker is to stop using the log.
truncate_fails(offset) ==
    /\ status = "open"
    /\ \E kept \in {staying(offset)} :
          /\ "io" \in Faults \/ last_cut(Last(kept), offset) = {}
          /\ dir' = DoAll(dir, remove_calls(kept))
          /\ segments' = kept
    /\ status' = "stopped"
    /\ UNCHANGED next_offset

\* Log::~Log.  An index that cannot be written does not keep the others from being so.
close ==
    /\ status # "closed"
    /\ LET calls(k, n) == SubSeq(flush_index(segments[k]), 1, n)
           full == [k \in 1..Len(segments) |-> Len(flush_index(segments[k]))]
           made == IF "io" \in Faults THEN {f \in [1..Len(segments) -> 0..2] :
                                               \A k \in DOMAIN f : f[k] <= full[k]}
                   ELSE {full}
       IN  dir' \in {DoAll(dir, FlattenSeq([k \in DOMAIN f |-> calls(k, f[k])])) : f \in made}
    /\ segments' = <<>>
    /\ next_offset' = 0
    /\ status' = "closed"

\* The calls of the operations that may be under way and keep n batches.
under_way(n) ==
    IF n < Len(batches)
    THEN {truncate_calls(staying(offset), offset) : offset \in {held[n + 1].base}}
    ELSE IF status = "closed" THEN {recover_calls(dir, kept) : kept \in {recover(dir)}}
    ELSE {flush_indexes(segments)}
         \cup (IF status = "open" THEN {append_calls(b, target(b)) : b \in Appendable} ELSE {})

\* The process dies after some of the calls of an operation, alone or with the power.
\* Before the first call of a truncation it still has all batches to keep.
left_by(n) ==
    UNION {{DoAll(dir, SubSeq(calls, 1, k)) :
               k \in (IF n < Len(batches) THEN 1 ELSE 0)..Len(calls)} : calls \in under_way(n)}

die(n) ==
    /\ n < Len(batches) => status = "open"
    /\ \E left \in left_by(n) :
          \/ "kill" \in Faults /\ dir' = left /\ keep' = n
          \/ "power" \in Faults /\ dir' \in power_loss(left) /\ keep' = Min({n, durable})
    /\ segments' = <<>>
    /\ next_offset' = 0
    /\ status' = "closed"

-----------------------------------------------------------------------------
(* What the log holds, as seen from outside.                               *)

\* What a scan of the whole log finds, without any index.
full_scan(d) == batches_of(d, recovered(d, [base \in DOMAIN d.log |-> <<>>]))

\* The histories after a step, keep aside.
Observe(synced) ==
    \E d \in {dir'}, segs \in {segments'} :
        /\ batches' = IF status' = "closed" THEN full_scan(d) ELSE batches_of(d, segs)
        /\ durable' = IF synced THEN Len(batches') ELSE Min({durable, Len(batches')})

Init ==
    /\ dir = [log |-> <<>>, index |-> <<>>]
    /\ segments = <<>>
    /\ next_offset = 0
    /\ status = "closed"
    /\ batches = <<>>
    /\ durable = 0
    /\ keep = 0

\* The log has all of its batches to keep, ...
KeepAll ==
    /\ \/ open
       \/ open_fails
       \/ status = "open" /\ \E b \in Appendable : append(b) \/ append_fails(b)
       \/ close
    /\ keep' = Len(batches)

\* ... or the first n of them.
KeepFirst(n) ==
    /\ status = "open"
    /\ \E offset \in {held[n + 1].base} : truncate_to(offset) \/ truncate_fails(offset)
    /\ keep' = n

Next ==
    \/ /\ \/ KeepAll
          \/ \E n \in 0..(Len(batches) - 1) : KeepFirst(n)
          \/ \E n \in 0..Len(batches) : die(n)
       /\ Observe(FALSE)
    \/ fsync /\ keep' = Len(batches) /\ Observe(TRUE)

Spec == Init /\ [][Next]_vars

-----------------------------------------------------------------------------
(* Properties.                                                             *)

\* The log implements BatchLog: whatever fails and whenever the process dies, in
\* the middle of a roll, a truncation or a recovery, nothing is lost but what was
\* to be truncated and, with the power, what no fsync has reported durable.
Promise == INSTANCE BatchLog


\* The directory holds the segments of the log and no other: nothing that was
\* truncated can come back in a later recovery.
NoSegmentLeftBehind ==
    status # "closed" => DOMAIN dir.log = {segments[k].base : k \in 1..Len(segments)}

\* The index can only ever save work: a read finds the batch that contains an
\* offset wherever it starts to look (sparse_index.h).
IndexOnlySavesWork ==
    status = "open" =>
        \A k \in 1..Len(segments) :
            LET s == segments[k]
                bytes == bytes_of(dir, s.base)
            IN  \A h \in walk(bytes, s.size, 0) :
                    \A o \in h.batch.base..(end_of(h.batch) - 1) : read(s, bytes, o) = {h.batch}

=============================================================================
