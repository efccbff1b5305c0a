----------------------------- MODULE EventLoop ------------------------------
(***************************************************************************)
(* The callback loop of a broker (src/src/runtime/event_loop.cpp): posted  *)
(* tasks, then I/O, then timers.                                           *)
(*                                                                         *)
(* Tasks and handlers are what the application makes of them: each may     *)
(* post a task, set or cancel a timer, stop the loop, or do nothing.  Task *)
(* names one of each, which is posted or timed once at a time.             *)
(*                                                                         *)
(* Deadlines are kept as the time left to them, so that a loop can go on   *)
(* forever in finitely many states.  The unit of time is short: no         *)
(* iteration takes less, and time passes only in the call of poll.         *)
(***************************************************************************)
EXTENDS Integers, SequencesExt, FiniteSetsExt

CONSTANTS
    Task,
    Delays,   \* the delays timers are set with
    Blocks,   \* the max_block the loop is run with
    MaxWait   \* bound: how long I/O may take to come when poll has no timeout

kNoTimeout == -1

ASSUME LoopAssumption ==
    Delays \subseteq Nat /\ Blocks \subseteq Nat \cup {kNoTimeout} /\ MaxWait \in Nat \ {0}

NoTask == "none"

VARIABLES
    timers,    \* EventLoop::timers_ in heap order: the time left and the task
    pending,   \* EventLoop::pending_
    draining,  \* EventLoop::draining_
    running,   \* EventLoop::running_
    block,     \* max_block, as run_once was given it
    phase,     \* where run_once is
    ran,       \* history: the task this step ran
    slept      \* history: how long the last poll took

vars == <<timers, pending, draining, running, block, phase, ran, slept>>

-----------------------------------------------------------------------------
(* What a task or a handler may do.  l is the loop as the callback finds   *)
(* it: timers, pending, running.                                           *)

post(l, x) == [l EXCEPT !.pending = Append(@, x)]

\* Behind every timer that is due as early: its id is the highest.
add_timer_after(l, delay, x) ==
    LET ahead == {k \in 1..Len(l.timers) : l.timers[k].left <= delay}
    IN  [l EXCEPT !.timers = InsertAt(@, Cardinality(ahead) + 1, [left |-> delay, task |-> x])]

cancel_timer(l, x) == [l EXCEPT !.timers = SelectSeq(@, LAMBDA t : t.task # x)]

stop(l) == [l EXCEPT !.running = FALSE]

\* The tasks that wait, in a queue of posted ones or in a heap.
Posted == ToSet(pending) \cup ToSet(draining)
Timed(heap) == {heap[k].task : k \in 1..Len(heap)}

\* One callback: what it may leave of the loop, when the tasks in busy wait already.
callback(l, busy) ==
    {l, stop(l)}
    \cup {post(l, x) : x \in Task \ busy}
    \cup {add_timer_after(l, d, x) : d \in Delays, x \in Task \ busy}
    \cup {cancel_timer(l, x) : x \in Timed(l.timers)}

Become(l) == timers' = l.timers /\ pending' = l.pending /\ running' = l.running

-----------------------------------------------------------------------------
(* EventLoop::run and run_once.                                            *)

Loop(heap) == [timers |-> heap, pending |-> pending, running |-> running]

\* Before the loop runs the application sets it up.  A stop() is lost there.
set_up ==
    /\ phase = "idle"
    /\ \E l \in callback(Loop(timers), Posted \cup Timed(timers)) : Become(l)
    /\ ran' = NoTask
    /\ UNCHANGED <<draining, block, phase, slept>>

\* run(), and the loop of main, which calls run_once with a millisecond and ends by a
\* condition of its own: stop() stands for that too.
run(max_block) ==
    /\ phase = "idle"
    /\ running' = TRUE
    /\ block' = max_block
    /\ phase' = "top"
    /\ ran' = NoTask
    /\ UNCHANGED <<timers, pending, draining, slept>>

\* The condition of run()'s loop, and the swap of drain_pending.
begin ==
    /\ phase = "top"
    /\ ran' = NoTask
    /\ IF running
       THEN phase' = "drain" /\ draining' = pending /\ pending' = <<>>
       ELSE phase' = "idle" /\ UNCHANGED <<draining, pending>>
    /\ UNCHANGED <<timers, running, block, slept>>

\* What a task of the batch leaves of the loop.
task_of_batch == callback(Loop(timers), (Posted \cup Timed(timers)) \ {Head(draining)})

\* Mutant: the batch is not swapped out, so that what a task posts extends it.
drain_pending_in_place ==
    /\ phase = "drain"
    /\ draining # <<>>
    /\ ran' = Head(draining)
    /\ \E l \in task_of_batch :
          /\ Become([l EXCEPT !.pending = <<>>])
          /\ draining' = Tail(draining) \o l.pending
    /\ UNCHANGED <<block, phase, slept>>

\* Mutant: pending_ is cleared once the batch has run.
drain_pending_clears ==
    /\ phase = "drain"
    /\ draining # <<>>
    /\ ran' = Head(draining)
    /\ \E l \in task_of_batch :
          Become(IF Tail(draining) = <<>> THEN [l EXCEPT !.pending = <<>>] ELSE l)
    /\ draining' = Tail(draining)
    /\ UNCHANGED <<block, phase, slept>>

\* One task of the batch: what it posts waits for the next iteration.
drain_pending ==
    /\ phase = "drain"
    /\ draining # <<>>
    /\ ran' = Head(draining)
    /\ \E l \in task_of_batch : Become(l)
    /\ draining' = Tail(draining)
    /\ UNCHANGED <<block, phase, slept>>

\* Mutant: the last of the heap is taken for the first.
next_deadline_last == IF timers = <<>> THEN kNoTimeout ELSE Last(timers).left

next_deadline == IF timers = <<>> THEN kNoTimeout ELSE Head(timers).left

\* The sooner of max_block and the next deadline, kNoTimeout being none.
capped ==
    LET bounds == {block, next_deadline} \ {kNoTimeout}
    IN  IF bounds = {} THEN kNoTimeout ELSE Min(bounds)


timeout == IF pending # <<>> THEN 0 ELSE capped

\* How long poll may take: with I/O, up to the timeout; without, all of it.  A poll that
\* does not wait takes a unit.
waits(io) ==
    LET longest == IF timeout = kNoTimeout THEN MaxWait ELSE Max({timeout, 1})
    IN  IF io THEN 1..longest ELSE IF timeout = kNoTimeout THEN {} ELSE {longest}

\* network_.poll(timeout), which calls a handler if there is I/O.
poll(io) ==
    /\ phase = "drain"
    /\ draining = <<>>
    /\ ran' = NoTask
    /\ \E t \in waits(io) :
          LET heap == [k \in 1..Len(timers) |-> [timers[k] EXCEPT !.left = @ - t]]
          IN  /\ slept' = t
              /\ \E l \in IF io THEN callback(Loop(heap), Posted \cup Timed(heap))
                          ELSE {Loop(heap)} : Become(l)
    /\ phase' = "fire"
    /\ UNCHANGED <<draining, block>>

\* fire_expired_timers.
fire_expired_timers ==
    /\ phase = "fire"
    /\ IF timers # <<>> /\ Head(timers).left <= 0
       THEN /\ ran' = Head(timers).task
            /\ \E l \in callback(Loop(Tail(timers)), Posted \cup Timed(Tail(timers))) : Become(l)
            /\ UNCHANGED phase
       ELSE /\ phase' = "top"
            /\ ran' = NoTask
            /\ UNCHANGED <<timers, pending, running>>
    /\ UNCHANGED <<draining, block, slept>>

Init ==
    /\ timers = <<>>
    /\ pending = <<>>
    /\ draining = <<>>
    /\ running = FALSE
    /\ block = kNoTimeout
    /\ phase = "idle"
    /\ ran = NoTask
    /\ slept = 0

Iterate == begin \/ drain_pending \/ poll(FALSE) \/ fire_expired_timers

Next == set_up \/ (\E b \in Blocks : run(b)) \/ Iterate \/ poll(TRUE)

\* The thread of the loop keeps running, and poll returns at its timeout.  Nobody has to
\* start the loop, and no I/O has to arrive.
Spec == Init /\ [][Next]_vars /\ WF_vars(Iterate)

-----------------------------------------------------------------------------
(* Properties.                                                             *)

\* No timer is overdue: poll never sleeps past the earliest deadline, whatever tasks and
\* handlers set and cancel.
TimersOnTime == \A k \in 1..Len(timers) : timers[k].left >= 0


\* A running loop always comes back to the poll, whatever its tasks post and its timers
\* set: "a task that posts another task must not extend the batch it is running in"
\* (drain_pending), and no timer that is set again is due again at once.
KeepsPolling == []<>((phase = "drain" /\ draining = <<>>) \/ ~running)

\* A task posted to a running loop, even by a task of the batch or by a timer, is run,
\* unless the loop is stopped first.
PostedRuns == \A x \in Task : x \in ToSet(pending) /\ running ~> (ran = x \/ ~running)

=============================================================================
