------------------------------ MODULE Streams -------------------------------
(***************************************************************************)
(* Frames between brokers: the streams of Broker (src/src/server/          *)
(* broker.cpp) and the decoder they feed (src/src/wire/frame.cpp), over    *)
(* the simulated network (src/src/io/sim/sim_network.cpp).                 *)
(*                                                                         *)
(* A frame is two units, so that a partial write or a full window can      *)
(* split it.  Units in flight are delivered one at a time: a reader may    *)
(* run between any two of them, as after any split into writes.  Time is   *)
(* left out: what is scheduled happens eventually, in the order the        *)
(* scheduler keeps per connection.  One step is one handler: a callback    *)
(* that poll() dispatches for a connection, or a scheduled event.          *)
(*                                                                         *)
(* What Raft decides to send is not modelled: send_raft happens at will.   *)
(* The answer to a frame is such a step of its own, for it leaves on       *)
(* another connection than the one being read.                             *)
(*                                                                         *)
(* Faults says what may go wrong:                                          *)
(*   "crash"  a node loses power, and starts again                         *)
(*   "cut"    one direction of a link is cut, and heals after the reset    *)
(*   "blip"   ... or heals before it                                       *)
(***************************************************************************)
EXTENDS Integers, SequencesExt

CONSTANTS
    Node,
    Sends,         \* the <<node, peer>> pairs that have something to say
    Window,        \* NetworkFaultConfig::send_window_bytes, in units
    MaxFrames,     \* bound: frames a node sends
    MaxEndpoints,  \* bound: endpoints ever made
    MaxFaults,     \* bound: cuts and crashes
    Faults

ASSUME StreamAssumption ==
    /\ Sends \subseteq Node \X Node
    /\ {MaxFrames, MaxEndpoints, MaxFaults} \subseteq Nat
    /\ Window \in Nat \ {0}
    /\ Faults \subseteq {"crash", "cut", "blip"}

kInvalidConn == 0

VARIABLES
    endpoints,         \* Fabric::endpoints_; wire: what is scheduled for delivery
    listeners,         \* Fabric::listeners_, the listening endpoint of a node
    cuts,              \* Fabric::cuts_
    accepts,           \* scheduled: connections a listener is yet to hear of
    resets,            \* scheduled: how many resets each direction of a link awaits
    up,                \* the nodes that are running
    faults,            \* how many cuts and crashes there have been
    streams,           \* Broker::streams_, of all brokers
    peer_conns,        \* Broker::peer_conns_
    next_correlation,  \* Broker::next_correlation_
    written,           \* history: what write() has accepted on an endpoint
    consumed,          \* history: what read() has returned on an endpoint
    carried,           \* history: the frames handed to a connection
    received,          \* history: the frames handed to Raft
    protocol_errors    \* history: on_protocol_error

brokerVars == <<streams, peer_conns>>
fabricVars == <<listeners, cuts, accepts, resets, up, faults>>
histories == <<written, consumed, carried, received, protocol_errors>>
vars == <<endpoints, fabricVars, brokerVars, next_correlation, histories>>

Ids(eps) == 1..Len(eps)

-----------------------------------------------------------------------------
(* Fabric.                                                                 *)

new_endpoint(node) ==
    [node |-> node, listener |-> FALSE, open |-> TRUE, reset |-> FALSE,
     hangup_delivered |-> FALSE, peer_closed |-> FALSE, peer |-> kInvalidConn,
     rx |-> <<>>, in_flight |-> 0, wire |-> <<>>, interest |-> "none", backlog |-> <<>>]

is_cut(from, to) == <<from, to>> \in cuts

\* reset_connection, of each of ids and of its peer.
reset_connections(eps, ids) ==
    [id \in Ids(eps) |->
        IF id \in ids \/ eps[id].peer \in ids
        THEN [eps[id] EXCEPT !.reset = TRUE, !.open = FALSE] ELSE eps[id]]

\* Mutant: the handlers of a dead node stay registered.
kill_node_connections_watched(eps, node) ==
    LET mine == {id \in Ids(eps) : eps[id].node = node}
        dead == reset_connections(eps, {id \in mine : ~eps[id].listener})
    IN  [id \in Ids(eps) |->
            IF id \in mine THEN [dead[id] EXCEPT !.open = FALSE, !.backlog = <<>>]
            ELSE dead[id]]

kill_node_connections(eps, node) ==
    LET mine == {id \in Ids(eps) : eps[id].node = node}
        dead == reset_connections(eps, {id \in mine : ~eps[id].listener})
    IN  [id \in Ids(eps) |->
            IF id \in mine
            THEN [dead[id] EXCEPT !.open = FALSE, !.backlog = <<>>, !.interest = "none"]
            ELSE dead[id]]

watch(eps, id, interest) == [eps EXCEPT ![id].interest = interest]

\* SimNetwork::close of a connection.
close(eps, id) ==
    [k \in Ids(eps) |->
        IF k = id THEN [eps[k] EXCEPT !.open = FALSE, !.interest = "none"]
        ELSE IF k = eps[id].peer THEN [eps[k] EXCEPT !.peer_closed = TRUE]
        ELSE eps[k]]

\* Units that write() accepts and that vanish: the peer is gone, or the link is cut.
vanishes(eps, id) ==
    LET peer == eps[eps[id].peer]
    IN  peer.reset \/ is_cut(eps[id].node, peer.node)

\* How much of n units write() takes, called until it has no room.
room(eps, id, n) ==
    LET left == Window - eps[id].in_flight
    IN  IF (left > 0 /\ vanishes(eps, id)) \/ n <= left THEN n ELSE left

write(eps, id, data) ==
    IF vanishes(eps, id) THEN eps
    ELSE [eps EXCEPT ![id].in_flight = @ + Len(data), ![id].wire = @ \o data]

-----------------------------------------------------------------------------
(* Frames.                                                                 *)

Frame(node, number) == [from |-> node, number |-> number]
encode_frame(f) == <<[frame |-> f, part |-> 1], [frame |-> f, part |-> 2]>>

\* Mutant: with a frame goes everything that was read along with it.
decoded_greedily(buf) ==
    LET n == Len(buf) \div 2
    IN  [frames |-> {buf[2 * k].frame : k \in 1..n},
         rest |-> <<>>,
         ok |-> \A k \in 1..Len(buf) : buf[k].part = 2 - (k % 2)]

\* FrameDecoder::next on a buffer: the frames at its front, what follows them, and
\* whether that can be the beginning of a frame.
decoded(buf) ==
    LET whole(k) == SubSeq(buf, 2 * k - 1, 2 * k) = encode_frame(buf[2 * k].frame)
        n == CHOOSE m \in 0..(Len(buf) \div 2) :
                /\ \A k \in 1..m : whole(k)
                /\ m < Len(buf) \div 2 => ~whole(m + 1)
        rest == SubSeq(buf, 2 * n + 1, Len(buf))
    IN  [frames |-> {buf[2 * k].frame : k \in 1..n},
         rest |-> rest,
         ok |-> rest = <<>> \/ (Len(rest) = 1 /\ rest[1].part = 1)]

-----------------------------------------------------------------------------
(* Broker.  h is what a handler works on: endpoints, streams, peer_conns.  *)

Here == [endpoints |-> endpoints, streams |-> streams, peer_conns |-> peer_conns]

Become(h) == endpoints' = h.endpoints /\ streams' = h.streams /\ peer_conns' = h.peer_conns

NewStream == [in |-> <<>>, out |-> <<>>]

\* Mutant: the connection is not given up for the next send.
forget_keeps_peer(h, conn) ==
    [h EXCEPT !.endpoints = close(@, conn),
              !.streams = [c \in DOMAIN @ \ {conn} |-> @[c]]]

forget(h, conn) ==
    [endpoints |-> close(h.endpoints, conn),
     streams |-> [c \in DOMAIN h.streams \ {conn} |-> h.streams[c]],
     peer_conns |-> [n \in Node |-> [p \in Node |->
                        IF h.peer_conns[n][p] = conn THEN kInvalidConn ELSE h.peer_conns[n][p]]]]

\* Mutant: what a short write left over is dropped.
taken_all(h, conn) == Len(h.streams[conn].out)

\* What flush gets rid of before the window is full.
taken(h, conn) == room(h.endpoints, conn, Len(h.streams[conn].out))

\* Mutant: nobody asks to hear of room in the window.
park_unwatched(eps, conn) == watch(eps, conn, "read")

park(eps, conn) == watch(eps, conn, "readwrite")

dead(ep) == ep.reset \/ ~ep.open

flush(h, conn) ==
    LET out == h.streams[conn].out
        n == taken(h, conn)
        m == room(h.endpoints, conn, n)
        eps == write(h.endpoints, conn, SubSeq(out, 1, m))
    IN  IF out # <<>> /\ dead(h.endpoints[conn]) THEN forget(h, conn)
        ELSE [h EXCEPT !.streams[conn].out = SubSeq(out, n + 1, Len(out)),
                       !.endpoints = IF n < Len(out) THEN park(eps, conn)
                                     ELSE watch(eps, conn, "read")]

\* SimNetwork::connect and what send_raft does with the connection.
connected(h, n, p) ==
    LET client == Len(h.endpoints) + 1
        ends == <<[new_endpoint(n) EXCEPT !.peer = client + 1],
                  [new_endpoint(p) EXCEPT !.peer = client]>>
    IN  [endpoints |-> watch(h.endpoints \o ends, client, "read"),
         streams |-> [c \in DOMAIN h.streams \cup {client} |->
                         IF c = client THEN NewStream ELSE h.streams[c]],
         peer_conns |-> [h.peer_conns EXCEPT ![n][p] = client]]

\* Mutant: the way back is not looked at.
connect_ok_one_way(n, p) == ~is_cut(n, p) /\ listeners[p] # kInvalidConn

connect_ok(n, p) ==
    ~is_cut(n, p) /\ ~is_cut(p, n) /\ listeners[p] # kInvalidConn

queued(h, conn, f) == [h EXCEPT !.streams[conn].out = @ \o encode_frame(f)]

\* The histories of a flush of conn that starts from h.
Wrote(h, conn) ==
    written' = IF dead(h.endpoints[conn]) THEN written
               ELSE [written EXCEPT ![conn] = @ \o SubSeq(h.streams[conn].out, 1, taken(h, conn))]

-----------------------------------------------------------------------------
(* What brokers do.                                                        *)

\* Broker::send_raft and Broker::send.  When connect() fails the message is dropped.
send_raft(n, p) ==
    /\ n \in up
    /\ next_correlation[n] < MaxFrames
    /\ \E h \in IF peer_conns[n][p] # kInvalidConn THEN {Here}
                ELSE IF connect_ok(n, p) /\ Len(endpoints) + 2 <= MaxEndpoints
                THEN {connected(Here, n, p)} ELSE {} :
          LET conn == h.peer_conns[n][p]
              f == Frame(n, next_correlation[n] + 1)
          IN  /\ accepts' = IF peer_conns[n][p] # kInvalidConn THEN accepts
                            ELSE accepts \cup {<<listeners[p], conn + 1>>}
              /\ Become(flush(queued(h, conn, f), conn))
              /\ Wrote(queued(h, conn, f), conn)
              /\ carried' = [carried EXCEPT ![conn] = @ \cup {f}]
    /\ next_correlation' = [next_correlation EXCEPT ![n] = @ + 1]
    /\ UNCHANGED <<listeners, cuts, resets, up, faults, consumed, received, protocol_errors>>

\* on_readable of the listener: accept() until it would block.
on_readable_listener(id) ==
    LET fresh == ToSet(endpoints[id].backlog)
    IN  /\ endpoints' = [k \in Ids(endpoints) |->
                            IF k = id THEN [endpoints[k] EXCEPT !.backlog = <<>>]
                            ELSE IF k \in fresh THEN [endpoints[k] EXCEPT !.interest = "read"]
                            ELSE endpoints[k]]
        /\ streams' = [c \in DOMAIN streams \cup fresh |->
                          IF c \in fresh THEN NewStream ELSE streams[c]]
        /\ UNCHANGED <<peer_conns, histories>>

\* on_readable of a connection: read() and decode until it would block, the stream
\* cannot be decoded, or the peer has closed.
on_readable(id) ==
    LET ep == endpoints[id]
        data == IF ep.reset THEN <<>> ELSE ep.rx
        d == decoded(streams[id].in \o data)
        h == [Here EXCEPT !.endpoints[id].rx = <<>>, !.streams[id].in = d.rest]
    IN  /\ Become(IF ~d.ok \/ ep.peer_closed \/ ~ep.open THEN forget(h, id) ELSE h)
        /\ consumed' = [consumed EXCEPT ![id] = @ \o data]
        /\ received' = received \cup d.frames
        /\ protocol_errors' = (protocol_errors \/ ~d.ok)
        /\ UNCHANGED <<written, carried>>

\* Mutant: a reset is taken note of and the connection kept.
on_hangup_ignored(id) ==
    /\ Become([Here EXCEPT !.endpoints[id].hangup_delivered = TRUE])
    /\ UNCHANGED histories

on_hangup(id) ==
    /\ Become(forget([Here EXCEPT !.endpoints[id].hangup_delivered = TRUE], id))
    /\ UNCHANGED histories

on_writable(id) ==
    /\ Become(flush(Here, id))
    /\ Wrote(Here, id)
    /\ UNCHANGED <<consumed, carried, received, protocol_errors>>

readable(ep) == IF ep.listener THEN ep.backlog # <<>> ELSE ep.rx # <<>> \/ ep.peer_closed

writable(ep) == ep.open /\ ~ep.listener /\ ~ep.reset /\ ep.in_flight < Window

\* What SimNetwork::poll dispatches for an endpoint.  A connection that is readable and
\* writable is first the one and then, in the same round or the next, the other.
poll(id) ==
    LET ep == endpoints[id]
        hangs_up == ep.reset /\ ~ep.hangup_delivered
    IN  /\ ep.interest # "none"
        /\ \/ hangs_up /\ on_hangup(id)
           \/ ~hangs_up /\ readable(ep) /\ ep.listener /\ on_readable_listener(id)
           \/ ~hangs_up /\ readable(ep) /\ ~ep.listener /\ on_readable(id)
           \/ /\ ~hangs_up /\ ~readable(ep) /\ writable(ep)
              /\ ep.interest = "readwrite"
              /\ on_writable(id)
        /\ UNCHANGED <<fabricVars, next_correlation>>

-----------------------------------------------------------------------------
(* What is scheduled.                                                      *)

\* Fabric::deliver of the next unit from endpoint id.
deliver(id) ==
    LET ep == endpoints[id]
        sent == [endpoints EXCEPT ![id].wire = Tail(@), ![id].in_flight = @ - 1]
    IN  /\ ep.wire # <<>>
        /\ endpoints' = IF dead(endpoints[ep.peer]) THEN sent
                        ELSE [sent EXCEPT ![ep.peer].rx = Append(@, Head(ep.wire))]
        /\ UNCHANGED <<fabricVars, brokerVars, next_correlation, histories>>

\* The event connect() schedules: the listener hears of the connection.
accept_event(listener, server) ==
    /\ <<listener, server>> \in accepts
    /\ accepts' = accepts \ {<<listener, server>>}
    /\ endpoints' = IF ~endpoints[listener].open
                    THEN reset_connections(endpoints, {server})
                    ELSE IF endpoints[server].reset THEN endpoints
                    ELSE [endpoints EXCEPT ![listener].backlog = Append(@, server)]
    /\ UNCHANGED <<listeners, cuts, resets, up, faults, brokerVars, next_correlation, histories>>

\* The connections between two nodes, as the endpoints of one of them.
between(from, to) ==
    {id \in Ids(endpoints) : /\ endpoints[id].node = from
                             /\ ~endpoints[id].listener
                             /\ ~endpoints[id].reset
                             /\ endpoints[endpoints[id].peer].node = to}

\* The event schedule_partition_resets schedules.
partition_reset(from, to) ==
    /\ resets[from][to] > 0
    /\ resets' = [resets EXCEPT ![from][to] = @ - 1]
    /\ endpoints' = IF is_cut(from, to) THEN reset_connections(endpoints, between(from, to))
                    ELSE endpoints
    /\ UNCHANGED <<listeners, cuts, accepts, up, faults, brokerVars, next_correlation, histories>>

cut(from, to) ==
    /\ "cut" \in Faults
    /\ ~is_cut(from, to)
    /\ resets[from][to] < 2
    /\ faults < MaxFaults
    /\ faults' = faults + 1
    /\ cuts' = cuts \cup {<<from, to>>}
    /\ resets' = [resets EXCEPT ![from][to] = @ + 1]
    /\ UNCHANGED <<endpoints, listeners, accepts, up, brokerVars, next_correlation, histories>>

heal(from, to) ==
    /\ is_cut(from, to)
    /\ resets[from][to] = 0 \/ "blip" \in Faults
    /\ cuts' = cuts \ {<<from, to>>}
    /\ UNCHANGED <<endpoints, listeners, accepts, resets, up, faults, brokerVars, next_correlation,
                   histories>>

\* Simulation::crash_node, as far as the network goes.
crash_node(n) ==
    /\ "crash" \in Faults
    /\ n \in up
    /\ faults < MaxFaults
    /\ faults' = faults + 1
    /\ up' = up \ {n}
    /\ endpoints' = kill_node_connections(endpoints, n)
    /\ listeners' = [listeners EXCEPT ![n] = kInvalidConn]
    /\ streams' = [c \in {d \in DOMAIN streams : endpoints[d].node # n} |-> streams[c]]
    /\ peer_conns' = [peer_conns EXCEPT ![n] = [p \in Node |-> kInvalidConn]]
    /\ UNCHANGED <<cuts, accepts, resets, next_correlation, histories>>

\* SimNetwork::listen and watch, at the end of Broker::start.
listening(eps, n) ==
    Append(eps, [new_endpoint(n) EXCEPT !.listener = TRUE, !.interest = "read"])

start(n) ==
    /\ n \notin up
    /\ Len(endpoints) < MaxEndpoints
    /\ up' = up \cup {n}
    /\ endpoints' = listening(endpoints, n)
    /\ listeners' = [listeners EXCEPT ![n] = Len(endpoints) + 1]
    /\ UNCHANGED <<cuts, accepts, resets, faults, brokerVars, next_correlation, histories>>

-----------------------------------------------------------------------------

Init ==
    /\ \E order \in {SetToSeq(Node)} :
          /\ endpoints = [k \in 1..Len(order) |-> Head(listening(<<>>, order[k]))]
          /\ listeners = [n \in Node |-> CHOOSE k \in 1..Len(order) : order[k] = n]
    /\ cuts = {}
    /\ accepts = {}
    /\ resets = [n \in Node |-> [p \in Node |-> 0]]
    /\ up = Node
    /\ faults = 0
    /\ streams = <<>>
    /\ peer_conns = [n \in Node |-> [p \in Node |-> kInvalidConn]]
    /\ next_correlation = [n \in Node |-> 0]
    /\ written = [id \in 1..MaxEndpoints |-> <<>>]
    /\ consumed = [id \in 1..MaxEndpoints |-> <<>>]
    /\ carried = [id \in 1..MaxEndpoints |-> {}]
    /\ received = {}
    /\ protocol_errors = FALSE

Next ==
    \/ \E s \in Sends : send_raft(s[1], s[2])
    \/ \E id \in Ids(endpoints) : poll(id)
    \/ \E id \in Ids(endpoints) : deliver(id)
    \/ \E a \in accepts : accept_event(a[1], a[2])
    \/ \E n, p \in Node : n # p /\ partition_reset(n, p)
    \/ \E n, p \in Node : n # p /\ cut(n, p)
    \/ \E n, p \in Node : heal(n, p)
    \/ \E n \in Node : crash_node(n)
    \/ \E n \in Node : start(n)

\* A loop polls each of its connections in every round, and the scheduler runs every
\* event in the end.  Nothing obliges Raft to send, or a fault to happen or to end.
Fairness ==
    /\ \A id \in 1..MaxEndpoints :
          /\ WF_vars(id \in Ids(endpoints) /\ poll(id))
          /\ WF_vars(id \in Ids(endpoints) /\ deliver(id))
          /\ WF_vars(\E a \in accepts : a[2] = id /\ accept_event(a[1], a[2]))
    /\ \A n, p \in Node : WF_vars(n # p /\ partition_reset(n, p))

Spec == Init /\ [][Next]_vars /\ Fairness

-----------------------------------------------------------------------------
(* Properties.                                                             *)

\* A connection is a byte stream: what has been read from it is the beginning of what
\* was written to it ("TCP does not hand a reader byte 40 before byte 39, and it does
\* not silently lose byte 41 and deliver byte 42", sim_network.h).
StreamIsPrefix ==
    \A id \in Ids(endpoints) :
        endpoints[id].peer # kInvalidConn =>
            IsPrefix(consumed[id] \o endpoints[id].rx, written[endpoints[id].peer])

\* No broker ever loses its place in a stream, however writes split frames and
\* connections come and go.
NoProtocolError == ~protocol_errors

\* The connection kept for a peer is one the broker still has a stream for, from itself
\* to that peer, and no two peers share it: forget() leaves no stale handle behind.
PeerConnIsLive ==
    \A n, p \in Node :
        LET conn == peer_conns[n][p]
        IN  conn # kInvalidConn =>
                /\ conn \in DOMAIN streams
                /\ endpoints[conn].node = n
                /\ endpoints[endpoints[conn].peer].node = p

\* Output that waits for room is waited for: poll() will say when there is some, or
\* that the connection is gone.
ParkedIsWatched ==
    \A conn \in DOMAIN streams :
        streams[conn].out # <<>> => endpoints[conn].interest = "readwrite"

\* The network calls no handler of a node that is down, whatever was scheduled when it
\* crashed ("a use-after-free that only fires under fault injection").
NoDanglingHandler ==
    \A id \in Ids(endpoints) : endpoints[id].interest # "none" => endpoints[id].node \in up

\* Once the reset of a cut link has happened, no connection crosses it in either
\* direction, old or new, until it heals.
CutSevers ==
    \A n, p \in Node :
        is_cut(n, p) /\ resets[n][p] = 0 => between(n, p) = {} /\ between(p, n) = {}

\* The frames a broker still counts on a connection to deliver.
Underway ==
    UNION {carried[id] \ received : id \in DOMAIN streams}

\* A frame handed to a connection arrives, or its sender finds out that the connection
\* is gone and will open another: nothing is lost silently for good, whatever is cut,
\* full or crashed on the way.  (With finitely many frames, none waits forever exactly
\* if, again and again, none is waiting.)
NoSilentLoss == []<>(Underway = {})

\* With an asymmetric cut the other direction goes on: a connection is only severed by
\* a cut of the direction its frames travel ("with an asymmetric cut A->B, A's outgoing
\* stream to B is dead while B's to A still works", broker.cpp).
OtherDirectionWorks ==
    [][\A n, p \in Node :
          (peer_conns[n][p] # kInvalidConn /\ up' = up
           /\ endpoints'[peer_conns[n][p]].reset /\ ~endpoints[peer_conns[n][p]].reset)
          => is_cut(n, p)]_vars

=============================================================================
