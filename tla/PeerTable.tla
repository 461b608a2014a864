------------------------------ MODULE PeerTable ------------------------------
(***************************************************************************)
(* The table of connections of one RatsClient: peers_ and its two indexes   *)
(* by socket and by address, the counter of validated peers, the kernel's   *)
(* file descriptors, and every thread that touches them: the io thread      *)
(* (accept, read, handshake, disconnect), the threads of connect_to_peer,   *)
(* the management thread (handshake timeouts, reconnection), a user thread  *)
(* in disconnect_peer / disconnect_peer_by_id, and stop().                  *)
(*                                                                         *)
(* One step is one critical section of peers_mutex_ or of reconnect_mutex_, *)
(* or one call on a socket made outside of both.                            *)
(*                                                                         *)
(* Abstractions.  A connection is a member of Conns, used once.  Its         *)
(* temporary peer id is the connection itself.  An address is a peer (the    *)
(* address it listens on) or a connection (the ephemeral address an          *)
(* incoming connection comes from).  Every peer announces its listen port    *)
(* and its own id.  Due times of the reconnection queue and the age of a     *)
(* handshake are nondeterministic.                                          *)
(***************************************************************************)
EXTENDS Integers, FiniteSets

CONSTANTS
    PeerIds,          \* identities (and listen addresses) of remote peers
    Conns,            \* TCP connections, each of them opened at most once
    Fds,              \* file descriptors
    Users,            \* threads of the application that disconnect peers
    None,
    MaxPeers,         \* max_peers_
    ReconnectEnabled, \* reconnect_config_.enabled
    ReuseFds          \* the kernel hands out a closed descriptor again

Ids == PeerIds \cup Conns
Addrs == PeerIds \cup Conns

States == {"PENDING", "SENT", "NOISE_PENDING", "COMPLETED"}
Record == [fd : Fds, addr : Addrs, out : BOOLEAN, state : States, conn : Conns]

ASSUME TableAssumption ==
    /\ IsFiniteSet(PeerIds) /\ IsFiniteSet(Conns)
    /\ PeerIds \cap Conns = {}
    /\ None \notin Ids \cup Fds \cup Record
    /\ MaxPeers \in Nat
    /\ ReconnectEnabled \in BOOLEAN /\ ReuseFds \in BOOLEAN

VARIABLES
    peers,      \* peers_: id -> record or None
    sockIdx,    \* socket_to_peer_id_
    addrIdx,    \* address_to_peer_id_
    count,      \* validated_peer_count_
    fds,        \* the connection a descriptor denotes in the kernel, or None
    used,       \* descriptors that were handed out
    dial,       \* connection -> state of its connect_to_peer thread
    io,         \* the io thread
    user,       \* Users -> control state
    manual,     \* manual_disconnect_peers_
    queue,      \* keys of reconnect_queue_
    due,        \* process_reconnect_queue's local copy of the due entries
    told,       \* peers the callbacks, GossipSub and storage hold for connected
    phase       \* progress of stop()

vars == <<peers, sockIdx, addrIdx, count, fds, used, dial, io, user, manual,
          queue, due, told, phase>>
table == <<peers, sockIdx, addrIdx, count>>
reconnect == <<manual, queue>>

\* ev: descriptors still to be served of the last poll; bad: to_disconnect.
IoIdle == [pc |-> "poll", fd |-> None, id |-> None, ev |-> {}, bad |-> {}]
UserIdle == [pc |-> "idle", fd |-> None, id |-> None]
DialFree == [pc |-> "unused", fd |-> None, to |-> None]

Init ==
    /\ peers = [i \in Ids |-> None]
    /\ sockIdx = [f \in Fds |-> None]
    /\ addrIdx = [a \in Addrs |-> None]
    /\ count = 0
    /\ fds = [f \in Fds |-> None]
    /\ used = {}
    /\ dial = [c \in Conns |-> DialFree]
    /\ io = IoIdle
    /\ user = [u \in Users |-> UserIdle]
    /\ manual = {} /\ queue = {} /\ due = {} /\ told = {}
    /\ phase = "running"

running == phase = "running"

-----------------------------------------------------------------------------
(* Operations on the table; the callers hold peers_mutex_. *)

find_peer_by_socket(f) ==
    IF sockIdx[f] # None /\ peers[sockIdx[f]] # None THEN sockIdx[f] ELSE None

is_peer_limit_reached == count >= MaxPeers

add_peer(id, rec) ==
    /\ peers' = [peers EXCEPT ![id] = rec]
    /\ sockIdx' = [sockIdx EXCEPT ![rec.fd] = id]
    /\ addrIdx' = [addrIdx EXCEPT ![rec.addr] = id]
    /\ UNCHANGED count

\* (Mutant: the counter is not taken down with a validated peer.)
remove_peer_keeps_count(id) ==
    /\ peers' = [peers EXCEPT ![id] = None]
    /\ sockIdx' = [sockIdx EXCEPT ![peers[id].fd] = None]
    /\ addrIdx' = [addrIdx EXCEPT ![peers[id].addr] = None]
    /\ UNCHANGED count

remove_peer_by_id(id) ==
    /\ peers' = [peers EXCEPT ![id] = None]
    /\ sockIdx' = [sockIdx EXCEPT ![peers[id].fd] = None]
    /\ addrIdx' = [addrIdx EXCEPT ![peers[id].addr] = None]
    /\ count' = IF peers[id].state = "COMPLETED" THEN count - 1 ELSE count

\* remove_peer(socket): nothing happens when the socket is unknown.
remove_peer(f) ==
    IF find_peer_by_socket(f) = None THEN UNCHANGED table
    ELSE remove_peer_by_id(find_peer_by_socket(f))

\* The kernel closes whatever connection the descriptor denotes by now.
close_socket(f) == fds' = [fds EXCEPT ![f] = None]

\* A descriptor the kernel may hand out for a new connection.
Available(f) == fds[f] = None /\ (ReuseFds \/ f \notin used)

-----------------------------------------------------------------------------
(* The io thread. *)

Step(pc) == io' = [io EXCEPT !.pc = pc]

\* Served: go on with the events of this poll; Doomed: should_close.
Served == io' = [IoIdle EXCEPT !.pc = "events", !.ev = io.ev, !.bad = io.bad]
Doomed == io' = [IoIdle EXCEPT !.pc = "events", !.ev = io.ev,
                               !.bad = io.bad \cup {io.fd}]

\* accept_incoming: the address of the new connection is an ephemeral one.
accept_incoming(c, f) ==
    /\ io.pc = "poll" /\ running
    /\ dial[c].pc = "unused"
    /\ Available(f)
    /\ ~is_peer_limit_reached
    /\ addrIdx[c] = None
    /\ add_peer(c, [fd |-> f, addr |-> c, out |-> FALSE, state |-> "PENDING",
                    conn |-> c])
    /\ fds' = [fds EXCEPT ![f] = c]
    /\ used' = used \cup {f}
    /\ \E p \in PeerIds :
         dial' = [dial EXCEPT ![c] = [pc |-> "done", fd |-> f, to |-> p]]
    /\ UNCHANGED <<io, user, reconnect, due, told, phase>>

\* poller_->wait: events on sockets that are registered.
io_poll(ev) ==
    /\ io.pc = "poll" /\ running
    /\ ev # {} /\ \A f \in ev : fds[f] # None /\ sockIdx[f] # None
    /\ io' = [io EXCEPT !.pc = "events", !.ev = ev]
    /\ UNCHANGED <<table, fds, used, dial, user, reconnect, due, told, phase>>

\* PollErr or PollHup.
io_hangup(f) ==
    /\ io.pc = "events" /\ f \in io.ev
    /\ io' = [io EXCEPT !.ev = @ \ {f}, !.bad = @ \cup {f}]
    /\ UNCHANGED <<table, fds, used, dial, user, reconnect, due, told, phase>>

\* handle_readable, phase 1, under the lock: the frames are taken from the
\* record the socket belongs to now.  A frame before the handshake is a
\* handshake, processed later without the lock, or is ignored; one in
\* NOISE_PENDING advances or ends the Noise handshake on the spot; one in
\* COMPLETED is dispatched.  Any of them can be bad or the stream can be closed.
handle_readable(f) ==
    LET id == find_peer_by_socket(f)
        next == [io EXCEPT !.ev = @ \ {f}, !.fd = f]
        close == [io EXCEPT !.ev = @ \ {f}, !.bad = @ \cup {f}]
    IN  /\ io.pc = "events" /\ f \in io.ev
        /\ \/ io' = close /\ UNCHANGED table
           \/ id # None /\ io' = [io EXCEPT !.ev = @ \ {f}] /\ UNCHANGED table
           \/ /\ id # None /\ peers[id].state \in {"PENDING", "SENT"}
              /\ io' = [next EXCEPT !.pc = "handshake",
                                    !.id = dial[peers[id].conn].to]
              /\ UNCHANGED table
           \/ /\ id # None /\ peers[id].state = "NOISE_PENDING"
              /\ peers' = [peers EXCEPT ![id].state = "COMPLETED"]
              /\ count' = count + 1
              /\ io' = [next EXCEPT !.pc = "completed", !.id = id]
              /\ UNCHANGED <<sockIdx, addrIdx>>
        /\ UNCHANGED <<fds, used, dial, user, reconnect, due, told, phase>>

\* The record of socket f takes the identity p of the handshake and, when it
\* is an incoming connection, the address p listens on.
rekey(old, p, st) ==
    LET rec == peers[old]
        addr == IF rec.out THEN rec.addr ELSE p
    IN  /\ peers' = [peers EXCEPT ![old] = None,
                                  ![p] = [rec EXCEPT !.addr = addr, !.state = st]]
        /\ sockIdx' = [sockIdx EXCEPT ![rec.fd] = p]
        /\ addrIdx' = [[addrIdx EXCEPT ![rec.addr] = None] EXCEPT ![addr] = p]
        /\ count' = IF st = "COMPLETED" THEN count + 1 ELSE count

\* (Mutant: the entry of the old address stays behind.)
handle_handshake_keeps_address ==
    LET id == find_peer_by_socket(io.fd)
        rec == peers[id]
    IN  /\ io.pc = "handshake"
        /\ id # None /\ peers[io.id] = None
        /\ \E st \in {"NOISE_PENDING", "COMPLETED"} :
             /\ peers' = [peers EXCEPT ![id] = None,
                    ![io.id] = [rec EXCEPT !.addr = io.id, !.state = st]]
             /\ count' = IF st = "COMPLETED" THEN count + 1 ELSE count
        /\ sockIdx' = [sockIdx EXCEPT ![rec.fd] = io.id]
        /\ addrIdx' = [addrIdx EXCEPT ![io.id] = io.id]
        /\ Step("after_handshake")
        /\ UNCHANGED <<fds, used, dial, user, reconnect, due, told, phase>>

\* handle_handshake_message, under the lock: looks the socket up again.  The
\* handshake can be malformed; the record can be gone; the peer can be known
\* already.  Encryption, agreed or not, decides the next state.
handle_handshake_message ==
    LET id == find_peer_by_socket(io.fd)
    IN  /\ io.pc = "handshake"
        /\ \/ Doomed /\ UNCHANGED table
           \/ /\ id # None /\ peers[io.id] = None
              /\ peers[id].state \in {"PENDING", "SENT"}
              /\ \E st \in {"NOISE_PENDING", "COMPLETED"} : rekey(id, io.id, st)
              /\ Step("after_handshake")
        /\ UNCHANGED <<fds, used, dial, user, reconnect, due, told, phase>>


\* handle_readable, phase 2, after the handshake: looks the socket up a third
\* time, then starts Noise or reports the completed handshake.
after_handshake ==
    LET id == find_peer_by_socket(io.fd)
    IN  /\ io.pc = "after_handshake"
        /\ \/ id = None /\ Doomed
           \/ id # None /\ peers[id].state = "COMPLETED"
              /\ io' = [io EXCEPT !.pc = "completed", !.id = id]
           \/ id # None /\ peers[id].state # "COMPLETED" /\ Served
        /\ UNCHANGED <<table, fds, used, dial, user, reconnect, due, told, phase>>

handle_post_handshake_completion ==
    /\ io.pc = "completed"
    /\ queue' = queue \ {io.id}
    /\ told' = told \cup {io.id}
    /\ Served
    /\ UNCHANGED <<table, fds, used, dial, user, manual, due, phase>>

\* The events are served, to_disconnect is worked off, the loop goes back to
\* poll or leaves when running_ is false.
io_next ==
    /\ io.pc = "events" /\ io.ev = {}
    /\ \/ \E f \in io.bad :
            io' = [io EXCEPT !.pc = "disconnect", !.fd = f, !.bad = @ \ {f}]
       \/ io.bad = {} /\ io' = IoIdle
    /\ UNCHANGED <<table, fds, used, dial, user, reconnect, due, told, phase>>

\* handle_disconnect: lookup; an unknown socket is closed all the same.
disconnect_lookup ==
    LET id == find_peer_by_socket(io.fd)
    IN  /\ io.pc = "disconnect"
        /\ \/ id = None /\ close_socket(io.fd) /\ Served
           \/ /\ id # None
              /\ io' = [io EXCEPT !.pc = "disc_remove",
                          !.id = IF peers[id].state = "COMPLETED" THEN id ELSE None]
              /\ UNCHANGED fds
        /\ UNCHANGED <<table, used, dial, user, reconnect, due, told, phase>>


disconnect_remove ==
    /\ io.pc = "disc_remove"
    /\ remove_peer(io.fd)
    /\ Step("disc_close")
    /\ UNCHANGED <<fds, used, dial, user, reconnect, due, told, phase>>

\* (Mutant: was_validated is not consulted.)
disconnect_close_always ==
    /\ io.pc = "disc_close"
    /\ close_socket(io.fd)
    /\ Step("disc_notify")
    /\ UNCHANGED <<table, used, dial, user, reconnect, due, told, phase>>

disconnect_close ==
    /\ io.pc = "disc_close"
    /\ close_socket(io.fd)
    /\ IF io.id = None THEN Served ELSE Step("disc_notify")
    /\ UNCHANGED <<table, used, dial, user, reconnect, due, told, phase>>

\* The callbacks, then the first critical section of schedule_reconnect.
disconnect_notify ==
    /\ io.pc = "disc_notify"
    /\ told' = told \ {io.id}
    /\ IF running /\ ReconnectEnabled
       THEN /\ manual' = manual \ {io.id}
            /\ IF io.id \in manual \cup queue THEN Served ELSE Step("disc_queue")
       ELSE Served /\ UNCHANGED manual
    /\ UNCHANGED <<table, fds, used, dial, user, queue, due, phase>>

\* The second critical section of schedule_reconnect.
schedule_reconnect ==
    /\ io.pc = "disc_queue"
    /\ queue' = queue \cup {io.id}
    /\ Served
    /\ UNCHANGED <<table, fds, used, dial, user, manual, due, told, phase>>

IoStep ==
    \/ \E c \in Conns, f \in Fds : accept_incoming(c, f)
    \/ \E ev \in SUBSET Fds : io_poll(ev)
    \/ \E f \in Fds : io_hangup(f) \/ handle_readable(f)
    \/ handle_handshake_message \/ after_handshake
    \/ handle_post_handshake_completion
    \/ io_next \/ disconnect_lookup \/ disconnect_remove \/ disconnect_close
    \/ disconnect_notify \/ schedule_reconnect

-----------------------------------------------------------------------------
(* connect_to_peer and its managed thread. *)

\* The checks of the caller; true is returned once the thread is started.
connect_to_peer(c, p) ==
    /\ running
    /\ dial[c].pc = "unused"
    /\ addrIdx[p] = None
    /\ ~is_peer_limit_reached
    /\ dial' = [dial EXCEPT ![c] = [pc |-> "dialing", fd |-> None, to |-> p]]

Connect(c, p) ==
    /\ connect_to_peer(c, p)
    /\ UNCHANGED <<table, fds, used, io, user, reconnect, due, told, phase>>

\* create_tcp_client succeeds with descriptor f, or fails.
dial_tcp(c) ==
    /\ dial[c].pc = "dialing"
    /\ \/ \E f \in Fds :
            /\ Available(f)
            /\ fds' = [fds EXCEPT ![f] = c]
            /\ used' = used \cup {f}
            /\ dial' = [dial EXCEPT ![c].pc = "connected", ![c].fd = f]
       \/ dial' = [dial EXCEPT ![c].pc = "done"] /\ UNCHANGED <<fds, used>>
    /\ UNCHANGED <<table, io, user, reconnect, due, told, phase>>

\* The locked part of the thread: the checks are repeated, the record added.
dial_add(c) ==
    /\ dial[c].pc = "connected"
    /\ dial' = [dial EXCEPT ![c].pc = "done"]
    /\ IF is_peer_limit_reached \/ addrIdx[dial[c].to] # None
       THEN close_socket(dial[c].fd) /\ UNCHANGED table
       ELSE /\ add_peer(c, [fd |-> dial[c].fd, addr |-> dial[c].to, out |-> TRUE,
                            state |-> "SENT", conn |-> c])
            /\ UNCHANGED fds
    /\ UNCHANGED <<used, io, user, reconnect, due, told, phase>>

-----------------------------------------------------------------------------
(* The management thread. *)

\* (Mutant: a connection in the Noise handshake never times out.)
check_timeouts_not_noise(id) ==
    /\ phase # "stopped"
    /\ peers[id] # None /\ peers[id].state \in {"PENDING", "SENT"}
    /\ remove_peer_by_id(id)
    /\ close_socket(peers[id].fd)
    /\ UNCHANGED <<used, dial, io, user, reconnect, due, told, phase>>

\* One peer whose handshake is too old is removed and closed under the lock.
check_handshake_timeouts(id) ==
    /\ phase # "stopped"
    /\ peers[id] # None /\ peers[id].state # "COMPLETED"
    /\ remove_peer_by_id(id)
    /\ close_socket(peers[id].fd)
    /\ UNCHANGED <<used, dial, io, user, reconnect, due, told, phase>>

\* process_reconnect_queue copies the due entries under reconnect_mutex_.
reconnect_collect ==
    /\ running /\ ReconnectEnabled /\ due = {}
    /\ due' \in SUBSET queue \ {{}}
    /\ UNCHANGED <<table, fds, used, dial, io, user, reconnect, told, phase>>

\* One entry of the copy: connected already; limit reached; dialled (the entry
\* is removed as soon as the thread runs); refused (kept, or its last attempt).
reconnect_attempt(p) ==
    /\ p \in due
    /\ due' = due \ {p}
    /\ \/ addrIdx[p] # None /\ queue' = queue \ {p} /\ UNCHANGED dial
       \/ addrIdx[p] = None /\ is_peer_limit_reached /\ UNCHANGED <<queue, dial>>
       \/ /\ queue' = queue \ {p}
          /\ \E c \in Conns : connect_to_peer(c, p)
       \/ ~running /\ queue' \in {queue, queue \ {p}} /\ UNCHANGED dial
    /\ UNCHANGED <<table, fds, used, io, user, manual, told, phase>>

MgmtStep ==
    \/ \E id \in Ids : check_handshake_timeouts(id)
    \/ reconnect_collect
    \/ \E p \in PeerIds : reconnect_attempt(p)

-----------------------------------------------------------------------------
(* A user thread in disconnect_peer(socket) or disconnect_peer_by_id(id). *)

mark_manual_disconnect(p) ==
    /\ manual' = manual \cup {p}
    /\ queue' = queue \ {p}

\* get_peer_id(socket), for a socket the application knows.
disconnect_peer(u, f) ==
    /\ user[u].pc = "idle" /\ running /\ sockIdx[f] \in PeerIds
    /\ user' = [user EXCEPT ![u] = [pc |-> "mark", fd |-> f, id |-> sockIdx[f]]]
    /\ UNCHANGED <<table, fds, used, dial, io, reconnect, due, told, phase>>

disconnect_mark(u) ==
    /\ user[u].pc = "mark"
    /\ mark_manual_disconnect(user[u].id)
    /\ user' = [user EXCEPT ![u].pc = "remove"]
    /\ UNCHANGED <<table, fds, used, dial, io, due, told, phase>>

disconnect_peer_by_id(u, p) ==
    /\ user[u].pc = "idle" /\ running
    /\ mark_manual_disconnect(p)
    /\ user' = [user EXCEPT ![u] = [pc |-> "lookup", fd |-> None, id |-> p]]
    /\ UNCHANGED <<table, fds, used, dial, io, due, told, phase>>

get_peer_socket_by_id(u) ==
    /\ user[u].pc = "lookup"
    /\ user' = [user EXCEPT ![u] =
                  IF peers[user[u].id] = None THEN UserIdle
                  ELSE [pc |-> "remove", fd |-> peers[user[u].id].fd,
                        id |-> user[u].id]]
    /\ UNCHANGED <<table, fds, used, dial, io, reconnect, due, told, phase>>

user_remove(u) ==
    /\ user[u].pc = "remove"
    /\ remove_peer(user[u].fd)
    /\ user' = [user EXCEPT ![u].pc = "close"]
    /\ UNCHANGED <<fds, used, dial, io, reconnect, due, told, phase>>

user_close(u) ==
    /\ user[u].pc = "close"
    /\ close_socket(user[u].fd)
    /\ user' = [user EXCEPT ![u] = UserIdle]
    /\ UNCHANGED <<table, used, dial, io, reconnect, due, told, phase>>

UserStep(u) ==
    \/ \E f \in Fds : disconnect_peer(u, f)
    \/ \E p \in PeerIds : disconnect_peer_by_id(u, p)
    \/ disconnect_mark(u) \/ get_peer_socket_by_id(u)
    \/ user_remove(u) \/ user_close(u)

-----------------------------------------------------------------------------
(* stop(). *)

\* shutdown_all_threads: running_ = false.
stop_flag ==
    /\ running
    /\ phase' = "flagged"
    /\ UNCHANGED <<table, fds, used, dial, io, user, reconnect, due, told>>

stop_clear_queue ==
    /\ phase = "flagged"
    /\ queue' = {} /\ manual' = {}
    /\ phase' = "queue_cleared"
    /\ UNCHANGED <<table, fds, used, dial, io, user, due, told>>

\* Every connection of the table is closed and the table emptied, under the lock.
stop_clear_table ==
    /\ phase = "queue_cleared"
    /\ fds' = [f \in Fds |-> IF \E i \in Ids : peers[i] # None /\ peers[i].fd = f
                             THEN None ELSE fds[f]]
    /\ peers' = [i \in Ids |-> None]
    /\ sockIdx' = [f \in Fds |-> None]
    /\ addrIdx' = [a \in Addrs |-> None]
    /\ count' = 0
    /\ phase' = "table_cleared"
    /\ UNCHANGED <<used, dial, io, user, reconnect, due, told>>

\* The io and management threads, then the managed threads, are joined.
stop_join ==
    /\ phase = "table_cleared"
    /\ io.pc = "poll" /\ due = {}
    /\ \A c \in Conns : dial[c].pc \in {"unused", "done"}
    /\ phase' = "stopped"
    /\ UNCHANGED <<table, fds, used, dial, io, user, reconnect, due, told>>

StopStep == stop_flag \/ stop_clear_queue \/ stop_clear_table \/ stop_join

-----------------------------------------------------------------------------
DialStep ==
    \/ \E c \in Conns, p \in PeerIds : Connect(c, p)
    \/ \E c \in Conns : dial_tcp(c) \/ dial_add(c)

Next == IoStep \/ DialStep \/ MgmtStep \/ (\E u \in Users : UserStep(u)) \/ StopStep

Spec == Init /\ [][Next]_vars

\* The management thread's loop calls check_handshake_timeouts every round.
FairSpec == Spec /\ \A id \in Ids : WF_vars(check_handshake_timeouts(id))

-----------------------------------------------------------------------------
(* Properties. *)

\* Every variable has its type: records, indexes, control states.
TypeOK ==
    /\ peers \in [Ids -> Record \cup {None}]
    /\ sockIdx \in [Fds -> Ids \cup {None}]
    /\ addrIdx \in [Addrs -> Ids \cup {None}]
    /\ count \in Int
    /\ fds \in [Fds -> Conns \cup {None}]
    /\ used \subseteq Fds
    /\ dial \in [Conns -> [pc : {"unused", "dialing", "connected", "done"},
                           fd : Fds \cup {None}, to : PeerIds \cup {None}]]
    /\ io \in [pc : {"poll", "events", "handshake", "after_handshake", "completed",
                     "disconnect", "disc_remove", "disc_close", "disc_notify",
                     "disc_queue"},
               fd : Fds \cup {None}, id : Ids \cup {None},
               ev : SUBSET Fds, bad : SUBSET Fds]
    /\ user \in [Users -> [pc : {"idle", "mark", "lookup", "remove", "close"},
                           fd : Fds \cup {None}, id : Ids \cup {None}]]
    /\ manual \subseteq Ids /\ queue \subseteq Ids /\ due \subseteq Ids
    /\ told \subseteq Ids
    /\ phase \in {"running", "flagged", "queue_cleared", "table_cleared", "stopped"}

Completed == {i \in Ids : peers[i] # None /\ peers[i].state = "COMPLETED"}

\* validated_peer_count_, which is_peer_limit_reached and every peer limit
\* read, is the number of peers whose handshake is completed, whatever thread
\* completed, removed, timed out or disconnected them.
CountIsCompleted == count = Cardinality(Completed)

\* An entry of the socket or of the address index leads to a record, and to one
\* that has this socket or address: no lookup ever finds a peer that is gone,
\* and no dial is refused on behalf of one.
IndexesPointToRecords ==
    /\ \A f \in Fds : sockIdx[f] # None =>
         peers[sockIdx[f]] # None /\ peers[sockIdx[f]].fd = f
    /\ \A a \in Addrs : addrIdx[a] # None =>
         peers[addrIdx[a]] # None /\ peers[addrIdx[a]].addr = a


\* Every record is found by its address, as duplicate detection needs.
AddressIndexComplete ==
    \A i \in Ids : peers[i] # None => addrIdx[peers[i].addr] # None

\* A handshake that arrives on one connection never touches the completed
\* connection of a peer: the duplicate is the one that goes.
DuplicateLeavesExisting ==
    [][io.pc = "handshake" /\ io'.pc # "handshake" =>
         \A i \in Completed : peers'[i] = peers[i]]_vars

\* The number of validated peers never exceeds max_peers_.
PeerLimitKept == count <= MaxPeers

\* Once stop() has returned no connection is left open or in the table.
StopClosesAll ==
    phase = "stopped" => /\ \A f \in Fds : fds[f] = None
                         /\ \A i \in Ids : peers[i] = None

\* A peer the user disconnected is not waiting in the reconnection queue.
ManualNotQueued == manual \cap queue = {}


\* A connection that has not finished its handshake finishes it or is removed;
\* it does not stay half open (unless stop() begins, which clears the table).
HandshakeSettles ==
    \A id \in Ids :
        peers[id] # None /\ peers[id].state # "COMPLETED"
            ~> (peers[id] = None \/ peers[id].state = "COMPLETED" \/ ~running)

=============================================================================
