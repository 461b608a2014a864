-------------------------- MODULE PeerTableProofs --------------------------
(***************************************************************************)
(* Proofs about PeerTable, for any number of peers, connections,            *)
(* descriptors and user threads, with and without descriptor reuse:         *)
(*                                                                         *)
(*    TypeCorrect       Spec => []TypeOK                                    *)
(*    CounterExact      Spec => []CountIsCompleted                          *)
(*    NoDanglingIndex   Spec => []IndexesPointToRecords                     *)
(*                                                                         *)
(* The inductive invariant splits in what concerns the table alone          *)
(* (TableInv), the types of the threads' variables (RestType), and what     *)
(* ties the two together (Link).  A record under a temporary id is never    *)
(* validated (TempUnfinished) and the temporary id of a connection that is  *)
(* still to be added is free (Link); without these, add_peer could          *)
(* overwrite a counted record.                                              *)
(***************************************************************************)
EXTENDS PeerTable, FiniteSetTheorems, TLAPS

TableType ==
    /\ peers \in [Ids -> Record \cup {None}]
    /\ sockIdx \in [Fds -> Ids \cup {None}]
    /\ addrIdx \in [Addrs -> Ids \cup {None}]
    /\ count \in Int

TempUnfinished ==
    \A c \in Conns : peers[c] # None => peers[c].state \in {"PENDING", "SENT"}

TableInv == TableType /\ TempUnfinished /\ IndexesPointToRecords /\ CountIsCompleted

IoType ==
    /\ io \in [pc : {"poll", "events", "handshake", "after_handshake", "completed",
                     "disconnect", "disc_remove", "disc_close", "disc_notify",
                     "disc_queue"},
               fd : Fds \cup {None}, id : Ids \cup {None},
               ev : SUBSET Fds, bad : SUBSET Fds]
    /\ io.pc \notin {"poll", "events"} => io.fd \in Fds
    /\ io.pc = "handshake" => io.id \in PeerIds
    /\ io.pc \in {"completed", "disc_notify", "disc_queue"} => io.id \in Ids

DialType ==
    /\ dial \in [Conns -> [pc : {"unused", "dialing", "connected", "done"},
                           fd : Fds \cup {None}, to : PeerIds \cup {None}]]
    /\ \A c \in Conns : dial[c].pc # "unused" => dial[c].to \in PeerIds
    /\ \A c \in Conns : dial[c].pc = "connected" => dial[c].fd \in Fds

UserType ==
    /\ user \in [Users -> [pc : {"idle", "mark", "lookup", "remove", "close"},
                           fd : Fds \cup {None}, id : Ids \cup {None}]]
    /\ \A u \in Users : user[u].pc \in {"mark", "lookup"} => user[u].id \in Ids
    /\ \A u \in Users : user[u].pc \in {"mark", "remove", "close"} => user[u].fd \in Fds

SetType ==
    /\ manual \subseteq Ids /\ queue \subseteq Ids /\ due \subseteq Ids
    /\ told \subseteq Ids /\ used \subseteq Fds
    /\ fds \in [Fds -> Conns \cup {None}]
    /\ phase \in {"running", "flagged", "queue_cleared", "table_cleared", "stopped"}

RestType == IoType /\ DialType /\ UserType /\ SetType

Link ==
    /\ \A c \in Conns : dial[c].pc # "done" => peers[c] = None
    /\ \A i \in Ids : peers[i] # None => dial[peers[i].conn].to \in PeerIds

IInv == TableInv /\ RestType /\ Link

-----------------------------------------------------------------------------
(* The table operations. *)

\* The counter follows the set of completed peers one member at a time.
LEMMA CountStep ==
    ASSUME CountIsCompleted, count \in Int, NEW x \in Ids,
           \/ Completed' = Completed /\ count' = count
           \/ x \notin Completed /\ Completed' = Completed \cup {x} /\ count' = count + 1
           \/ x \in Completed /\ Completed' = Completed \ {x} /\ count' = count - 1
    PROVE  CountIsCompleted'
<1>1. IsFiniteSet(Completed)
  <2>1. IsFiniteSet(Ids)
    BY TableAssumption, FS_Union DEF Ids
  <2> QED
    BY <2>1, FS_Subset DEF Completed
<1>2. Cardinality(Completed) \in Nat
  BY <1>1, FS_CardinalityType
<1>3. CASE Completed' = Completed /\ count' = count
  BY <1>3 DEF CountIsCompleted
<1>4. CASE x \notin Completed /\ Completed' = Completed \cup {x} /\ count' = count + 1
  BY <1>1, <1>4, FS_AddElement DEF CountIsCompleted
<1>5. CASE x \in Completed /\ Completed' = Completed \ {x} /\ count' = count - 1
  BY <1>1, <1>2, <1>5, FS_RemoveElement DEF CountIsCompleted
<1> QED
  BY <1>3, <1>4, <1>5

\* add_peer under a free temporary id.
LEMMA AddKeeps ==
    ASSUME TableInv, NEW c \in Conns, NEW rec \in Record,
           rec.state \in {"PENDING", "SENT"}, peers[c] = None, add_peer(c, rec)
    PROVE  TableInv'
<1> USE TableAssumption DEF TableInv
<1>1. c \in Ids /\ rec # None /\ rec.fd \in Fds /\ rec.addr \in Addrs
  BY DEF Ids, Record
<1>2. TableType'
  BY <1>1 DEF TableType, add_peer
<1>3. TempUnfinished'
  BY <1>1 DEF TableType, TempUnfinished, add_peer, Ids
<1>4. IndexesPointToRecords'
  BY <1>1 DEF TableType, IndexesPointToRecords, add_peer
<1>5. Completed' = Completed /\ count' = count
  BY <1>1 DEF TableType, Completed, add_peer
<1>6. CountIsCompleted'
  BY <1>1, <1>5, CountStep DEF TableType
<1> QED
  BY <1>2, <1>3, <1>4, <1>6

\* remove_peer_by_id_unlocked of a peer that is there.
LEMMA RemoveKeeps ==
    ASSUME TableInv, NEW id \in Ids, peers[id] # None, remove_peer_by_id(id)
    PROVE  /\ TableInv'
           /\ peers' = [peers EXCEPT ![id] = None]
<1> USE TableAssumption DEF TableInv
<1>1. peers[id] \in Record /\ peers[id].fd \in Fds /\ peers[id].addr \in Addrs
  BY DEF TableType, Record
<1>2. TableType'
  BY <1>1 DEF TableType, remove_peer_by_id
<1>3. TempUnfinished'
  BY DEF TableType, TempUnfinished, remove_peer_by_id, Ids
<1>4. IndexesPointToRecords'
  BY <1>1 DEF TableType, IndexesPointToRecords, remove_peer_by_id
<1>5. CASE peers[id].state = "COMPLETED"
  <2>1. id \in Completed /\ Completed' = Completed \ {id} /\ count' = count - 1
    BY <1>5 DEF TableType, Completed, remove_peer_by_id
  <2> QED
    BY <1>2, <1>3, <1>4, <2>1, CountStep DEF TableType, remove_peer_by_id
<1>6. CASE peers[id].state # "COMPLETED"
  <2>1. Completed' = Completed /\ count' = count
    BY <1>6 DEF TableType, Completed, remove_peer_by_id
  <2> QED
    BY <1>2, <1>3, <1>4, <2>1, CountStep DEF TableType, remove_peer_by_id
<1> QED
  BY <1>5, <1>6

\* remove_peer(socket), whether the socket is known or not.
LEMMA RemoveSocketKeeps ==
    ASSUME TableInv, NEW f \in Fds, remove_peer(f)
    PROVE  /\ TableInv'
           /\ \A i \in Ids : peers'[i] = peers[i] \/ peers'[i] = None
<1>1. CASE find_peer_by_socket(f) = None
  <2>1. UNCHANGED table
    BY <1>1 DEF remove_peer
  <2> QED
    BY <2>1 DEF table, TableInv, TableType, TempUnfinished, IndexesPointToRecords,
                CountIsCompleted, Completed
<1>2. CASE find_peer_by_socket(f) # None
  <2> DEFINE id == find_peer_by_socket(f)
  <2>1. id \in Ids /\ peers[id] # None
    BY <1>2 DEF find_peer_by_socket, TableInv, TableType
  <2>2. remove_peer_by_id(id)
    BY <1>2 DEF remove_peer
  <2> HIDE DEF id
  <2>3. TableInv' /\ peers' = [peers EXCEPT ![id] = None]
    BY <2>1, <2>2, RemoveKeeps
  <2> QED
    BY <2>1, <2>3 DEF TableInv, TableType
<1> QED
  BY <1>1, <1>2

\* The Noise handshake of a peer ends.
LEMMA CompleteKeeps ==
    ASSUME TableInv, NEW id \in Ids, peers[id] # None,
           peers[id].state = "NOISE_PENDING",
           peers' = [peers EXCEPT ![id].state = "COMPLETED"],
           count' = count + 1, UNCHANGED <<sockIdx, addrIdx>>
    PROVE  TableInv'
<1> USE TableAssumption DEF TableInv
<1> DEFINE new == [peers[id] EXCEPT !.state = "COMPLETED"]
<1>1. peers[id] \in Record /\ new \in Record /\ new.fd = peers[id].fd
      /\ new.addr = peers[id].addr /\ new.state = "COMPLETED"
  BY DEF TableType, Record, States
<1>2. peers' = [peers EXCEPT ![id] = new] /\ new # None
  BY <1>1
<1> HIDE DEF new
<1>3. TableType'
  BY <1>1, <1>2 DEF TableType
<1>4. TempUnfinished'
  <2>1. id \notin Conns
    BY DEF TempUnfinished
  <2> QED
    BY <1>2, <2>1 DEF TempUnfinished, TableType, Ids
<1>5. IndexesPointToRecords'
  BY <1>1, <1>2 DEF IndexesPointToRecords, TableType
<1>6. id \notin Completed /\ Completed' = Completed \cup {id}
  BY <1>1, <1>2 DEF Completed, TableType
<1>7. CountIsCompleted'
  BY <1>6, CountStep DEF TableType
<1> QED
  BY <1>3, <1>4, <1>5, <1>7

\* A record moves from its temporary id to the peer's own.
LEMMA RekeyKeeps ==
    ASSUME TableInv, NEW old \in Ids, NEW p \in PeerIds, peers[old] # None,
           peers[old].state \in {"PENDING", "SENT"}, peers[p] = None,
           NEW st \in {"NOISE_PENDING", "COMPLETED"}, rekey(old, p, st)
    PROVE  /\ TableInv'
           /\ \A i \in Ids : \/ peers'[i] = peers[i] \/ peers'[i] = None
                             \/ /\ i = p
                                /\ peers'[p] # None
                                /\ peers'[p].conn = peers[old].conn
<1> USE TableAssumption DEF TableInv
<1> DEFINE rec == peers[old]
           addr == IF rec.out THEN rec.addr ELSE p
           new == [rec EXCEPT !.addr = addr, !.state = st]
<1>1. p \in Ids /\ p \notin Conns /\ p # old
  BY DEF Ids
<1>2. rec \in Record /\ rec.fd \in Fds /\ rec.addr \in Addrs /\ addr \in Addrs
  BY DEF TableType, Record, Addrs
<1>3. new \in Record /\ new.fd = rec.fd /\ new.addr = addr /\ new.state = st
      /\ new.conn = rec.conn /\ new # None
  BY <1>2 DEF Record, States
<1>4. /\ peers' = [peers EXCEPT ![old] = None, ![p] = new]
      /\ sockIdx' = [sockIdx EXCEPT ![rec.fd] = p]
      /\ addrIdx' = [[addrIdx EXCEPT ![rec.addr] = None] EXCEPT ![addr] = p]
      /\ count' = IF st = "COMPLETED" THEN count + 1 ELSE count
  BY DEF rekey
<1>5. \A i \in Ids : peers'[i] = IF i = p THEN new ELSE IF i = old THEN None ELSE peers[i]
  BY <1>1, <1>4 DEF TableType
<1> HIDE DEF new, addr
<1>6. TableType'
  BY <1>1, <1>2, <1>3, <1>4 DEF TableType
<1>7. TempUnfinished'
  BY <1>1, <1>5 DEF TempUnfinished, Ids
<1>8. IndexesPointToRecords'
  <2>1. ASSUME NEW f \in Fds, sockIdx'[f] # None
        PROVE  peers'[sockIdx'[f]] # None /\ peers'[sockIdx'[f]].fd = f
    <3>1. CASE f = rec.fd
      BY <1>1, <1>2, <1>3, <1>4, <1>5, <3>1 DEF TableType
    <3>2. CASE f # rec.fd
      BY <1>1, <1>2, <1>4, <1>5, <2>1, <3>2 DEF TableType, IndexesPointToRecords
    <3> QED
      BY <3>1, <3>2
  <2>2. ASSUME NEW a \in Addrs, addrIdx'[a] # None
        PROVE  peers'[addrIdx'[a]] # None /\ peers'[addrIdx'[a]].addr = a
    <3>1. CASE a = addr
      BY <1>1, <1>2, <1>3, <1>4, <1>5, <3>1 DEF TableType
    <3>2. CASE a # addr
      <4>1. a # rec.addr /\ addrIdx'[a] = addrIdx[a]
        BY <1>2, <1>4, <2>2, <3>2 DEF TableType
      <4> QED
        BY <1>1, <1>2, <1>5, <2>2, <4>1 DEF TableType, IndexesPointToRecords
    <3> QED
      BY <3>1, <3>2
  <2> QED
    BY <2>1, <2>2 DEF IndexesPointToRecords
<1>9. CountIsCompleted'
  <2>1. CASE st = "COMPLETED"
    <3>1. p \notin Completed /\ Completed' = Completed \cup {p} /\ count' = count + 1
      BY <1>1, <1>3, <1>4, <1>5, <2>1 DEF Completed
    <3> QED
      BY <1>1, <3>1, CountStep DEF TableType
  <2>2. CASE st # "COMPLETED"
    <3>1. Completed' = Completed /\ count' = count
      BY <1>1, <1>3, <1>4, <1>5, <2>2 DEF Completed
    <3> QED
      BY <1>1, <3>1, CountStep DEF TableType
  <2> QED
    BY <2>1, <2>2
<1> QED
  BY <1>3, <1>5, <1>6, <1>7, <1>8, <1>9

\* A step that leaves the table alone keeps what concerns the table alone.
LEMMA TableStutter ==
    ASSUME TableInv, UNCHANGED table
    PROVE  TableInv'
BY DEF table, TableInv, TableType, TempUnfinished, IndexesPointToRecords,
       CountIsCompleted, Completed

-----------------------------------------------------------------------------
(* The steps of the io thread. *)

\* Going on with the next event keeps the io thread's types.
LEMMA IoMoves ==
    ASSUME IoType, Served \/ (Doomed /\ io.fd \in Fds)
    PROVE  IoType'
<1>1. PICK b \in SUBSET Fds :
         io' = [pc |-> "events", fd |-> None, id |-> None, ev |-> io.ev, bad |-> b]
  <2>1. io.bad \in SUBSET Fds /\ io.ev \in SUBSET Fds
    BY DEF IoType
  <2>2. CASE Served
    BY <2>1, <2>2 DEF Served, IoIdle
  <2>3. CASE Doomed /\ io.fd \in Fds
    BY <2>1, <2>3 DEF Doomed, IoIdle
  <2> QED
    BY <2>2, <2>3
<1>2. io.ev \in SUBSET Fds
  BY DEF IoType
<1> QED
  BY <1>1, <1>2 DEF IoType

\* accept_incoming keeps the invariant.
LEMMA AcceptKeeps ==
    ASSUME IInv, NEW c \in Conns, NEW f \in Fds, accept_incoming(c, f)
    PROVE  IInv'
<1> USE TableAssumption DEF IInv
<1> DEFINE rec == [fd |-> f, addr |-> c, out |-> FALSE, state |-> "PENDING", conn |-> c]
<1>1. rec \in Record
  BY DEF Record, States, Addrs
<1>2. peers[c] = None /\ add_peer(c, rec)
  BY DEF accept_incoming, Link, RestType, DialType
<1>3. TableInv'
  BY <1>1, <1>2, AddKeeps
<1>4. PICK p \in PeerIds : dial' = [dial EXCEPT ![c] = [pc |-> "done", fd |-> f, to |-> p]]
  BY DEF accept_incoming
<1>5. DialType'
  BY <1>4 DEF RestType, DialType
<1>6. IoType' /\ UserType' /\ SetType'
  BY DEF accept_incoming, RestType, IoType, UserType, SetType, reconnect
<1>7. Link'
  <2>1. peers' = [peers EXCEPT ![c] = rec]
    BY <1>2 DEF add_peer
  <2>2. \A i \in Ids : peers[i] # None => peers[i].conn \in Conns
    BY DEF TableInv, TableType, Record
  <2> QED
    BY <1>4, <2>1, <2>2 DEF Link, RestType, DialType, TableInv, TableType, Ids
<1> QED
  BY <1>3, <1>5, <1>6, <1>7 DEF RestType

\* handle_readable, phase 1, keeps the invariant.
LEMMA ReadableKeeps ==
    ASSUME IInv, NEW f \in Fds, handle_readable(f)
    PROVE  IInv'
<1> USE TableAssumption DEF IInv
<1> DEFINE id == find_peer_by_socket(f)
<1>1. id # None => id \in Ids /\ peers[id] # None /\ peers[id].conn \in Conns
  BY DEF find_peer_by_socket, TableInv, TableType, Record
<1>2. DialType' /\ UserType' /\ SetType'
  BY DEF handle_readable, RestType, DialType, UserType, SetType, reconnect
<1>3. ASSUME io' = [io EXCEPT !.ev = @ \ {f}, !.bad = @ \cup {f}] \/ io' = [io EXCEPT !.ev = @ \ {f}],
             UNCHANGED table, io.pc = "events"
      PROVE  IInv'
  <2>1. IoType'
    <3>1. CASE io' = [io EXCEPT !.ev = @ \ {f}, !.bad = @ \cup {f}]
      BY <1>3, <3>1 DEF RestType, IoType
    <3>2. CASE io' = [io EXCEPT !.ev = @ \ {f}]
      BY <1>3, <3>2 DEF RestType, IoType
    <3> QED
      BY <1>3, <3>1, <3>2
  <2>2. Link'
    BY <1>3 DEF Link, table, handle_readable
  <2> QED
    BY <1>2, <1>3, <2>1, <2>2, TableStutter DEF RestType
<1>4. ASSUME id # None,
             io' = [[io EXCEPT !.ev = @ \ {f}, !.fd = f] EXCEPT !.pc = "handshake",
                                               !.id = dial[peers[id].conn].to],
             UNCHANGED table
      PROVE  IInv'
  <2>1. dial[peers[id].conn].to \in PeerIds
    BY <1>1, <1>4 DEF Link
  <2>2. IoType'
    BY <1>4, <2>1 DEF RestType, IoType, Ids
  <2>3. Link'
    BY <1>4 DEF Link, table, handle_readable
  <2> QED
    BY <1>2, <1>4, <2>2, <2>3, TableStutter DEF RestType
<1>5. ASSUME id # None, peers[id].state = "NOISE_PENDING",
             peers' = [peers EXCEPT ![id].state = "COMPLETED"], count' = count + 1,
             io' = [[io EXCEPT !.ev = @ \ {f}, !.fd = f] EXCEPT !.pc = "completed",
                                                                !.id = id],
             UNCHANGED <<sockIdx, addrIdx>>
      PROVE  IInv'
  <2>1. TableInv'
    BY <1>1, <1>5, CompleteKeeps
  <2>2. IoType'
    BY <1>1, <1>5 DEF RestType, IoType
  <2>3. \A i \in Ids : /\ peers'[i] = None <=> peers[i] = None
                       /\ peers[i] # None => peers'[i].conn = peers[i].conn
    <3>1. [peers[id] EXCEPT !.state = "COMPLETED"] \in Record
      BY <1>1, <1>5 DEF TableInv, TableType, Record, States
    <3>2. [peers[id] EXCEPT !.state = "COMPLETED"].conn = peers[id].conn
      BY <1>1, <1>5 DEF TableInv, TableType, Record
    <3> QED
      BY <1>1, <1>5, <3>1, <3>2 DEF TableInv, TableType
  <2>4. Link'
    BY <2>3 DEF Link, handle_readable, Ids
  <2> QED
    BY <1>2, <2>1, <2>2, <2>4 DEF RestType
<1> QED
  BY <1>3, <1>4, <1>5 DEF handle_readable

\* handle_handshake_message keeps the invariant.
LEMMA HandshakeKeeps ==
    ASSUME IInv, handle_handshake_message
    PROVE  IInv'
<1> USE TableAssumption DEF IInv
<1> DEFINE id == find_peer_by_socket(io.fd)
<1>1. io.pc = "handshake" /\ io.fd \in Fds /\ io.id \in PeerIds
  BY DEF handle_handshake_message, RestType, IoType
<1>2. DialType' /\ UserType' /\ SetType'
  BY DEF handle_handshake_message, RestType, DialType, UserType, SetType, reconnect
<1>3. CASE Doomed /\ UNCHANGED table
  <2>1. IoType'
    BY <1>1, <1>3, IoMoves DEF RestType
  <2>2. Link'
    BY <1>3 DEF Link, table, handle_handshake_message
  <2> QED
    BY <1>2, <1>3, <2>1, <2>2, TableStutter DEF RestType
<1>4. ASSUME id # None, peers[io.id] = None, peers[id].state \in {"PENDING", "SENT"},
             NEW st \in {"NOISE_PENDING", "COMPLETED"}, rekey(id, io.id, st),
             Step("after_handshake")
      PROVE  IInv'
  <2>1. id \in Ids /\ peers[id] # None /\ peers[id].conn \in Conns
    BY <1>1, <1>4 DEF find_peer_by_socket, TableInv, TableType, Record
  <2>2. /\ TableInv'
        /\ \A i \in Ids : \/ peers'[i] = peers[i] \/ peers'[i] = None
                          \/ /\ i = io.id
                             /\ peers'[io.id] # None
                             /\ peers'[io.id].conn = peers[id].conn
    <3> HIDE DEF id
    <3> QED
      BY <1>1, <1>4, <2>1, RekeyKeeps
  <2>3. IoType'
    BY <1>1, <1>4 DEF RestType, IoType, Step
  <2>4. Link'
    <3> HIDE DEF id
    <3>1. io.id \notin Conns /\ dial' = dial
      BY <1>1 DEF handle_handshake_message
    <3> QED
      BY <2>1, <2>2, <3>1 DEF Link, Ids
  <2> QED
    BY <1>2, <2>2, <2>3, <2>4 DEF RestType
<1> QED
  BY <1>3, <1>4 DEF handle_handshake_message

\* The steps of the io thread that neither touch the table nor the dials.
LEMMA IoQuietKeeps ==
    ASSUME IInv,
           \/ \E ev \in SUBSET Fds : io_poll(ev)
           \/ \E f \in Fds : io_hangup(f)
           \/ after_handshake \/ handle_post_handshake_completion \/ io_next
           \/ disconnect_lookup \/ disconnect_close \/ disconnect_notify
           \/ schedule_reconnect
    PROVE  IInv'
<1> USE TableAssumption DEF IInv
<1> DEFINE Quiet == UNCHANGED <<table, dial, user>>
<1>0. ASSUME Quiet, IoType', SetType' PROVE IInv'
  <2>1. DialType' /\ UserType' /\ Link'
    BY <1>0 DEF RestType, DialType, UserType, Link, table
  <2> QED
    BY <1>0, <2>1, TableStutter DEF RestType
<1> USE DEF RestType
<1>1. ASSUME NEW ev \in SUBSET Fds, io_poll(ev) PROVE IInv'
  <2>1. IoType'
    BY <1>1 DEF io_poll, IoType
  <2>2. SetType' /\ Quiet
    BY <1>1 DEF io_poll, SetType, reconnect, table
  <2> QED
    BY <1>0, <2>1, <2>2
<1>2. ASSUME NEW f \in Fds, io_hangup(f) PROVE IInv'
  <2>1. IoType'
    BY <1>2 DEF io_hangup, IoType
  <2>2. SetType' /\ Quiet
    BY <1>2 DEF io_hangup, SetType, reconnect, table
  <2> QED
    BY <1>0, <2>1, <2>2
<1>3. CASE after_handshake
  <2> DEFINE id == find_peer_by_socket(io.fd)
  <2>1. io.fd \in Fds /\ (id # None => id \in Ids)
    BY <1>3 DEF after_handshake, IoType, find_peer_by_socket, TableInv, TableType
  <2>4. IoType'
    <3>1. CASE Doomed \/ Served
      BY <2>1, <3>1, IoMoves
    <3>2. CASE id # None /\ io' = [io EXCEPT !.pc = "completed", !.id = id]
      BY <2>1, <3>2 DEF IoType
    <3> QED
      BY <1>3, <3>1, <3>2 DEF after_handshake
  <2>5. SetType' /\ Quiet
    BY <1>3 DEF after_handshake, SetType, reconnect, table
  <2> QED
    BY <1>0, <2>4, <2>5
<1>4. CASE handle_post_handshake_completion
  <2>1. IoType'
    BY <1>4, IoMoves DEF handle_post_handshake_completion
  <2>2. io.id \in Ids
    BY <1>4 DEF handle_post_handshake_completion, IoType
  <2>3. SetType' /\ Quiet
    BY <1>4, <2>2 DEF handle_post_handshake_completion, SetType, table
  <2> QED
    BY <1>0, <2>1, <2>3
<1>5. CASE io_next
  <2>1. IoType'
    <3>1. CASE io' = IoIdle
      BY <3>1 DEF IoIdle, IoType
    <3>2. ASSUME NEW f \in io.bad,
                 io' = [io EXCEPT !.pc = "disconnect", !.fd = f, !.bad = @ \ {f}]
          PROVE  IoType'
      BY <3>2 DEF IoType
    <3> QED
      BY <1>5, <3>1, <3>2 DEF io_next
  <2>2. SetType' /\ Quiet
    BY <1>5 DEF io_next, SetType, reconnect, table
  <2> QED
    BY <1>0, <2>1, <2>2
<1>6. CASE disconnect_lookup
  <2> DEFINE id == find_peer_by_socket(io.fd)
  <2>1. io.fd \in Fds /\ (id # None => id \in Ids)
    BY <1>6 DEF disconnect_lookup, IoType, find_peer_by_socket, TableInv, TableType
  <2>2. IoType'
    <3>1. CASE Served
      BY <3>1, IoMoves
    <3>2. CASE id # None /\ io' = [io EXCEPT !.pc = "disc_remove",
                 !.id = IF peers[id].state = "COMPLETED" THEN id ELSE None]
      BY <2>1, <3>2 DEF IoType
    <3> QED
      BY <1>6, <3>1, <3>2 DEF disconnect_lookup
  <2>3. SetType' /\ Quiet
    BY <1>6, <2>1 DEF disconnect_lookup, SetType, reconnect, table, close_socket
  <2> QED
    BY <1>0, <2>2, <2>3
<1>7. CASE disconnect_close
  <2>1. IoType'
    <3>1. CASE Served
      BY <3>1, IoMoves
    <3>2. CASE io.id # None /\ Step("disc_notify")
      BY <1>7, <3>2 DEF disconnect_close, Step, IoType
    <3> QED
      BY <1>7, <3>1, <3>2 DEF disconnect_close
  <2>2. SetType' /\ Quiet
    BY <1>7 DEF disconnect_close, SetType, reconnect, table, close_socket, IoType
  <2> QED
    BY <1>0, <2>1, <2>2
<1>8. CASE disconnect_notify
  <2>1. IoType'
    <3>1. CASE Served
      BY <3>1, IoMoves
    <3>2. CASE Step("disc_queue")
      BY <1>8, <3>2 DEF disconnect_notify, Step, IoType
    <3> QED
      BY <1>8, <3>1, <3>2 DEF disconnect_notify
  <2>2. SetType' /\ Quiet
    BY <1>8 DEF disconnect_notify, SetType, table
  <2> QED
    BY <1>0, <2>1, <2>2
<1>9. CASE schedule_reconnect
  <2>1. IoType' /\ io.id \in Ids
    BY <1>9, IoMoves DEF schedule_reconnect, IoType
  <2>2. SetType' /\ Quiet
    BY <1>9, <2>1 DEF schedule_reconnect, SetType, table
  <2> QED
    BY <1>0, <2>1, <2>2
<1> QED
  BY <1>1, <1>2, <1>3, <1>4, <1>5, <1>6, <1>7, <1>8, <1>9

\* handle_disconnect's removal keeps the invariant.
LEMMA DisconnectRemoveKeeps ==
    ASSUME IInv, disconnect_remove
    PROVE  IInv'
<1> USE TableAssumption DEF IInv
<1>1. io.fd \in Fds
  BY DEF disconnect_remove, RestType, IoType
<1>2. TableInv' /\ \A i \in Ids : peers'[i] = peers[i] \/ peers'[i] = None
  BY <1>1, RemoveSocketKeeps DEF disconnect_remove
<1>3. Link'
  BY <1>2 DEF Link, disconnect_remove, Ids
<1>4. IoType'
  BY DEF disconnect_remove, Step, RestType, IoType
<1>5. DialType' /\ UserType' /\ SetType'
  BY DEF disconnect_remove, RestType, DialType, UserType, SetType, reconnect
<1> QED
  BY <1>2, <1>3, <1>4, <1>5 DEF RestType

-----------------------------------------------------------------------------
(* The steps of the other threads. *)

\* A caller of connect_to_peer starts a thread for an unused connection.
LEMMA ConnectKeepsDials ==
    ASSUME IInv, NEW c \in Conns, NEW p \in PeerIds, connect_to_peer(c, p),
           UNCHANGED table
    PROVE  DialType' /\ Link' /\ TableInv'
<1> USE TableAssumption DEF IInv
<1>1. DialType'
  BY DEF connect_to_peer, RestType, DialType
<1>2. Link'
  <2>1. \A i \in Ids : peers[i] # None => peers[i].conn \in Conns
    BY DEF TableInv, TableType, Record
  <2> QED
    BY <2>1 DEF connect_to_peer, Link, table, RestType, DialType
<1> QED
  BY <1>1, <1>2, TableStutter

\* The connect threads keep the invariant.
LEMMA DialKeeps ==
    ASSUME IInv, DialStep
    PROVE  IInv'
<1> USE TableAssumption DEF IInv, RestType
<1>1. ASSUME NEW c \in Conns, NEW p \in PeerIds, Connect(c, p) PROVE IInv'
  <2>1. DialType' /\ Link' /\ TableInv'
    BY <1>1, ConnectKeepsDials DEF Connect
  <2>2. IoType' /\ UserType' /\ SetType'
    BY <1>1 DEF Connect, IoType, UserType, SetType, reconnect
  <2> QED
    BY <2>1, <2>2
<1>2. ASSUME NEW c \in Conns, dial_tcp(c) PROVE IInv'
  <2>1. dial[c].to \in PeerIds /\ dial[c].pc = "dialing"
    BY <1>2 DEF dial_tcp, DialType
  <2>2. /\ DialType'
        /\ \A d \in Conns : dial'[d].to = dial[d].to
        /\ \A d \in Conns : d # c => dial'[d] = dial[d]
    <3>1. ASSUME NEW f \in Fds, dial' = [dial EXCEPT ![c].pc = "connected", ![c].fd = f]
          PROVE  /\ DialType'
                 /\ \A d \in Conns : dial'[d].to = dial[d].to
                 /\ \A d \in Conns : d # c => dial'[d] = dial[d]
      BY <2>1, <3>1 DEF DialType
    <3>2. ASSUME dial' = [dial EXCEPT ![c].pc = "done"]
          PROVE  /\ DialType'
                 /\ \A d \in Conns : dial'[d].to = dial[d].to
                 /\ \A d \in Conns : d # c => dial'[d] = dial[d]
      BY <2>1, <3>2 DEF DialType
    <3> QED
      BY <1>2, <3>1, <3>2 DEF dial_tcp
  <2>4. TableInv' /\ peers' = peers
    BY <1>2, TableStutter DEF dial_tcp, table
  <2>5. Link'
    <3>1. \A i \in Ids : peers[i] # None => peers[i].conn \in Conns
      BY DEF TableInv, TableType, Record
    <3>2. peers[c] = None
      BY <2>1 DEF Link
    <3> QED
      BY <2>2, <2>4, <3>1, <3>2 DEF Link
  <2>6. IoType' /\ UserType' /\ SetType'
    BY <1>2 DEF dial_tcp, IoType, UserType, SetType, reconnect
  <2> QED
    BY <2>2, <2>4, <2>5, <2>6
<1>3. ASSUME NEW c \in Conns, dial_add(c) PROVE IInv'
  <2>1. /\ dial[c].pc = "connected" /\ dial[c].fd \in Fds /\ dial[c].to \in PeerIds
        /\ peers[c] = None
    BY <1>3 DEF dial_add, DialType, Link
  <2>2. dial' = [dial EXCEPT ![c].pc = "done"]
    BY <1>3 DEF dial_add
  <2>3. /\ DialType' /\ dial'[c].pc = "done"
        /\ \A d \in Conns : dial'[d].to = dial[d].to
        /\ \A d \in Conns : d # c => dial'[d] = dial[d]
    BY <2>1, <2>2 DEF DialType
  <2>4. IoType' /\ UserType' /\ SetType'
    BY <1>3, <2>1 DEF dial_add, IoType, UserType, SetType, reconnect, close_socket
  <2>5. \A i \in Ids : peers[i] # None => peers[i].conn \in Conns
    BY DEF TableInv, TableType, Record
  <2>6. CASE UNCHANGED table
    <3>1. Link'
      BY <2>1, <2>3, <2>5, <2>6 DEF Link, table
    <3> QED
      BY <2>3, <2>4, <2>6, <3>1, TableStutter
  <2> DEFINE rec == [fd |-> dial[c].fd, addr |-> dial[c].to, out |-> TRUE,
                     state |-> "SENT", conn |-> c]
  <2>7. CASE add_peer(c, rec)
    <3>1. rec \in Record
      BY <2>1 DEF Record, States, Addrs
    <3>2. TableInv'
      BY <2>1, <2>7, <3>1, AddKeeps
    <3>3. peers' = [peers EXCEPT ![c] = rec] /\ rec.conn = c
      BY <2>7 DEF add_peer
    <3>4. Link'
      <4> HIDE DEF rec
      <4> QED
        BY <2>1, <2>3, <2>5, <3>3 DEF Link, TableInv, TableType, Ids
    <3> QED
      BY <2>3, <2>4, <3>2, <3>4
  <2> QED
    BY <1>3, <2>6, <2>7 DEF dial_add
<1> QED
  BY <1>1, <1>2, <1>3 DEF DialStep

\* The management thread keeps the invariant.
LEMMA MgmtKeeps ==
    ASSUME IInv, MgmtStep
    PROVE  IInv'
<1> USE TableAssumption DEF IInv, RestType
<1>1. ASSUME NEW id \in Ids, check_handshake_timeouts(id) PROVE IInv'
  <2>1. TableInv' /\ peers' = [peers EXCEPT ![id] = None]
    BY <1>1, RemoveKeeps DEF check_handshake_timeouts
  <2>2. Link'
    BY <1>1, <2>1 DEF check_handshake_timeouts, Link, TableInv, TableType, Ids
  <2>3. peers[id].fd \in Fds
    BY <1>1 DEF check_handshake_timeouts, TableInv, TableType, Record
  <2>4. IoType' /\ DialType' /\ UserType' /\ SetType'
    BY <1>1, <2>3 DEF check_handshake_timeouts, close_socket, IoType, DialType,
                      UserType, SetType, reconnect
  <2> QED
    BY <2>1, <2>2, <2>4
<1>2. CASE reconnect_collect
  <2>1. TableInv' /\ Link'
    BY <1>2, TableStutter DEF reconnect_collect, Link, table
  <2>2. IoType' /\ DialType' /\ UserType' /\ SetType'
    BY <1>2 DEF reconnect_collect, IoType, DialType, UserType, SetType, reconnect
  <2> QED
    BY <2>1, <2>2
<1>3. ASSUME NEW p \in PeerIds, reconnect_attempt(p) PROVE IInv'
  <2>1. IoType' /\ UserType'
    BY <1>3 DEF reconnect_attempt, IoType, UserType
  <2>2. queue' \in {queue, queue \ {p}}
    BY <1>3 DEF reconnect_attempt
  <2>3. SetType'
    BY <1>3, <2>2 DEF reconnect_attempt, SetType
  <2>4. CASE UNCHANGED dial
    <3>1. TableInv' /\ Link' /\ DialType'
      BY <1>3, <2>4, TableStutter DEF reconnect_attempt, Link, table, DialType
    <3> QED
      BY <2>1, <2>3, <3>1
  <2>5. ASSUME NEW c \in Conns, connect_to_peer(c, p) PROVE IInv'
    BY <1>3, <2>1, <2>3, <2>5, ConnectKeepsDials DEF reconnect_attempt
  <2> QED
    BY <1>3, <2>4, <2>5 DEF reconnect_attempt
<1> QED
  BY <1>1, <1>2, <1>3 DEF MgmtStep

\* A user thread keeps the invariant.
LEMMA UserKeeps ==
    ASSUME IInv, NEW u \in Users, UserStep(u)
    PROVE  IInv'
<1> USE TableAssumption DEF IInv, RestType
<1>0. ASSUME UNCHANGED <<table, dial, io>>, UserType', SetType' PROVE IInv'
  <2>1. TableInv' /\ Link' /\ DialType' /\ IoType'
    BY <1>0, TableStutter DEF table, Link, DialType, IoType
  <2> QED
    BY <1>0, <2>1
<1>1. ASSUME NEW f \in Fds, disconnect_peer(u, f) PROVE IInv'
  <2>1. UserType'
    BY <1>1 DEF disconnect_peer, UserType, Ids
  <2>2. SetType' /\ UNCHANGED <<table, dial, io>>
    BY <1>1 DEF disconnect_peer, SetType, reconnect
  <2> QED
    BY <1>0, <2>1, <2>2
<1>2. ASSUME NEW p \in PeerIds, disconnect_peer_by_id(u, p) PROVE IInv'
  <2>1. UserType'
    BY <1>2 DEF disconnect_peer_by_id, UserType, Ids
  <2>2. SetType' /\ UNCHANGED <<table, dial, io>>
    BY <1>2 DEF disconnect_peer_by_id, SetType, mark_manual_disconnect, Ids
  <2> QED
    BY <1>0, <2>1, <2>2
<1>3. CASE disconnect_mark(u)
  <2>1. UserType' /\ user[u].id \in Ids
    BY <1>3 DEF disconnect_mark, UserType
  <2>2. SetType' /\ UNCHANGED <<table, dial, io>>
    BY <1>3, <2>1 DEF disconnect_mark, SetType, mark_manual_disconnect
  <2> QED
    BY <1>0, <2>1, <2>2
<1>4. CASE get_peer_socket_by_id(u)
  <2>1. user[u].id \in Ids /\ (peers[user[u].id] # None => peers[user[u].id].fd \in Fds)
    BY <1>4 DEF get_peer_socket_by_id, UserType, TableInv, TableType, Record
  <2>2. UserType'
    BY <1>4, <2>1 DEF get_peer_socket_by_id, UserType, UserIdle
  <2>3. SetType' /\ UNCHANGED <<table, dial, io>>
    BY <1>4 DEF get_peer_socket_by_id, SetType, reconnect
  <2> QED
    BY <1>0, <2>2, <2>3
<1>5. CASE user_remove(u)
  <2>1. user[u].fd \in Fds
    BY <1>5 DEF user_remove, UserType
  <2>2. TableInv' /\ \A i \in Ids : peers'[i] = peers[i] \/ peers'[i] = None
    BY <1>5, <2>1, RemoveSocketKeeps DEF user_remove
  <2>3. Link'
    BY <1>5, <2>2 DEF user_remove, Link, Ids
  <2>4. UserType'
    BY <1>5 DEF user_remove, UserType
  <2>5. IoType' /\ DialType' /\ SetType'
    BY <1>5 DEF user_remove, IoType, DialType, SetType, reconnect
  <2> QED
    BY <2>2, <2>3, <2>4, <2>5
<1>6. CASE user_close(u)
  <2>1. UserType'
    BY <1>6 DEF user_close, UserType, UserIdle
  <2>2. SetType' /\ UNCHANGED <<table, dial, io>>
    BY <1>6 DEF user_close, SetType, reconnect, close_socket
  <2> QED
    BY <1>0, <2>1, <2>2
<1> QED
  BY <1>1, <1>2, <1>3, <1>4, <1>5, <1>6 DEF UserStep

\* stop() keeps the invariant.
LEMMA StopKeeps ==
    ASSUME IInv, StopStep
    PROVE  IInv'
<1> USE TableAssumption DEF IInv, RestType
<1>1. CASE stop_clear_table
  <2>1. IoType' /\ DialType' /\ UserType' /\ SetType'
    BY <1>1 DEF stop_clear_table, IoType, DialType, UserType, SetType, reconnect
  <2>2. TableType' /\ TempUnfinished' /\ IndexesPointToRecords' /\ Link'
    BY <1>1 DEF stop_clear_table, TableType, TempUnfinished, IndexesPointToRecords,
                Link, Ids
  <2>3. CountIsCompleted'
    <3>1. Completed' = {} /\ count' = 0
      BY <1>1 DEF stop_clear_table, Completed
    <3> QED
      BY <3>1, FS_EmptySet DEF CountIsCompleted
  <2> QED
    BY <2>1, <2>2, <2>3 DEF TableInv
<1>2. CASE stop_flag \/ stop_clear_queue \/ stop_join
  <2>1. UNCHANGED <<table, dial, io, user>>
    BY <1>2 DEF stop_flag, stop_clear_queue, stop_join
  <2>2. TableInv' /\ Link' /\ IoType' /\ DialType' /\ UserType'
    BY <2>1, TableStutter DEF table, Link, IoType, DialType, UserType
  <2>3. SetType'
    BY <1>2 DEF stop_flag, stop_clear_queue, stop_join, SetType, reconnect
  <2> QED
    BY <2>2, <2>3
<1> QED
  BY <1>1, <1>2 DEF StopStep

-----------------------------------------------------------------------------
\* The initial state satisfies the invariant.
LEMMA InitIInv == Init => IInv
<1> SUFFICES ASSUME Init PROVE IInv
  OBVIOUS
<1> USE TableAssumption DEF Init
<1>1. TableType /\ TempUnfinished /\ IndexesPointToRecords /\ Link
  BY DEF TableType, TempUnfinished, IndexesPointToRecords, Link, Ids
<1>2. CountIsCompleted
  <2>1. Completed = {}
    BY DEF Completed
  <2> QED
    BY <2>1, FS_EmptySet DEF CountIsCompleted
<1>3. IoType /\ SetType
  BY DEF IoType, IoIdle, SetType
<1>4. DialType /\ UserType
  BY DEF DialType, UserType, DialFree, UserIdle
<1> QED
  BY <1>1, <1>2, <1>3, <1>4 DEF IInv, TableInv, RestType

\* Every step preserves it.
LEMMA NextIInv == IInv /\ [Next]_vars => IInv'
<1> SUFFICES ASSUME IInv, [Next]_vars PROVE IInv'
  OBVIOUS
<1>1. CASE IoStep
  BY <1>1, AcceptKeeps, ReadableKeeps, HandshakeKeeps, IoQuietKeeps,
     DisconnectRemoveKeeps DEF IoStep
<1>2. CASE DialStep
  BY <1>2, DialKeeps
<1>3. CASE MgmtStep
  BY <1>3, MgmtKeeps
<1>4. CASE \E u \in Users : UserStep(u)
  BY <1>4, UserKeeps
<1>5. CASE StopStep
  BY <1>5, StopKeeps
<1>6. CASE UNCHANGED vars
  <2>1. UNCHANGED table /\ UNCHANGED <<fds, used, dial, io, user, manual, queue,
                                       due, told, phase>>
    BY <1>6 DEF vars, table
  <2>2. TableInv'
    BY <2>1, TableStutter DEF IInv
  <2>3. Link' /\ IoType' /\ DialType' /\ UserType' /\ SetType'
    BY <2>1 DEF IInv, RestType, table, Link, IoType, DialType, UserType, SetType
  <2> QED
    BY <2>2, <2>3 DEF IInv, RestType
<1> QED
  BY <1>1, <1>2, <1>3, <1>4, <1>5, <1>6 DEF Next

\* The invariant holds in every reachable state.
LEMMA Invariance == Spec => []IInv
BY InitIInv, NextIInv, PTL DEF Spec

\* Types, in particular: no thread ever acts on a missing socket or peer id.
THEOREM TypeCorrect == Spec => []TypeOK
<1>1. IInv => TypeOK
  BY DEF IInv, TableInv, TableType, RestType, IoType, DialType, UserType, SetType,
         TypeOK
<1> QED
  BY <1>1, Invariance, PTL

\* validated_peer_count_ is the number of completed peers, with any number of
\* threads and even when descriptors are closed twice and reused.
THEOREM CounterExact == Spec => []CountIsCompleted
<1>1. IInv => CountIsCompleted
  BY DEF IInv, TableInv
<1> QED
  BY <1>1, Invariance, PTL

\* No entry of socket_to_peer_id_ or address_to_peer_id_ outlives its record.
THEOREM NoDanglingIndex == Spec => []IndexesPointToRecords
<1>1. IInv => IndexesPointToRecords
  BY DEF IInv, TableInv
<1> QED
  BY <1>1, Invariance, PTL

=============================================================================
