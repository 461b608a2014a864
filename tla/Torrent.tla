------------------------------ MODULE Torrent ------------------------------
(***************************************************************************)
(* The download of one torrent: the piece picker, the requests to the peers,  *)
(* the writes and the hash checks that the disk threads do, and the pieces    *)
(* that are complete.                                                       *)
(*                                                                         *)
(* The network thread handles messages, mostly without Torrent::mutex_; the   *)
(* tick thread holds the mutex while it visits all connections (visiting);    *)
(* the callbacks of the disk threads take it.  A step is one call of the      *)
(* picker, which has its own mutex, or one section under Torrent::mutex_.     *)
(* Which new piece is picked (rarest, next, random) is left open, and so are   *)
(* availability counts, priorities and uploads.                             *)
(***************************************************************************)
EXTENDS Integers, Sequences, FiniteSets, FiniteSetsExt, Functions

CONSTANTS
    Peers,
    Sizes,             \* number of blocks of each piece
    MaxPending,        \* max_pending_requests_ of a connection
    MaxDownloading,    \* max_downloading_pieces_
    HighMark, LowMark, \* write jobs at which DiskIO asks for a pause, and ends it
    Fields,            \* bound: sets of pieces a peer may have at first
    MaxEvents,         \* bound: early bitfields, chokes, rejections, lost connections, bad blocks,
                       \* failing disk operations, pauses and stops
    None

ASSUME TorrentAssumption ==
    /\ Sizes \in Seq(Nat \ {0}) /\ MaxPending \in Nat \ {0} /\ MaxDownloading \in Nat \ {0}
    /\ LowMark \in Nat /\ HighMark \in Nat /\ LowMark < HighMark /\ MaxEvents \in Nat
    /\ Fields \subseteq SUBSET DOMAIN Sizes /\ None \notin Peers

Pieces == DOMAIN Sizes
BlocksOf(i) == {<<i, n>> : n \in 1..Sizes[i]}
Blocks == UNION {BlocksOf(i) : i \in Pieces}

VARIABLES
    state,          \* Torrent::state_
    have,           \* pieces marked have (picker_ and have_pieces_)
    downloading,    \* downloading_: the pieces begun, in order
    blk,            \* state of a block; a peer if Requested from it
    endgame,        \* in_endgame_
    conn,           \* connections: out, in, or lost (closed, not yet removed)
    bits,           \* peer_pieces_ of a connection
    choking, interested,   \* peer_choking_, am_interested_
    pending,        \* pending_requests_ of a connection
    asked,          \* requests a peer has and will answer
    visiting, ticking,     \* tick(): connections to visit, the one that may be asked
    asking,         \* network thread: the connection being asked after an unchoke
    writes,         \* write jobs
    pressure,       \* under_pressure_
    hashing,        \* hash jobs of a piece that are queued
    verdicts,       \* results of hash jobs on their way to the torrent
    disk,           \* contents of the blocks on disk
    reports,        \* on_complete_ calls
    failed, refused, spoiled, raced,  \* history: blocks whose write failed, pieces
                    \* whose hash was wrong, blocks written again after they were
                    \* finished, blocks asked of a peer that was choking
    events

picker == <<have, downloading, blk, endgame>>
wire == <<conn, bits, choking, interested, pending, asked>>
threads == <<visiting, ticking, asking>>
io == <<writes, pressure, hashing, verdicts, disk>>
history == <<failed, refused, spoiled, raced>>
vars == <<state, picker, wire, threads, io, reports, history, events>>

Unlocked == visiting = {}
NetIdle == asking = None
Event == events < MaxEvents /\ events' = events + 1
Active == state \in {"Downloading", "Seeding"}
Live(p) == conn[p] = "in" /\ NetIdle

Init ==
    /\ state = "Downloading" /\ have = {} /\ downloading = <<>>
    /\ blk = [b \in Blocks |-> "none"] /\ endgame = FALSE
    /\ conn = [p \in Peers |-> "out"] /\ bits = [p \in Peers |-> {}]
    /\ choking = [p \in Peers |-> TRUE] /\ interested = [p \in Peers |-> FALSE]
    /\ pending = [p \in Peers |-> {}] /\ asked = [p \in Peers |-> {}]
    /\ visiting = {} /\ ticking = None /\ asking = None
    /\ writes = {} /\ pressure = FALSE
    /\ hashing = [i \in Pieces |-> 0] /\ verdicts = [i \in Pieces |-> <<>>]
    /\ disk = [b \in Blocks |-> "empty"] /\ reports = 0
    /\ failed = {} /\ refused = {} /\ spoiled = {} /\ raced = {} /\ events = 0

-----------------------------------------------------------------------------
(* The picker. *)

\* pick_pieces, first part: what p may be asked for of a piece already begun.
Pickable(p, i) ==
    {b \in BlocksOf(i) : \/ blk[b] = "none"
                         \/ endgame /\ blk[b] \in Peers \ {p}}

Resumable(p) ==
    {k \in DOMAIN downloading : downloading[k] \in bits[p] /\ Pickable(p, downloading[k]) # {}}

FirstBlock(B) == CHOOSE b \in B : \A c \in B : b[2] <= c[2]

\* What pick_rarest, pick_sequential and pick_random choose from.
Candidates(p) == (bits[p] \ have) \ Range(downloading)

\* pick_pieces with num_blocks = 1.
pick_pieces(p) ==
    IF Resumable(p) # {}
    THEN {FirstBlock(Pickable(p, downloading[Min(Resumable(p))]))}
    ELSE IF ~endgame /\ Len(downloading) >= MaxDownloading THEN {}
    ELSE {<<i, 1>> : i \in Candidates(p)}


cancel_peer_requests(p) ==
    blk' = [b \in Blocks |-> IF blk[b] = p THEN "none" ELSE blk[b]]

get_or_create_downloading(i) ==
    IF i \in Range(downloading) THEN downloading ELSE Append(downloading, i)

mark_writing(b) ==
    blk' = IF b[1] \in Range(downloading) THEN [blk EXCEPT ![b] = "writing"] ELSE blk

\* abort_download; who = None stands for nullptr.
abort_download(b, who) ==
    blk' = [blk EXCEPT ![b] = IF @ \in Peers /\ who \in {None, @} THEN "none" ELSE @]

\* check_endgame; with so few pieces the threshold of 10 always holds.
check_endgame(rest) == endgame \/ rest <= Len(Sizes) \div 20 \/ rest <= 10

\* mark_finished; a complete piece goes to verify_piece_hash.
mark_finished(b) ==
    LET now == [blk EXCEPT ![b] = "finished"]
        all == \A c \in BlocksOf(b[1]) : now[c] = "finished"
    IN  /\ blk' = now
        /\ endgame' = IF all THEN check_endgame(Len(Sizes) - Cardinality(have)) ELSE endgame
        /\ hashing' = IF all THEN [hashing EXCEPT ![b[1]] = @ + 1] ELSE hashing

-----------------------------------------------------------------------------
(* Requests: request_blocks_from_peer, on two threads. *)

can_request(p, pend) == ~choking[p] /\ Cardinality(pend) < MaxPending

\* DiskIO::can_accept_write, with hysteresis; jobs that were taken do not count.
Queued == Cardinality({j \in writes : j.stage = "queued"})
can_accept_write == IF pressure THEN Queued <= LowMark ELSE Queued < HighMark

\* One round of the loop: a block is picked, marked and asked for.  A peer that
\* is choking may ignore the request; a lost one does not see it.
request(p, b) ==
    /\ blk' = [blk EXCEPT ![b] = p]
    /\ downloading' = get_or_create_downloading(b[1])
    /\ pending' = [pending EXCEPT ![p] = @ \cup {b}]
    /\ \E seen \in IF conn[p] # "in" THEN {{}} ELSE IF choking[p] THEN {{}, {b}} ELSE {{b}} :
          asked' = [asked EXCEPT ![p] = @ \cup seen]
    /\ raced' = IF choking[p] THEN raced \cup {b} ELSE raced
    /\ UNCHANGED <<have, endgame>>

\* tick: nothing is done unless the torrent is active.
tick ==
    /\ Unlocked /\ Active
    /\ visiting' = {p \in Peers : conn[p] # "out"} /\ visiting' # {}
    /\ UNCHANGED <<state, picker, wire, ticking, asking, io, reports, history, events>>

\* request_blocks_from_peer on the tick thread, up to the first pick.
tick_check(p) ==
    /\ p \in visiting /\ ticking = None
    /\ IF choking[p] THEN visiting' = visiting \ {p} /\ UNCHANGED <<ticking, pressure>>
       ELSE /\ pressure' = ~can_accept_write
            /\ IF can_accept_write /\ can_request(p, pending[p])
               THEN ticking' = p /\ UNCHANGED visiting
               ELSE visiting' = visiting \ {p} /\ UNCHANGED ticking
    /\ UNCHANGED <<state, picker, wire, asking, writes, hashing, verdicts, disk, reports,
                   history, events>>

\* The pick, by then perhaps of a peer that is choking; the loop goes on.
tick_pick(p) ==
    /\ ticking = p
    /\ \/ /\ pick_pieces(p) = {}
          /\ visiting' = visiting \ {p} /\ ticking' = None
          /\ UNCHANGED <<picker, pending, asked, raced>>
       \/ \E b \in pick_pieces(p) :
             /\ request(p, b)
             /\ IF can_request(p, pending[p] \cup {b}) THEN UNCHANGED <<visiting, ticking>>
                ELSE visiting' = visiting \ {p} /\ ticking' = None
    /\ UNCHANGED <<state, conn, bits, choking, interested, asking, io, reports,
                   failed, refused, spoiled, events>>

\* The same loop on the network thread, after an unchoke and without the mutex.
unchoke_pick(p) ==
    /\ asking = p
    /\ \/ /\ pick_pieces(p) = {}
          /\ asking' = None /\ UNCHANGED <<picker, pending, asked, raced>>
       \/ \E b \in pick_pieces(p) :
             /\ request(p, b)
             /\ asking' = IF can_request(p, pending[p] \cup {b}) THEN p ELSE None
    /\ UNCHANGED <<state, conn, bits, choking, interested, visiting, ticking, io, reports,
                   failed, refused, spoiled, events>>

-----------------------------------------------------------------------------
(* Connections and messages, on the network thread. *)

Interesting(S) == ~(S \subseteq have)

\* add_connection, with the Bitfield or HaveAll of the peer: if that came in one
\* read with the handshake, no callback was set and nobody says interested.
add_connection(p, S, early) ==
    /\ conn[p] = "out" /\ NetIdle /\ Unlocked /\ state # "Stopped"
    /\ conn' = [conn EXCEPT ![p] = "in"]
    /\ bits' = [bits EXCEPT ![p] = S]
    /\ choking' = [choking EXCEPT ![p] = TRUE]
    /\ interested' = [interested EXCEPT ![p] = ~early /\ Interesting(S)]
    /\ pending' = [pending EXCEPT ![p] = {}]
    /\ IF early THEN Event ELSE UNCHANGED events
    /\ UNCHANGED <<state, picker, asked, threads, io, reports, history>>

\* Have.
on_have(p, i) ==
    /\ Live(p) /\ i \notin bits[p]
    /\ bits' = [bits EXCEPT ![p] = @ \cup {i}]
    /\ interested' = [interested EXCEPT ![p] = @ \/ i \notin have]
    /\ UNCHANGED <<state, picker, conn, choking, pending, asked, threads, io, reports,
                   history, events>>

\* Unchoke: peers unchoke who is interested.
on_unchoke(p) ==
    /\ Live(p) /\ choking[p] /\ interested[p]
    /\ choking' = [choking EXCEPT ![p] = FALSE]
    /\ pressure' = ~can_accept_write
    /\ asking' = IF can_accept_write /\ Cardinality(pending[p]) < MaxPending THEN p ELSE None
    /\ UNCHANGED <<state, picker, conn, bits, interested, pending, asked, visiting, ticking,
                   writes, hashing, verdicts, disk, reports, history, events>>

\* (Mutant: a choke does not give the requests back.)
on_choke_keeps(p) ==
    /\ Live(p) /\ ~choking[p] /\ Event
    /\ choking' = [choking EXCEPT ![p] = TRUE]
    /\ \E rest \in {{}, asked[p]} : asked' = [asked EXCEPT ![p] = rest]
    /\ UNCHANGED <<state, picker, conn, bits, interested, pending, threads, io, reports, history>>

\* Choke: the peer drops the requests it has, or still answers them.
\* pending_requests_ keeps them.
on_choke(p) ==
    /\ Live(p) /\ ~choking[p] /\ Event
    /\ choking' = [choking EXCEPT ![p] = TRUE]
    /\ cancel_peer_requests(p)
    /\ \E rest \in {{}, asked[p]} : asked' = [asked EXCEPT ![p] = rest]
    /\ UNCHANGED <<state, have, downloading, endgame, conn, bits, interested, pending, threads,
                   io, reports, history>>

\* RejectRequest; pending_requests_ keeps the request.
on_reject(p, b) ==
    /\ Live(p) /\ b \in asked[p] /\ Event
    /\ asked' = [asked EXCEPT ![p] = @ \ {b}]
    /\ IF b[1] \in Range(downloading) THEN abort_download(b, p) ELSE UNCHANGED blk
    /\ UNCHANGED <<state, have, downloading, endgame, conn, bits, choking, interested, pending,
                   threads, io, reports, history>>

\* Piece: on_piece_received with mark_writing and write_block_to_disk.  Whether
\* the block was asked for, or is finished, or its piece complete, is not asked.
on_piece_received(p, b, data) ==
    /\ Live(p) /\ Unlocked /\ b \in asked[p]
    /\ IF data = "bad" THEN Event ELSE UNCHANGED events
    /\ asked' = [asked EXCEPT ![p] = @ \ {b}]
    /\ pending' = [pending EXCEPT ![p] = @ \ {b}]
    /\ mark_writing(b)
    /\ writes' = writes \cup {[block |-> b, data |-> data, from |-> p, stage |-> "queued"]}
    /\ UNCHANGED <<state, have, downloading, endgame, conn, bits, choking, interested, threads,
                   pressure, hashing, verdicts, disk, reports, history>>

\* close_connection_internal: the socket is closed; the torrent is told later and
\* asks the peer until then.
close_connection(p) ==
    /\ Live(p) /\ Event
    /\ conn' = [conn EXCEPT ![p] = "lost"]
    /\ asked' = [asked EXCEPT ![p] = {}]
    /\ UNCHANGED <<state, picker, bits, choking, interested, pending, threads, io, reports, history>>

Forget(P) ==
    /\ conn' = [p \in Peers |-> IF p \in P THEN "out" ELSE conn[p]]
    /\ bits' = [p \in Peers |-> IF p \in P THEN {} ELSE bits[p]]
    /\ choking' = [p \in Peers |-> p \in P \/ choking[p]]
    /\ interested' = [p \in Peers |-> p \notin P /\ interested[p]]
    /\ pending' = [p \in Peers |-> IF p \in P THEN {} ELSE pending[p]]
    /\ asked' = [p \in Peers |-> IF p \in P THEN {} ELSE asked[p]]

\* remove_connection.
remove_connection(p) ==
    /\ conn[p] = "lost" /\ NetIdle /\ Unlocked
    /\ cancel_peer_requests(p) /\ Forget({p})
    /\ UNCHANGED <<state, have, downloading, endgame, threads, io, reports, history, events>>

-----------------------------------------------------------------------------
(* The disk threads and their callbacks. *)

\* execute_write_block.
execute_write_block(j, ok) ==
    /\ j \in writes /\ j.stage = "queued"
    /\ IF ok THEN /\ disk' = [disk EXCEPT ![j.block] = j.data]
                  /\ spoiled' = IF disk[j.block] = "empty" THEN spoiled
                                ELSE spoiled \cup {j.block}
                  /\ UNCHANGED events
       ELSE Event /\ UNCHANGED <<disk, spoiled>>
    /\ writes' = (writes \ {j}) \cup {[j EXCEPT !.stage = IF ok THEN "written" ELSE "failed"]}
    /\ UNCHANGED <<state, picker, wire, threads, pressure, hashing, verdicts, reports,
                   failed, refused, raced>>

\* Callback of write_block_to_disk.
on_written(j) ==
    /\ j \in writes /\ j.stage # "queued" /\ Unlocked
    /\ writes' = writes \ {j}
    /\ IF j.block[1] \notin Range(downloading) THEN UNCHANGED <<blk, endgame, hashing, failed>>
       ELSE IF j.stage = "written" THEN mark_finished(j.block) /\ UNCHANGED failed
       ELSE /\ abort_download(j.block, None) /\ failed' = failed \cup {j.block}
            /\ UNCHANGED <<endgame, hashing>>
    /\ UNCHANGED <<state, have, downloading, wire, threads, pressure, verdicts, disk, reports,
                   refused, spoiled, raced, events>>

Good(i) == \A b \in BlocksOf(i) : disk[b] = "good"

\* execute_hash_piece, and the comparison with the expected hash.
execute_hash_piece(i) ==
    /\ hashing[i] > 0
    /\ hashing' = [hashing EXCEPT ![i] = @ - 1]
    /\ verdicts' = [verdicts EXCEPT ![i] = Append(@, Good(i))]
    /\ UNCHANGED <<state, picker, wire, threads, writes, pressure, disk, reports, history, events>>

\* execute_hash_piece when the files cannot be read.
execute_hash_fails(i) ==
    /\ hashing[i] > 0 /\ Event
    /\ hashing' = [hashing EXCEPT ![i] = @ - 1]
    /\ verdicts' = [verdicts EXCEPT ![i] = Append(@, FALSE)]
    /\ UNCHANGED <<state, picker, wire, threads, writes, pressure, disk, reports, history>>

\* mark_have, with remove_downloading.
mark_have(i) ==
    /\ have' = have \cup {i}
    /\ downloading' = SelectSeq(downloading, LAMBDA x : x # i)
    /\ blk' = [b \in Blocks |-> IF b[1] = i THEN "none" ELSE blk[b]]

\* The download is complete; stop() has removed the callbacks.
complete ==
    /\ state' = "Seeding"
    /\ reports' = IF state = "Stopped" THEN reports ELSE reports + 1

\* (Mutant: a piece counts whatever its hash.)
on_piece_verified_any(i) ==
    /\ verdicts[i] # <<>> /\ Unlocked
    /\ verdicts' = [verdicts EXCEPT ![i] = Tail(@)]
    /\ mark_have(i) /\ UNCHANGED refused
    /\ IF have \cup {i} = Pieces THEN complete
       ELSE UNCHANGED <<state, reports>>
    /\ UNCHANGED <<endgame, wire, threads, writes, pressure, hashing, disk, failed, spoiled,
                   raced, events>>

\* on_piece_verified; a wrong hash changes nothing.
on_piece_verified(i) ==
    /\ verdicts[i] # <<>> /\ Unlocked
    /\ verdicts' = [verdicts EXCEPT ![i] = Tail(@)]
    /\ IF Head(verdicts[i])
       THEN /\ mark_have(i) /\ UNCHANGED refused
            /\ IF have \cup {i} = Pieces THEN complete
               ELSE UNCHANGED <<state, reports>>
       ELSE refused' = refused \cup {i} /\ UNCHANGED <<state, have, downloading, blk, reports>>
    /\ UNCHANGED <<endgame, wire, threads, writes, pressure, hashing, disk, failed, spoiled,
                   raced, events>>

-----------------------------------------------------------------------------
(* The user. *)

Quiet == UNCHANGED <<have, downloading, endgame, threads, io, reports, history>>

pause ==
    /\ Unlocked /\ Active /\ Event
    /\ state' = "Paused" /\ UNCHANGED <<blk, wire>> /\ Quiet

resume ==
    /\ Unlocked /\ state = "Paused"
    /\ state' = IF have = Pieces THEN "Seeding" ELSE "Downloading"
    /\ UNCHANGED <<blk, wire, events>> /\ Quiet

\* stop: every connection is closed and its requests cancelled.
stop ==
    /\ Unlocked /\ state # "Stopped" /\ Event
    /\ state' = "Stopped"
    /\ blk' = [b \in Blocks |-> IF blk[b] \in Peers THEN "none" ELSE blk[b]]
    /\ Forget(Peers) /\ Quiet

Next ==
    \/ tick \/ pause \/ resume \/ stop
    \/ \E p \in Peers :
        \/ tick_check(p) \/ tick_pick(p) \/ unchoke_pick(p)
        \/ \E S \in Fields, early \in BOOLEAN : add_connection(p, S, early)
        \/ \E i \in Pieces : on_have(p, i)
        \/ on_unchoke(p) \/ on_choke(p) \/ close_connection(p) \/ remove_connection(p)
        \/ \E b \in Blocks : on_reject(p, b) \/ \E d \in {"good", "bad"} : on_piece_received(p, b, d)
    \/ \E j \in writes : on_written(j) \/ \E ok \in BOOLEAN : execute_write_block(j, ok)
    \/ \E i \in Pieces : execute_hash_piece(i) \/ execute_hash_fails(i) \/ on_piece_verified(i)

Spec == Init /\ [][Next]_vars

-----------------------------------------------------------------------------
(* Properties. *)

Jobs == [block : Blocks, data : {"good", "bad"}, from : Peers,
         stage : {"queued", "written", "failed"}]

\* Type invariant.  A piece is begun once, a complete one is not being downloaded,
\* and the blocks of the others are untouched.
TypeOK ==
    /\ state \in {"Downloading", "Seeding", "Paused", "Stopped"}
    /\ have \subseteq Pieces /\ downloading \in Seq(Pieces \ have)
    /\ \A k, l \in DOMAIN downloading : downloading[k] = downloading[l] => k = l
    /\ blk \in [Blocks -> {"none", "writing", "finished"} \cup Peers]
    /\ \A b \in Blocks : b[1] \notin Range(downloading) => blk[b] = "none"
    /\ endgame \in BOOLEAN /\ conn \in [Peers -> {"out", "in", "lost"}]
    /\ bits \in [Peers -> SUBSET Pieces]
    /\ choking \in [Peers -> BOOLEAN] /\ interested \in [Peers -> BOOLEAN]
    /\ pending \in [Peers -> SUBSET Blocks] /\ asked \in [Peers -> SUBSET Blocks]
    /\ visiting \subseteq Peers /\ ticking \in visiting \cup {None} /\ asking \in Peers \cup {None}
    /\ writes \subseteq Jobs /\ pressure \in BOOLEAN
    /\ hashing \in [Pieces -> Nat] /\ verdicts \in [Pieces -> Seq(BOOLEAN)]
    /\ disk \in [Blocks -> {"empty", "good", "bad"}] /\ reports \in Nat
    /\ failed \cup spoiled \cup raced \subseteq Blocks /\ refused \subseteq Pieces
    /\ events \in 0..MaxEvents

\* A block that is Requested is requested from a connection that the torrent
\* still has, whatever the tick thread, the network thread and a closing socket
\* do to each other: remove_connection leaves no request behind.
RequestsHaveConnection ==
    state # "Stopped" => \A b \in Blocks : blk[b] \in Peers => conn[blk[b]] # "out"


\* A piece the torrent has, and offers to others, has the right data on disk,
\* except for blocks that came again and were written over.
HaveIsGood ==
    \A i \in have : \A b \in BlocksOf(i) : b \in spoiled \/ disk[b] = "good"

\* The torrent seeds when it has every piece and only then; having every piece it
\* has left Downloading.
SeedsWhenComplete ==
    /\ state = "Seeding" => have = Pieces
    /\ state = "Downloading" => have # Pieces

\* Requests that a peer will not answer, in a pipeline that is full of them.
Clogged(p) == Cardinality(pending[p] \ asked[p]) >= MaxPending

\* What the code does not recover from: a failed write, a wrong hash, a request to
\* a peer that was choking by then, a pipeline full of dropped requests.
Stuck ==
    \/ \E b \in failed : blk[b] = "writing"
    \/ refused \ have # {}
    \/ \E b \in raced : blk[b] \in Peers /\ b \notin asked[blk[b]]
    \/ \E p \in Peers : Clogged(p)

Serves(p) == conn[p] = "in" /\ ~choking[p] /\ bits[p] = Pieces /\ Active

Idle ==
    /\ Unlocked /\ NetIdle /\ writes = {}
    /\ \A i \in Pieces : hashing[i] = 0 /\ verdicts[i] = <<>>
    /\ \A p \in Peers : asked[p] = {} /\ conn[p] # "lost"

\* The download does not stall: when a peer that has everything lets us ask, every
\* answer is in and every job done, then the torrent is complete or the next tick
\* asks for a block, unless it is stuck for one of the reasons above.  Chokes,
\* rejections, lost connections, duplicates, bad blocks and pauses do not stop it.
NeverStalls ==
    \A p \in Peers :
        Serves(p) /\ Idle /\ have # Pieces /\ ~Stuck
            => can_request(p, pending[p]) /\ pick_pieces(p) # {}

\* A block whose write failed is free to be asked for again.
FailedWriteReopens ==
    \A b \in failed : blk[b] = "writing" => \E j \in writes : j.block = b

\* A piece whose hash was wrong is downloaded again.
WrongHashReopens ==
    \A i \in refused \ have : Idle => \E b \in BlocksOf(i) : blk[b] # "finished"

\* The completion of the download is reported once (on_complete_).
ReportedOnce == reports <= 1

\* A stopped torrent stays stopped until start() (which is not modelled).
StoppedStays == [][state = "Stopped" => state' = "Stopped"]_vars

\* What a connection counts as pending is a request the peer still has.
PendingIsAsked == \A p \in Peers : conn[p] = "in" => pending[p] \subseteq asked[p]

\* A peer with pieces the torrent lacks is told so.
InterestedInSources == \A p \in Peers : conn[p] = "in" /\ Interesting(bits[p]) => interested[p]

\* Data that was verified stays.
VerifiedStays == \A i \in have : Good(i)
=============================================================================
