------------------------------- MODULE Channel -------------------------------
(***************************************************************************)
(* One connection between two RatsClients, from the first byte: the JSON    *)
(* handshake, the Noise XX handshake when both sides want encryption, the   *)
(* length-prefixed frames, the send buffer with its PollOut registration,   *)
(* the receive buffer and the two phases of handle_readable, the Noise      *)
(* cipher counters, and application threads that send at the same time.     *)
(*                                                                         *)
(* End "A" dialled (is_outgoing, Noise initiator), end "B" accepted.  One    *)
(* step is one critical section of peers_mutex_, or one piece of the work    *)
(* done outside of it (a cipher call is two: the counter is read first and   *)
(* incremented after).                                                      *)
(*                                                                         *)
(* Abstractions.  A frame is two cells on the wire, so that it may arrive    *)
(* in parts; the kernel holds at most Cap cells in each direction.  A        *)
(* sealed frame opens when its counter is the receiver's.  A critical        *)
(* section reads encryption_enabled_ once.  The peer's identity, its address *)
(* and the duplicates of it are in PeerTable.                               *)
(***************************************************************************)
EXTENDS Integers, Sequences, SequencesExt

CONSTANTS
    Sends,      \* how many messages each end sends
    Cap,        \* cells the kernel takes before EAGAIN
    MaxEvents   \* settings changed, timeouts and disconnections, together

Ends == {"A", "B"}
Other(e) == IF e = "A" THEN "B" ELSE "A"
Threads == {"io", "app"}

ASSUME ChannelAssumption ==
    /\ Sends \in [Ends -> Nat]
    /\ Cap \in Nat \ {0} /\ MaxEvents \in Nat

VARIABLES
    conn,       \* the RatsPeer of each end; state "REMOVED": not in peers_
    wire,       \* cells on the way from each end
    wants,      \* encryption_enabled_
    changed,    \* set_encryption_enabled was called
    nonce,      \* nonce_ of send_cipher and recv_cipher
    io,         \* the io thread in handle_readable / handle_disconnect
    snd,        \* threads in send_binary_to_peer_id
    sent,       \* messages given to send so far
    accepted,   \* messages of sends that returned true, in the buffer's order
    got,        \* messages read, and whether process_message was given them
    raced,      \* two threads were between encrypt_with_ad and the enqueue
    undeciphered, \* decrypt_with_ad has failed
    events

vars == <<conn, wire, wants, changed, nonce, io, snd, sent, accepted, got, raced,
          undeciphered, events>>

Hs(enc) == [kind |-> "hs", enc |-> enc, n |-> 0, m |-> 0]
Noise(i) == [kind |-> "noise", enc |-> FALSE, n |-> i, m |-> 0]
Data(m) == [kind |-> "data", enc |-> FALSE, n |-> 0, m |-> m]
Sealed(f, i) == [f EXCEPT !.enc = TRUE, !.n = i]

Frame == [kind : {"hs", "noise", "data"}, enc : BOOLEAN, n : Nat, m : Nat]
Cell == [f : Frame, last : BOOLEAN]
Cells(f) == << [f |-> f, last |-> FALSE], [f |-> f, last |-> TRUE] >>

States == {"PENDING", "SENT", "NOISE_PENDING", "COMPLETED", "REMOVED"}
Fresh == [state |-> "PENDING", hs |-> FALSE, step |-> 0, cipher |-> FALSE,
          sbuf |-> <<>>, armed |-> FALSE, rbuf |-> <<>>]
Gone == [Fresh EXCEPT !.state = "REMOVED"]
IoIdle == [pc |-> "poll", frames |-> <<>>, closed |-> FALSE]
Idle == [pc |-> "idle", cipher |-> FALSE, f |-> Data(0)]

Present(e) == conn[e].state # "REMOVED"

-----------------------------------------------------------------------------
\* enqueue_message_unlocked: one frame at the end of the buffer, PollOut armed.
enqueue_message(c, f) == [c EXCEPT !.sbuf = @ \o Cells(f), !.armed = TRUE]

\* The dialling end has its handshake in the buffer when it joins the poller.
Init ==
    /\ wants \in [Ends -> BOOLEAN] /\ changed = FALSE
    /\ conn = [e \in Ends |->
                 IF e = "A" THEN enqueue_message([Fresh EXCEPT !.state = "SENT"], Hs(wants[e]))
                 ELSE Fresh]
    /\ wire = [e \in Ends |-> <<>>]
    /\ nonce = [e \in Ends |-> [send |-> 0, recv |-> 0]]
    /\ io = [e \in Ends |-> IoIdle]
    /\ snd = [e \in Ends |-> [t \in Threads |-> Idle]]
    /\ sent = [e \in Ends |-> 0]
    /\ accepted = [e \in Ends |-> <<>>]
    /\ got = [e \in Ends |-> <<>>]
    /\ raced = [e \in Ends |-> FALSE]
    /\ undeciphered = [e \in Ends |-> FALSE]
    /\ events = 0

history == <<sent, accepted, raced>>
settings == <<wants, changed>>

-----------------------------------------------------------------------------
\* The io thread: writing.

\* handle_writable: fill the kernel; PollOut is dropped with the last byte.
handle_writable_disarms(e) ==
    LET c == conn[e]
        k == Cap - Len(wire[e])
        n == IF Len(c.sbuf) < k THEN Len(c.sbuf) ELSE k
    IN  /\ io[e].pc = "poll" /\ c.armed /\ k > 0
        /\ Present(Other(e))
        /\ wire' = [wire EXCEPT ![e] = @ \o SubSeq(c.sbuf, 1, n)]
        /\ conn' = [conn EXCEPT ![e].sbuf = SubSeq(@, n + 1, Len(@)), ![e].armed = FALSE]
        /\ UNCHANGED <<settings, nonce, io, snd, history, got, undeciphered, events>>

handle_writable_whole_chunks(e) ==
    LET c == conn[e]
        k == Cap - Len(wire[e])
        n == IF Len(c.sbuf) < k THEN Len(c.sbuf) ELSE k
    IN  /\ io[e].pc = "poll" /\ c.armed /\ k > 0
        /\ Present(Other(e))
        /\ wire' = [wire EXCEPT ![e] = @ \o SubSeq(c.sbuf, 1, n)]
        /\ conn' = [conn EXCEPT ![e].sbuf = SubSeq(@, n + 1 + (n % 2), Len(@)),
                                ![e].armed = n < Len(c.sbuf)]
        /\ UNCHANGED <<settings, nonce, io, snd, history, got, undeciphered, events>>

handle_writable(e) ==
    LET c == conn[e]
        k == Cap - Len(wire[e])
        n == IF Len(c.sbuf) < k THEN Len(c.sbuf) ELSE k
    IN  /\ io[e].pc = "poll" /\ c.armed /\ k > 0
        /\ Present(Other(e))
        /\ wire' = [wire EXCEPT ![e] = @ \o SubSeq(c.sbuf, 1, n)]
        /\ conn' = [conn EXCEPT ![e].sbuf = SubSeq(@, n + 1, Len(@)),
                                ![e].armed = n < Len(c.sbuf)]
        /\ UNCHANGED <<settings, nonce, io, snd, history, got, undeciphered, events>>

\* The other end is closed: PollErr or PollHup, or send fails.
io_hangup(e) ==
    /\ io[e].pc = "poll" /\ Present(e) /\ ~Present(Other(e))
    /\ io' = [io EXCEPT ![e].pc = "disconnect"]
    /\ UNCHANGED <<conn, wire, settings, nonce, snd, history, got, undeciphered, events>>

-----------------------------------------------------------------------------
\* The io thread: reading, first phase (under peers_mutex_).

\* handle_noise_frame: read a message, write the answer, split at the end.
handle_noise_frame(e, acc, f) ==
    LET c == acc.c
        read == c.step + 1
        writes == read = IF e = "A" THEN 2 ELSE 1
        step == IF writes THEN read + 1 ELSE read
        c1 == IF writes THEN enqueue_message(c, Noise(read)) ELSE c
    IN  IF ~c.hs \/ f.kind # "noise" \/ f.n # c.step THEN [acc EXCEPT !.bad = TRUE]
        ELSE IF step < 3 THEN [acc EXCEPT !.c = [c1 EXCEPT !.step = step]]
        ELSE [acc EXCEPT !.post = TRUE,
                         !.c = [c1 EXCEPT !.step = 0, !.hs = FALSE, !.cipher = TRUE,
                                          !.state = "COMPLETED"]]

\* A frame outside of the Noise handshake is kept with a snapshot of the state.
snapshot_before_post(acc, f) ==
    [acc EXCEPT !.frames = Append(@, [f |-> f, cipher |-> acc.c.cipher,
                                      state |-> IF acc.post THEN "NOISE_PENDING" ELSE acc.c.state])]

snapshot(acc, f) ==
    [acc EXCEPT !.frames = Append(@, [f |-> f, state |-> acc.c.state, cipher |-> acc.c.cipher])]

parse_frame(e, acc, f) ==
    IF acc.bad THEN acc
    ELSE IF acc.c.state = "NOISE_PENDING" THEN handle_noise_frame(e, acc, f)
    ELSE snapshot(acc, f)

\* The complete frames of a buffer, and the cells of the last, incomplete one.
Complete(b) == LET last(x) == x.last
                   ends == SelectSeq(b, last)
               IN  [i \in DOMAIN ends |-> ends[i].f]
Rest(b) == SubSeq(b, 2 * Len(Complete(b)) + 1, Len(b))

\* k cells arrive; a closed connection may be reset before the rest of them.
handle_readable(e, k) ==
    LET o == Other(e)
        closed == ~Present(o)
        b == conn[e].rbuf \o SubSeq(wire[o], 1, k)
        start == [c |-> [conn[e] EXCEPT !.rbuf = Rest(b)], frames |-> <<>>,
                  post |-> FALSE, bad |-> FALSE]
        parse(acc, f) == parse_frame(e, acc, f)
        end == FoldLeft(parse, start, Complete(b))
    IN  /\ io[e].pc = "poll" /\ Present(e)
        /\ k > 0 \/ closed
        /\ wire' = [wire EXCEPT ![o] = SubSeq(@, k + 1, Len(@))]
        /\ conn' = [conn EXCEPT ![e] = end.c]
        /\ io' = [io EXCEPT ![e] =
                    [pc |-> CASE end.bad \/ (closed /\ b = <<>>) -> "disconnect"
                              [] end.post -> "post"
                              [] OTHER -> "frames",
                     frames |-> end.frames, closed |-> closed]]
        /\ UNCHANGED <<settings, nonce, snd, history, got, undeciphered, events>>

-----------------------------------------------------------------------------
\* The io thread: reading, second phase (outside of peers_mutex_).

Go(e, pc) == io' = [io EXCEPT ![e].pc = pc]
Pop(e, pc) == io' = [io EXCEPT ![e].pc = pc, ![e].frames = Tail(@)]

\* A frame read before the handshake was complete, and not a handshake.
ignore_frame(e) ==
    LET pf == Head(io[e].frames)
    IN  /\ io[e].pc = "frames" /\ io[e].frames # <<>>
        /\ pf.state # "COMPLETED" /\ pf.f.kind # "hs"
        /\ got' = IF pf.f.kind = "data"
                  THEN [got EXCEPT ![e] = Append(@, [m |-> pf.f.m, kept |-> FALSE])]
                  ELSE got
        /\ Pop(e, "frames")
        /\ UNCHANGED <<conn, wire, settings, nonce, snd, history, undeciphered, events>>

\* handle_handshake_message: answer a first handshake, settle the encryption.
negotiate_by_local(e, f) == wants[e]

negotiate(e, f) == wants[e] /\ f.enc

handle_handshake_message(e) ==
    LET pf == Head(io[e].frames)
        c == conn[e]
        next == IF negotiate(e, pf.f) THEN "NOISE_PENDING" ELSE "COMPLETED"
    IN  /\ io[e].pc = "frames" /\ io[e].frames # <<>>
        /\ pf.state # "COMPLETED" /\ pf.f.kind = "hs"
        /\ \/ /\ c.state = "PENDING"
              /\ conn' = [conn EXCEPT ![e] = [enqueue_message(c, Hs(wants[e]))
                                                EXCEPT !.state = next]]
              /\ Pop(e, "after")
           \/ /\ c.state = "SENT"
              /\ conn' = [conn EXCEPT ![e].state = next]
              /\ Pop(e, "after")
           \/ /\ c.state \notin {"PENDING", "SENT"}
              /\ Pop(e, "disconnect")
              /\ UNCHANGED conn
        /\ UNCHANGED <<wire, settings, nonce, snd, history, got, undeciphered, events>>

\* The second look at the peer: start_noise_handshake_async, or the callbacks.
after_handshake(e) ==
    LET c == conn[e]
        n == [c EXCEPT !.hs = TRUE, !.step = 0]
    IN  /\ io[e].pc = "after"
        /\ \/ /\ c.state = "NOISE_PENDING"
              /\ conn' = [conn EXCEPT ![e] =
                            IF e = "A" THEN [enqueue_message(n, Noise(0)) EXCEPT !.step = 1]
                            ELSE n]
              /\ Go(e, "frames")
           \/ /\ c.state = "COMPLETED" /\ Go(e, "post")
              /\ UNCHANGED conn
           \/ /\ c.state = "REMOVED" /\ Go(e, "disconnect")
              /\ UNCHANGED conn
        /\ UNCHANGED <<wire, settings, nonce, snd, history, got, undeciphered, events>>

\* handle_post_handshake_completion is over (its sends are send_* of "io").
post_done(e) ==
    /\ io[e].pc = "post" /\ snd[e]["io"].pc = "idle"
    /\ Go(e, "frames")
    /\ UNCHANGED <<conn, wire, settings, nonce, snd, history, got, undeciphered, events>>

\* Data: decrypt_with_ad where the connection was encrypted, process_message.
process_data(e) ==
    LET pf == Head(io[e].frames)
        opens == pf.f.enc /\ pf.f.n = nonce[e].recv
        deliver == got' = IF pf.f.kind = "data"
                          THEN [got EXCEPT ![e] = Append(@, [m |-> pf.f.m, kept |-> pf.f.enc = pf.cipher])]
                          ELSE got
    IN  /\ io[e].pc = "frames" /\ io[e].frames # <<>> /\ pf.state = "COMPLETED"
        /\ \/ /\ pf.cipher /\ ~opens
              /\ undeciphered' = [undeciphered EXCEPT ![e] = TRUE]
              /\ Pop(e, "disconnect")
              /\ UNCHANGED <<got, nonce>>
           \/ /\ pf.cipher /\ opens
              /\ nonce' = [nonce EXCEPT ![e].recv = @ + 1]
              /\ deliver
              /\ Pop(e, "frames")
              /\ UNCHANGED undeciphered
           \/ /\ ~pf.cipher
              /\ deliver
              /\ Pop(e, "frames")
              /\ UNCHANGED <<undeciphered, nonce>>
        /\ UNCHANGED <<conn, wire, settings, snd, history, events>>

frames_done(e) ==
    /\ io[e].pc = "frames" /\ io[e].frames = <<>>
    /\ Go(e, IF io[e].closed THEN "disconnect" ELSE "poll")
    /\ UNCHANGED <<conn, wire, settings, nonce, snd, history, got, undeciphered, events>>

\* handle_disconnect: the peer and its buffers go, the socket is closed.
handle_disconnect(e) ==
    /\ io[e].pc = "disconnect"
    /\ conn' = [conn EXCEPT ![e] = Gone]
    /\ io' = [io EXCEPT ![e] = IoIdle]
    /\ UNCHANGED <<wire, settings, nonce, snd, history, got, undeciphered, events>>

IoStep(e) ==
    \/ handle_writable(e) \/ io_hangup(e)
    \/ \E k \in 0..Len(wire[Other(e)]) : handle_readable(e, k)
    \/ ignore_frame(e) \/ handle_handshake_message(e) \/ after_handshake(e)
    \/ post_done(e) \/ process_data(e) \/ frames_done(e) \/ handle_disconnect(e)

-----------------------------------------------------------------------------
\* send_binary_to_peer_id, by the application or by the io thread's callbacks.

\* The peer is looked up; its cipher is kept for later.
send_lookup(e, t) ==
    /\ snd[e][t].pc = "idle" /\ sent[e] < Sends[e]
    /\ t = "io" => io[e].pc = "post"
    /\ conn[e].state = "COMPLETED"
    /\ sent' = [sent EXCEPT ![e] = @ + 1]
    /\ snd' = [snd EXCEPT ![e][t] =
                 [pc |-> IF conn[e].cipher THEN "encrypt" ELSE "enqueue",
                  cipher |-> conn[e].cipher, f |-> Data(sent[e] + 1)]]
    /\ UNCHANGED <<conn, wire, settings, nonce, io, accepted, got, raced, undeciphered, events>>

\* encrypt_with_ad takes the counter, which no lock protects.
encrypt_with_ad(e, t) ==
    /\ snd[e][t].pc = "encrypt"
    /\ snd' = [snd EXCEPT ![e][t].pc = "count", ![e][t].f = Sealed(@, nonce[e].send)]
    /\ raced' = [raced EXCEPT ![e] = @ \/ \E u \in Threads \ {t} :
                    snd[e][u].pc = "count" \/ (snd[e][u].pc = "enqueue" /\ snd[e][u].cipher)]
    /\ UNCHANGED <<conn, wire, settings, nonce, io, sent, accepted, got, undeciphered, events>>

\* nonce_++ after the encryption, on the value in memory or in a register.
count_forgotten(e, t) ==
    /\ snd[e][t].pc = "count"
    /\ snd' = [snd EXCEPT ![e][t].pc = "enqueue"]
    /\ UNCHANGED <<conn, wire, settings, nonce, io, history, got, undeciphered, events>>

count(e, t) ==
    /\ snd[e][t].pc = "count"
    /\ \E n \in {nonce[e].send, snd[e][t].f.n} : nonce' = [nonce EXCEPT ![e].send = n + 1]
    /\ snd' = [snd EXCEPT ![e][t].pc = "enqueue"]
    /\ UNCHANGED <<conn, wire, settings, io, history, got, undeciphered, events>>

\* enqueue_message: false when the peer has been removed.
send_enqueue(e, t) ==
    LET f == snd[e][t].f
    IN  /\ snd[e][t].pc = "enqueue"
        /\ snd' = [snd EXCEPT ![e][t] = Idle]
        /\ IF Present(e)
           THEN /\ conn' = [conn EXCEPT ![e] = enqueue_message(@, f)]
                /\ accepted' = [accepted EXCEPT ![e] = Append(@, f.m)]
           ELSE UNCHANGED <<conn, accepted>>
        /\ UNCHANGED <<wire, settings, nonce, io, sent, got, raced, undeciphered, events>>

SendStep(e, t) ==
    encrypt_with_ad(e, t) \/ count(e, t) \/ send_enqueue(e, t)

-----------------------------------------------------------------------------
\* Events.

set_encryption_enabled(e) ==
    /\ events < MaxEvents
    /\ events' = events + 1
    /\ wants' = [wants EXCEPT ![e] = ~@] /\ changed' = TRUE
    /\ UNCHANGED <<conn, wire, nonce, io, snd, history, got, undeciphered>>

remove_peer(e) ==
    /\ events < MaxEvents
    /\ events' = events + 1
    /\ conn' = [conn EXCEPT ![e] = Gone]
    /\ UNCHANGED <<wire, settings, nonce, io, snd, history, got, undeciphered>>

\* check_handshake_timeouts, from the management thread.
check_handshake_timeouts(e) ==
    conn[e].state \notin {"COMPLETED", "REMOVED"} /\ remove_peer(e)

\* disconnect_peer, from a thread of the application.
disconnect_peer(e) == conn[e].state = "COMPLETED" /\ remove_peer(e)

Event(e) == set_encryption_enabled(e) \/ check_handshake_timeouts(e) \/ disconnect_peer(e)

Next == \E e \in Ends :
    \/ IoStep(e)
    \/ \E t \in Threads : send_lookup(e, t) \/ SendStep(e, t)
    \/ Event(e)

Spec == Init /\ [][Next]_vars

\* The io threads poll for ever; a thread in a send is not stopped for ever.
FairSpec ==
    /\ Spec
    /\ \A e \in Ends : /\ WF_vars(IoStep(e))
                       /\ \A t \in Threads : WF_vars(SendStep(e, t))
-----------------------------------------------------------------------------
(* Properties. *)

\* Every variable has its type: the records of the ends, buffers, cipher
\* counters and the control states of both threads.
TypeOK ==
    /\ conn \in [Ends -> [state : States, hs : BOOLEAN, step : 0..2, cipher : BOOLEAN,
                          sbuf : Seq(Cell), armed : BOOLEAN, rbuf : Seq(Cell)]]
    /\ wire \in [Ends -> Seq(Cell)] /\ \A e \in Ends : Len(wire[e]) <= Cap
    /\ wants \in [Ends -> BOOLEAN] /\ changed \in BOOLEAN
    /\ nonce \in [Ends -> [send : Nat, recv : Nat]]
    /\ io \in [Ends -> [pc : {"poll", "frames", "after", "post", "disconnect"},
                        frames : Seq([f : Frame, state : States, cipher : BOOLEAN]),
                        closed : BOOLEAN]]
    /\ snd \in [Ends -> [Threads -> [pc : {"idle", "encrypt", "count", "enqueue"},
                                     cipher : BOOLEAN, f : Frame]]]
    /\ sent \in [Ends -> Nat] /\ accepted \in [Ends -> Seq(Nat)]
    /\ got \in [Ends -> Seq([m : Nat, kept : BOOLEAN])]
    /\ raced \in [Ends -> BOOLEAN] /\ undeciphered \in [Ends -> BOOLEAN]
    /\ events \in 0..MaxEvents

\* The messages of the data frames that start or end in a sequence of cells.
InCells(b) == LET data(x) == x.last /\ x.f.kind = "data"
                  d == SelectSeq(b, data)
              IN  [i \in DOMAIN d |-> d[i].f.m]
InFrames(s) == LET data(x) == x.f.kind = "data"
                   d == SelectSeq(s, data)
               IN  [i \in DOMAIN d |-> d[i].f.m]
Read(e) == [i \in DOMAIN got[e] |-> got[e][i].m]

\* The stream is reliable and ordered up to process_message: what an end has
\* read is a prefix of what the other end's sends accepted, and while the
\* connection stands everything accepted is read, snapshotted, buffered or on
\* the wire, once and in order (enqueue_message, handle_writable's partial
\* sends, handle_readable's partial frames).
InOrder == \A e \in Ends :
    LET o == Other(e)
    IN  /\ IsPrefix(Read(e), accepted[o])
        /\ (Present(e) /\ Present(o) /\ io[e].pc # "disconnect") =>
               accepted[o] = Read(e) \o InFrames(io[e].frames) \o
                             InCells(conn[e].rbuf \o wire[o] \o conn[o].sbuf)

\* handle_readable ignores a message that it read in one batch with the
\* handshake.  That happens to the first messages only and never on an
\* encrypted connection, whose handshake ends within the first phase.
LossOnlyAtStart == \A e \in Ends : \A i \in DOMAIN got[e] :
    ~got[e][i].kept => /\ ~conn[e].cipher
                       /\ \A j \in 1..i : ~got[e][j].kept

\* The counters of the two ends stay in step: a frame that does not open (and
\* costs the connection) means that two threads of the sender were between
\* encrypt_with_ad and enqueue_message at once.
OpensUnlessRaced == \A e \in Ends : undeciphered[e] => raced[Other(e)]

\* Ends that both hold the handshake for complete agree on the encryption, even
\* when a setting was changed between a handshake and its answer (each end
\* reads encryption_enabled_ twice); unchanged settings decide it.
EndsAgree ==
    (\A e \in Ends : conn[e].state = "COMPLETED") =>
        /\ conn["A"].cipher = conn["B"].cipher
        /\ ~changed => conn["A"].cipher = (wants["A"] /\ wants["B"])

\* The handshakes come to an end without the help of a timeout: with unchanged
\* settings no end waits for ever for a frame the other does not send.
HandshakeEnds ==
    <>(changed \/ \A e \in Ends : conn[e].state \in {"COMPLETED", "REMOVED"})

\* A message whose send returned true is read by the other end, unless the
\* connection ends before (PollOut is armed whenever the buffer holds bytes).
Arrives == \A e \in Ends : \A m \in 1..Sends[e] :
    (\E i \in DOMAIN accepted[e] : accepted[e][i] = m) ~>
        \/ \E i \in DOMAIN got[Other(e)] : got[Other(e)][i].m = m
        \/ \E x \in Ends : ~Present(x)

\* docs/FILE_TRANSFER_EXAMPLE.md: "the transport is reliable and ordered".
NothingIgnored == \A e \in Ends : \A i \in DOMAIN got[e] : got[e][i].kept

\* docs/MESSAGE_EXCHANGE_API.md: "Message sending is thread-safe".
SendingIsThreadSafe == \A e \in Ends : ~undeciphered[e]

\* The handshakes come to an end whatever is set meanwhile, by the frames alone.
HandshakeAlwaysEnds == <>(\A e \in Ends : conn[e].state \in {"COMPLETED", "REMOVED"})
=============================================================================
