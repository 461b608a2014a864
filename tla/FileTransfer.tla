---------------------------- MODULE FileTransfer ----------------------------
(***************************************************************************)
(* One transfer of a list of files from a sender to a receiver: offer,       *)
(* answer, chunks with a window, file ends, the verdict, and pause, resume    *)
(* and cancel from either side.  Sizes are counted in chunks.                *)
(*                                                                         *)
(* A step is one section under Transfer::mtx with the messages it sends, or   *)
(* one operation on the file system.  On the sender there are worker threads, *)
(* on both sides the io thread, a user and the maintenance thread.           *)
(* Connections are reliable and ordered until they break.                   *)
(***************************************************************************)
EXTENDS Integers, Sequences, FiniteSets

CONSTANTS
    Sizes,      \* sizes of the files
    Window,     \* config.window_bytes
    Interval,   \* config.progress_interval
    Workers,    \* worker threads of the sender
    MaxEvents   \* bound: calls of pause, resume and cancel, timeouts, failed
                \* file operations, broken connections

ASSUME TransferAssumption ==
    /\ Sizes \in Seq(Nat) /\ Window \in Nat \ {0} /\ Interval \in Nat \ {0}
    /\ MaxEvents \in Nat

Sides == {"s", "r"}
Files == 1..Len(Sizes)
Terminal == {"COMPLETED", "FAILED", "CANCELLED"}
Statuses == {"NONE", "PENDING", "STARTING", "IN_PROGRESS", "PAUSED", "RESUMING"} \cup Terminal

VARIABLES
    status, finished,        \* of both sides; the receiver starts with NONE
    file, offset,            \* send_file, send_offset
    done, acked,             \* sender's bytes_done, acked_bytes
    queued,                  \* how often the transfer is in send_queue_
    active,                  \* worker_active
    wpc,                     \* where the workers are
    received, shaKnown, finalized,   \* per file
    recvFile, lastAck,       \* recv_file, last_ack_sent
    temp, placed,            \* files in the temporary directory, at their destination
    io, ioFile,              \* where the receiver's io thread is, and with which file
    caller, reaper,          \* users in cancel(), maintenance threads about to give up
    chan,                    \* messages to "s" and to "r"
    link,                    \* the connection is up
    noted,                   \* sides that know the connection is gone
    resumes, dropped, disorder,  \* history: resumes; a queue entry was dropped;
                                 \* a chunk came out of order
    calls, faults

sender == <<file, offset, done, acked, queued, active, wpc>>
receiver == <<received, shaKnown, finalized, recvFile, lastAck, placed, io, ioFile>>
state == <<status, finished>>
others == <<caller, reaper, noted, link>>
history == <<resumes, dropped, disorder>>
vars == <<state, sender, receiver, temp, others, chan, history, calls, faults>>

Msg(type, arg) == [type |-> type, arg |-> arg]
Post(c, x, m) == IF link THEN [c EXCEPT ![x] = Append(@, m)] ELSE c
Other(x) == IF x = "s" THEN "r" ELSE "s"
Live(x) == status[x] \notin Terminal \cup {"NONE"}
Fault == calls + faults < MaxEvents /\ faults' = faults + 1

\* start_send: the offer is on its way.
Init ==
    /\ status = [s |-> "STARTING", r |-> "NONE"] /\ finished = [x \in Sides |-> FALSE]
    /\ file = 1 /\ offset = 0 /\ done = 0 /\ acked = 0
    /\ queued = 0 /\ active = FALSE /\ wpc = [w \in Workers |-> "idle"]
    /\ received = [f \in Files |-> 0]
    /\ shaKnown = {} /\ finalized = {} /\ temp = {} /\ placed = {}
    /\ recvFile = 1 /\ lastAck = 0 /\ io = "idle" /\ ioFile = 0
    /\ caller = {} /\ reaper = {} /\ link = TRUE /\ noted = {}
    /\ chan = [s |-> <<>>, r |-> <<Msg("OFFER", 0)>>]
    /\ resumes = 0 /\ dropped = FALSE /\ disorder = FALSE
    /\ calls = 0 /\ faults = 0

-----------------------------------------------------------------------------
(* finish and its callers. *)

\* (Mutant: finish() may run again.)
finish_again(x, ok) ==
    /\ finished' = [finished EXCEPT ![x] = TRUE]
    /\ status' = [status EXCEPT ![x] = IF ok THEN "COMPLETED"
                                       ELSE IF @ = "CANCELLED" THEN @ ELSE "FAILED"]
    /\ temp' = IF ok \/ x = "s" THEN temp ELSE temp \cap finalized

\* finish with cleanup_temp_files; it runs once, whoever is first.
finish(x, ok) ==
    IF finished[x] THEN UNCHANGED <<state, temp>>
    ELSE /\ finished' = [finished EXCEPT ![x] = TRUE]
         /\ status' = [status EXCEPT ![x] = IF ok THEN "COMPLETED"
                                            ELSE IF @ = "CANCELLED" THEN @ ELSE "FAILED"]
         /\ temp' = IF ok \/ x = "s" THEN temp ELSE temp \cap finalized

\* ft_complete with success = false is sent, and the transfer ends here.
give_up(x, chans) ==
    /\ chan' = Post(chans, Other(x), Msg("COMPLETE", 0))
    /\ finish(x, FALSE)

Set(x, st) == status' = [status EXCEPT ![x] = st] /\ UNCHANGED <<finished, temp>>
Take(x) == [chan EXCEPT ![x] = Tail(@)]
Head1(x, type) == chan[x] # <<>> /\ Head(chan[x]).type = type /\ (x = "r" => io = "idle")
Arg(x) == Head(chan[x]).arg

-----------------------------------------------------------------------------
(* Worker threads of the sender. *)

\* worker_loop: an entry of the queue is served, or dropped if another worker
\* has the transfer.
worker_loop(w) ==
    /\ wpc[w] = "idle" /\ queued > 0
    /\ queued' = queued - 1
    /\ IF active THEN dropped' = TRUE /\ UNCHANGED <<active, wpc>>
       ELSE active' = TRUE /\ wpc' = [wpc EXCEPT ![w] = "top"] /\ UNCHANGED dropped
    /\ UNCHANGED <<state, file, offset, done, acked, receiver, temp, others, chan,
                   resumes, disorder, calls, faults>>

run_send_top(w) ==
    LET st == IF status["s"] = "RESUMING" THEN "IN_PROGRESS" ELSE status["s"]
    IN  /\ wpc[w] = "top"
        /\ Set("s", st)
        /\ wpc' = [wpc EXCEPT ![w] = IF st # "IN_PROGRESS" THEN "exit"
                                     ELSE IF file > Len(Sizes) THEN "last" ELSE "send"]
        /\ UNCHANGED <<file, offset, done, acked, queued, active, receiver, others, chan,
                       history, calls, faults>>

\* An empty file has an end only.
run_send_empty(w) ==
    /\ wpc[w] = "send" /\ Sizes[file] = 0
    /\ chan' = Post(chan, "r", Msg("FILE_END", file))
    /\ file' = file + 1 /\ offset' = 0
    /\ wpc' = [wpc EXCEPT ![w] = "top"]
    /\ UNCHANGED <<state, done, acked, queued, active, receiver, temp, others, history,
                   calls, faults>>

run_send_chunk(w) ==
    /\ wpc[w] = "send" /\ Sizes[file] > 0 /\ link
    /\ chan' = Post(chan, "r", Msg("CHUNK", <<file, offset>>))
    /\ wpc' = [wpc EXCEPT ![w] = "sent"]
    /\ UNCHANGED <<state, file, offset, done, acked, queued, active, receiver, temp,
                   others, history, calls, faults>>

\* The file cannot be read, or the connection is gone.
run_send_fails(w) ==
    /\ wpc[w] = "send" /\ Sizes[file] > 0
    /\ \/ link /\ Fault /\ give_up("s", chan)
       \/ ~link /\ finish("s", FALSE) /\ UNCHANGED <<chan, faults>>
    /\ wpc' = [wpc EXCEPT ![w] = "exit"]
    /\ UNCHANGED <<file, offset, done, acked, queued, active, receiver, others, history,
                   calls>>

\* The cursor moves; the end of a file is told.
run_send_sent(w) ==
    LET last == offset + 1 >= Sizes[file]
    IN  /\ wpc[w] = "sent"
        /\ done' = done + 1
        /\ offset' = IF last THEN 0 ELSE offset + 1
        /\ file' = IF last THEN file + 1 ELSE file
        /\ chan' = IF last THEN Post(chan, "r", Msg("FILE_END", file)) ELSE chan
        /\ wpc' = [wpc EXCEPT ![w] = "wait"]
        /\ UNCHANGED <<state, acked, queued, active, receiver, temp, others, history,
                       calls, faults>>


\* Backpressure.
run_send_wait(w) ==
    /\ wpc[w] = "wait"
    /\ status["s"] = "IN_PROGRESS" => done - acked < Window
    /\ wpc' = [wpc EXCEPT ![w] = "top"]
    /\ UNCHANGED <<state, file, offset, done, acked, queued, active, receiver, temp,
                   others, chan, history, calls, faults>>

\* All data is out; then the worker lets go.
run_send_exit(w) ==
    /\ \/ wpc[w] = "last" /\ status["s"] # "IN_PROGRESS"
          /\ wpc' = [wpc EXCEPT ![w] = "exit"] /\ UNCHANGED active
       \/ wpc[w] = "exit" /\ wpc' = [wpc EXCEPT ![w] = "idle"] /\ active' = FALSE
    /\ UNCHANGED <<state, file, offset, done, acked, queued, receiver, temp, others, chan,
                   history, calls, faults>>

-----------------------------------------------------------------------------
(* Messages the sender gets. *)

on_response ==
    /\ Head1("s", "RESPONSE")
    /\ IF Arg("s") = 1
       THEN IF status["s"] = "STARTING"
            THEN Set("s", "IN_PROGRESS") /\ queued' = queued + 1
            ELSE UNCHANGED <<state, temp, queued>>
       ELSE finish("s", FALSE) /\ UNCHANGED queued
    /\ chan' = Take("s")
    /\ UNCHANGED <<file, offset, done, acked, active, wpc, receiver, others, history,
                   calls, faults>>

on_progress ==
    /\ Head1("s", "PROGRESS")
    /\ acked' = IF Arg("s") > acked THEN Arg("s") ELSE acked
    /\ chan' = Take("s")
    /\ UNCHANGED <<state, file, offset, done, queued, active, wpc, receiver, temp, others,
                   history, calls, faults>>

-----------------------------------------------------------------------------
(* The receiver. *)

\* on_offer: the application is asked.
on_offer ==
    /\ Head1("r", "OFFER")
    /\ Set("r", "PENDING")
    /\ chan' = Take("r")
    /\ UNCHANGED <<sender, receiver, others, history, calls, faults>>

\* accept; a transfer without files is complete at once.
accept ==
    LET resp == Post(chan, "s", Msg("RESPONSE", 1))
    IN  /\ status["r"] = "PENDING"
        /\ IF Sizes = <<>>
           THEN chan' = Post(resp, "s", Msg("COMPLETE", 1)) /\ finish("r", TRUE)
           ELSE chan' = resp /\ Set("r", "IN_PROGRESS")
        /\ UNCHANGED <<sender, receiver, others, history, calls, faults>>

reject ==
    /\ status["r"] = "PENDING"
    /\ status' = [status EXCEPT !["r"] = "CANCELLED"]
    /\ finished' = [finished EXCEPT !["r"] = TRUE]
    /\ chan' = Post(chan, "s", Msg("RESPONSE", 0))
    /\ UNCHANGED <<sender, receiver, temp, others, history, calls, faults>>

\* on_chunk, first section: only the next chunk is taken.
on_chunk ==
    LET f == Arg("r")[1]
        wrong == f # recvFile \/ Arg("r")[2] # received[f] \/ received[f] + 1 > Sizes[f]
    IN  /\ Head1("r", "CHUNK")
        /\ IF status["r"] \notin {"IN_PROGRESS", "PAUSED"}
           THEN chan' = Take("r") /\ UNCHANGED <<state, temp, io, ioFile, disorder>>
           ELSE IF wrong
           THEN give_up("r", Take("r")) /\ disorder' = TRUE /\ UNCHANGED <<io, ioFile>>
           ELSE /\ chan' = Take("r") /\ io' = "write" /\ ioFile' = f
                /\ UNCHANGED <<state, temp, disorder>>
        /\ UNCHANGED <<sender, received, shaKnown, finalized, recvFile, lastAck, placed,
                       others, resumes, dropped, calls, faults>>

\* The temporary file is created if it is not there, and written.
on_chunk_write ==
    /\ io = "write"
    /\ temp' = temp \cup {ioFile}
    /\ io' = "update"
    /\ UNCHANGED <<state, sender, received, shaKnown, finalized, recvFile, lastAck, placed,
                   ioFile, others, chan, history, calls, faults>>

\* The checksum is wrong, or the disk fails: in on_chunk or try_finalize_file.
io_fails ==
    /\ io \in {"write", "check", "move"}
    /\ Fault
    /\ give_up("r", chan) /\ io' = "idle"
    /\ UNCHANGED <<sender, received, shaKnown, finalized, recvFile, lastAck, placed,
                   ioFile, others, history, calls>>

Bytes(rec) == LET Sum[n \in 0..Len(Sizes)] == IF n = 0 THEN 0 ELSE Sum[n - 1] + rec[n]
              IN  Sum[Len(Sizes)]

\* At least two acknowledgements per window.
ack_interval ==
    LET half == IF Window \div 2 > 1 THEN Window \div 2 ELSE 1
    IN  IF Interval < half THEN Interval ELSE half

\* The last section of on_chunk: the chunk counts, and is acknowledged.
on_chunk_update ==
    LET rec == [received EXCEPT ![ioFile] = @ + 1]
        complete == rec[ioFile] >= Sizes[ioFile]
        ack == complete \/ Bytes(rec) - lastAck >= ack_interval
    IN  /\ io = "update"
        /\ received' = rec
        /\ lastAck' = IF ack THEN Bytes(rec) ELSE lastAck
        /\ chan' = IF ack THEN Post(chan, "s", Msg("PROGRESS", Bytes(rec))) ELSE chan
        /\ io' = IF complete THEN "check" ELSE "idle"
        /\ UNCHANGED <<state, sender, shaKnown, finalized, recvFile, temp, placed, ioFile,
                       others, history, calls, faults>>

on_file_end ==
    LET f == Arg("r")
        ok == Live("r") /\ f \notin finalized
    IN  /\ Head1("r", "FILE_END")
        /\ chan' = Take("r")
        /\ shaKnown' = IF ok THEN shaKnown \cup {f} ELSE shaKnown
        /\ io' = IF ok THEN "check" ELSE io
        /\ ioFile' = IF ok THEN f ELSE ioFile
        /\ UNCHANGED <<state, sender, received, finalized, recvFile, lastAck, temp, placed,
                       others, history, calls, faults>>

\* try_finalize_file: complete, its digest known, and right.
try_finalize_check ==
    /\ io = "check"
    /\ io' = IF /\ Live("r") /\ ioFile \notin finalized
                /\ received[ioFile] >= Sizes[ioFile] /\ ioFile \in shaKnown
             THEN "move" ELSE "idle"
    /\ UNCHANGED <<state, sender, received, shaKnown, finalized, recvFile, lastAck, temp,
                   placed, ioFile, others, chan, history, calls, faults>>

\* The file is moved to its destination; if it is gone, the transfer fails.
try_finalize_move ==
    /\ io = "move"
    /\ IF Sizes[ioFile] = 0 \/ ioFile \in temp
       THEN /\ placed' = placed \cup {ioFile} /\ temp' = temp \ {ioFile}
            /\ io' = "mark" /\ UNCHANGED <<state, chan>>
       ELSE give_up("r", chan) /\ io' = "idle" /\ UNCHANGED placed
    /\ UNCHANGED <<sender, received, shaKnown, finalized, recvFile, lastAck, ioFile,
                   others, history, calls, faults>>

\* (Mutant: the last file in the list completes the transfer.)
try_finalize_mark_early ==
    /\ io = "mark"
    /\ finalized' = finalized \cup {ioFile}
    /\ recvFile' = recvFile + 1
    /\ io' = IF finalized' # {} THEN "tell" ELSE "idle"
    /\ UNCHANGED <<state, sender, received, shaKnown, lastAck, temp, placed, ioFile,
                   others, chan, history, calls, faults>>

try_finalize_mark ==
    /\ io = "mark"
    /\ finalized' = finalized \cup {ioFile}
    /\ recvFile' = IF ioFile = recvFile THEN recvFile + 1 ELSE recvFile
    /\ io' = IF finalized' = Files THEN "tell" ELSE "idle"
    /\ UNCHANGED <<state, sender, received, shaKnown, lastAck, temp, placed, ioFile,
                   others, chan, history, calls, faults>>

\* ft_complete is sent first, then finish() runs.
try_finalize_tell ==
    /\ io = "tell"
    /\ chan' = Post(chan, "s", Msg("COMPLETE", 1))
    /\ io' = "done"
    /\ UNCHANGED <<state, sender, received, shaKnown, finalized, recvFile, lastAck, temp,
                   placed, ioFile, others, history, calls, faults>>

try_finalize_done ==
    /\ io = "done"
    /\ finish("r", TRUE) /\ io' = "idle"
    /\ UNCHANGED <<sender, received, shaKnown, finalized, recvFile, lastAck, placed,
                   ioFile, others, chan, history, calls, faults>>

-----------------------------------------------------------------------------
(* Both sides. *)

on_complete(x) ==
    /\ Head1(x, "COMPLETE")
    /\ IF status[x] = "NONE" THEN UNCHANGED <<state, temp>> ELSE finish(x, Arg(x) = 1)
    /\ chan' = Take(x)
    /\ UNCHANGED <<sender, receiver, others, history, calls, faults>>

\* (Mutant: the transfer is not put into the queue again.)
unpause_idle(x) ==
    /\ Set(x, IF x = "s" THEN "RESUMING" ELSE "IN_PROGRESS")
    /\ resumes' = resumes + 1 /\ UNCHANGED queued

\* PAUSED ends in RESUMING and a place in the queue, on the sender; at once on
\* the receiver.
unpause(x) ==
    IF x = "s"
    THEN /\ Set("s", "RESUMING") /\ queued' = queued + 1 /\ resumes' = resumes + 1
    ELSE /\ Set("r", "IN_PROGRESS") /\ UNCHANGED <<queued, resumes>>

on_control(x) ==
    /\ Head1(x, "CONTROL")
    /\ chan' = Take(x)
    /\ CASE Arg(x) = "pause" /\ status[x] = "IN_PROGRESS" ->
              Set(x, "PAUSED") /\ UNCHANGED <<queued, resumes>>
         [] Arg(x) = "resume" /\ status[x] = "PAUSED" -> unpause(x)
         [] Arg(x) = "cancel" /\ Live(x) ->
              /\ status' = [status EXCEPT ![x] = "CANCELLED"]
              /\ finished' = [finished EXCEPT ![x] = TRUE]
              /\ temp' = IF x = "r" THEN temp \cap finalized ELSE temp
              /\ UNCHANGED <<queued, resumes>>
         [] OTHER -> UNCHANGED <<state, temp, queued, resumes>>
    /\ UNCHANGED <<file, offset, done, acked, active, wpc, receiver, others, dropped,
                   disorder, calls, faults>>

Call == calls + faults < MaxEvents /\ calls' = calls + 1

pause(x) ==
    /\ status[x] = "IN_PROGRESS" /\ Call
    /\ Set(x, "PAUSED")
    /\ chan' = Post(chan, Other(x), Msg("CONTROL", "pause"))
    /\ UNCHANGED <<sender, receiver, others, history, faults>>

resume(x) ==
    /\ status[x] = "PAUSED" /\ Call
    /\ unpause(x)
    /\ chan' = Post(chan, Other(x), Msg("CONTROL", "resume"))
    /\ UNCHANGED <<file, offset, done, acked, active, wpc, receiver, others, dropped,
                   disorder, faults>>

\* cancel: the status, the message, then finish().
cancel(x) ==
    /\ Live(x) /\ x \notin caller /\ Call
    /\ Set(x, "CANCELLED")
    /\ caller' = caller \cup {x}
    /\ chan' = Post(chan, Other(x), Msg("CONTROL", "cancel"))
    /\ UNCHANGED <<sender, receiver, reaper, noted, link, history, faults>>

cancel_finish(x) ==
    /\ x \in caller /\ caller' = caller \ {x}
    /\ finish(x, FALSE)
    /\ UNCHANGED <<sender, receiver, reaper, noted, link, chan, history, calls, faults>>

\* maintenance_loop finds the transfer idle too long; a paused one may be.
maintenance_loop(x) ==
    /\ Live(x) /\ status[x] # "PAUSED" /\ x \notin reaper /\ Fault
    /\ reaper' = reaper \cup {x}
    /\ UNCHANGED <<state, temp, sender, receiver, caller, noted, link, chan, history, calls>>

maintenance_timeout(x) ==
    /\ x \in reaper /\ reaper' = reaper \ {x}
    /\ give_up(x, chan)
    /\ UNCHANGED <<sender, receiver, caller, noted, link, history, calls, faults>>

\* The connection breaks; each side notices.
Break ==
    /\ link /\ Fault
    /\ link' = FALSE /\ chan' = [x \in Sides |-> <<>>]
    /\ UNCHANGED <<state, temp, sender, receiver, caller, reaper, noted, history, calls>>

on_peer_disconnected(x) ==
    /\ ~link /\ x \notin noted /\ (x = "r" => io = "idle")
    /\ noted' = noted \cup {x}
    /\ IF Live(x) THEN finish(x, FALSE) ELSE UNCHANGED <<state, temp>>
    /\ UNCHANGED <<sender, receiver, caller, reaper, link, chan, history, calls, faults>>

-----------------------------------------------------------------------------
Worker(w) ==
    \/ worker_loop(w) \/ run_send_top(w) \/ run_send_empty(w) \/ run_send_chunk(w)
    \/ run_send_fails(w) \/ run_send_sent(w) \/ run_send_wait(w) \/ run_send_exit(w)

SenderIo == on_response \/ on_progress \/ on_complete("s") \/ on_control("s")
              \/ on_peer_disconnected("s")

ReceiverIo ==
    \/ on_offer \/ on_chunk \/ on_chunk_write \/ on_chunk_update \/ io_fails
    \/ on_file_end \/ try_finalize_check \/ try_finalize_move \/ try_finalize_mark
    \/ try_finalize_tell \/ try_finalize_done \/ on_complete("r") \/ on_control("r")
    \/ on_peer_disconnected("r")

Next ==
    \/ \E w \in Workers : Worker(w)
    \/ SenderIo \/ ReceiverIo \/ accept \/ reject \/ Break
    \/ \E x \in Sides : \/ pause(x) \/ resume(x) \/ cancel(x) \/ cancel_finish(x)
                        \/ maintenance_loop(x) \/ maintenance_timeout(x)

Spec == Init /\ [][Next]_vars

\* Threads run; the network delivers; the application answers offers.  Nothing
\* has to be paused, resumed or cancelled, or to fail.
FairSpec ==
    /\ Spec
    /\ \A w \in Workers : WF_vars(Worker(w))
    /\ WF_vars(SenderIo) /\ WF_vars(ReceiverIo) /\ WF_vars(accept)
    /\ \A x \in Sides : WF_vars(cancel_finish(x)) /\ WF_vars(maintenance_timeout(x))

-----------------------------------------------------------------------------
(* Properties. *)

\* Statuses and cursors have their types; no cursor passes the end of a file.
TypeOK ==
    /\ status \in [Sides -> Statuses] /\ finished \in [Sides -> BOOLEAN]
    /\ file \in 1..(Len(Sizes) + 1) /\ offset \in Nat
    /\ file \in Files => offset = 0 \/ offset < Sizes[file]
    /\ acked <= done + 1 /\ lastAck <= Bytes(received)
    /\ queued \in Nat /\ active \in BOOLEAN
    /\ \A f \in Files : received[f] \in 0..Sizes[f]
    /\ recvFile \in 1..(Len(Sizes) + 1)
    /\ finalized \cup shaKnown \cup temp \cup placed \subseteq Files

\* A side that reports success is right: every file has been received whole,
\* verified and moved to its destination, whatever was paused, resumed or
\* cancelled meanwhile.
CompletedMeansPlaced ==
    \A x \in Sides : status[x] = "COMPLETED" =>
        placed = Files /\ \A f \in Files : received[f] = Sizes[f]

\* Chunks arrive in order (file_transfer.cpp, on_chunk: "Strict ordering is
\* guaranteed by the reliable transport"), through all hand-overs between
\* worker threads.
OrderKept == ~disorder

\* The acknowledgements are frequent enough: when everything sent has arrived
\* and every acknowledgement too, the window is open.
WindowOpens ==
    (link /\ chan["s"] = <<>> /\ chan["r"] = <<>> /\ io = "idle" /\ ~finished["r"]
       /\ status["r"] \in {"IN_PROGRESS", "PAUSED"})
    => \A w \in Workers : wpc[w] = "wait" => done - acked < Window


\* What the design notes say: at most a window.
WindowNeverExceeded == done - acked <= Window

\* Once finish() has run the status stays.
OutcomeStays ==
    [][\A x \in Sides : finished[x] => finished'[x] /\ status'[x] = status[x]]_vars

\* A transfer that is not rejected, paused, cancelled or failed completes,
\* unless a worker dropped its place in the queue.
Completes ==
    []<>(\/ status["s"] \in Terminal \/ dropped \/ faults > 0
         \/ \E x \in Sides : status[x] = "PAUSED")

\* A finished transfer leaves nothing in the temporary directory.
TempsAreDeleted == finished["r"] /\ io = "idle" => temp = {}

=============================================================================
