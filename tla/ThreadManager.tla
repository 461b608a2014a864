--------------------------- MODULE ThreadManager ---------------------------
(***************************************************************************)
(* ThreadManager (threadmanager.cpp) together with the threads of          *)
(* RatsClient that drive it: the application thread that calls start() and *)
(* stop(), the IO loop, the management loop, and the managed threads       *)
(* themselves, some of which ("connectors": peer exchange, saved-peer and  *)
(* DHT connection threads) call connect_to_peer() and so add managed       *)
(* threads in turn.                                                        *)
(*                                                                         *)
(* A std::thread runs from its construction, before add_managed_thread()   *)
(* has stored it; it is "free" again once somebody joined it.              *)
(***************************************************************************)
EXTENDS Naturals, FiniteSets

CONSTANTS Workers,      \* identities of managed threads (recycled once joined)
          Connectors,   \* the managed threads whose body calls connect_to_peer
          Owner,        \* the application thread that calls start() and stop()
          Io, Mgmt,     \* io_loop() and management_loop()
          NoThread,
          MaxStarts     \* bound: how often start() is called

ASSUME ThreadAssumption ==
    /\ Connectors \subseteq Workers
    /\ Workers \cap {Owner, Io, Mgmt} = {}
    /\ NoThread \notin Workers \cup {Owner, Io, Mgmt}
    /\ Owner # Io /\ Owner # Mgmt /\ Io # Mgmt
    /\ MaxStarts \in Nat \ {0}

VARIABLES running,            \* RatsClient::running_
          shutdownRequested,  \* ThreadManager::shutdown_requested_
          mutex,              \* holder of active_threads_mutex_, when held across steps
          active,             \* active_threads_
          life,               \* of each managed thread
          pc,                 \* where each actor is
          arg,                \* the thread an actor is adding
          toJoin,             \* threads_to_join of an actor in join_all_active_threads
          starts

vars == <<running, shutdownRequested, mutex, active, life, pc, arg, toJoin, starts>>

Loops  == {Io, Mgmt}
Actors == Workers \cup Loops \cup {Owner}

\* Every variable has its type: flags, thread lists, the control state of every
\* actor of RatsClient and ThreadManager.
TypeOK ==
    /\ running \in BOOLEAN
    /\ shutdownRequested \in BOOLEAN
    /\ mutex \in Actors \cup {NoThread}
    /\ active \in SUBSET Workers
    /\ life \in [Workers -> {"free", "running", "done"}]
    /\ pc \in [Actors -> {"idle", "busy", "check", "lock", "joinUnlocked", "joinLocked",
                          "joinAll", "joining", "exited",
                          "signal", "joinLoops", "stopped"}]
    /\ arg \in [Actors -> Workers \cup {NoThread}]
    /\ toJoin \in [Actors -> SUBSET Workers]
    /\ starts \in 0..MaxStarts

Init ==
    /\ running = FALSE
    /\ shutdownRequested = FALSE
    /\ mutex = NoThread
    /\ active = {}
    /\ life = [w \in Workers |-> "free"]
    /\ pc = [a \in Actors |-> IF a \in Loops THEN "exited"
                              ELSE IF a = Owner THEN "stopped" ELSE "idle"]
    /\ arg = [a \in Actors |-> NoThread]
    /\ toJoin = [a \in Actors |-> {}]
    /\ starts = 0

(***************************************************************************)
(* add_managed_thread                                                      *)
(***************************************************************************)
\* First, unlocked, test of shutdown_requested_.
AddCheck(a) ==
    /\ pc[a] = "check"
    /\ pc' = [pc EXCEPT ![a] = IF shutdownRequested THEN "joinUnlocked" ELSE "lock"]
    /\ UNCHANGED <<running, shutdownRequested, mutex, active, life, arg, toJoin, starts>>

\* (Mutant: the thread is stored after it was moved from.)
AddLockedMovedFrom(a) ==
    /\ pc[a] = "lock"
    /\ mutex = NoThread
    /\ arg' = [arg EXCEPT ![a] = NoThread]
    /\ active' = active \cup {arg'[a]}
    /\ pc' = [pc EXCEPT ![a] = "idle"]
    /\ UNCHANGED <<running, shutdownRequested, mutex, life, toJoin, starts>>

\* The critical section: double-check, then store the thread; or, once shutdown
\* has been requested, go on to join it with the mutex still held.
AddLocked(a) ==
    /\ pc[a] = "lock"
    /\ mutex = NoThread
    /\ \/ /\ ~shutdownRequested
          /\ active' = active \cup {arg[a]}
          /\ arg' = [arg EXCEPT ![a] = NoThread]
          /\ pc' = [pc EXCEPT ![a] = "idle"]
          /\ UNCHANGED mutex
       \/ /\ shutdownRequested
          /\ mutex' = a
          /\ pc' = [pc EXCEPT ![a] = "joinLocked"]
          /\ UNCHANGED <<active, arg>>
    /\ UNCHANGED <<running, shutdownRequested, life, toJoin, starts>>


\* t.join() of the thread being added returns; a held mutex is released.
AddJoined(a) ==
    /\ pc[a] \in {"joinUnlocked", "joinLocked"}
    /\ life[arg[a]] = "done"
    /\ life' = [life EXCEPT ![arg[a]] = "free"]
    /\ arg' = [arg EXCEPT ![a] = NoThread]
    /\ mutex' = IF mutex = a THEN NoThread ELSE mutex
    /\ pc' = [pc EXCEPT ![a] = "idle"]
    /\ UNCHANGED <<running, shutdownRequested, active, toJoin, starts>>

(***************************************************************************)
(* join_all_active_threads, also the body of cleanup_finished_threads      *)
(***************************************************************************)
\* (Mutant: active_threads_ is copied instead of moved.)
JoinAllCopy(a) ==
    /\ pc[a] = "joinAll"
    /\ mutex = NoThread
    /\ toJoin' = [toJoin EXCEPT ![a] = active]
    /\ pc' = [pc EXCEPT ![a] = "joining"]
    /\ UNCHANGED <<running, shutdownRequested, mutex, active, life, arg, starts>>

\* The threads are moved out under the mutex ...
JoinAllTake(a) ==
    /\ pc[a] = "joinAll"
    /\ mutex = NoThread
    /\ toJoin' = [toJoin EXCEPT ![a] = active]
    /\ active' = {}
    /\ pc' = [pc EXCEPT ![a] = "joining"]
    /\ UNCHANGED <<running, shutdownRequested, mutex, life, arg, starts>>

\* ... and every t.join() of the loop has returned.
JoinAllDone(a) ==
    /\ pc[a] = "joining"
    /\ \A w \in toJoin[a] : life[w] = "done"
    /\ life' = [w \in Workers |-> IF w \in toJoin[a] THEN "free" ELSE life[w]]
    /\ toJoin' = [toJoin EXCEPT ![a] = {}]
    /\ pc' = [pc EXCEPT ![a] = IF a = Owner THEN "stopped" ELSE "idle"]
    /\ UNCHANGED <<running, shutdownRequested, mutex, active, arg, starts>>

(***************************************************************************)
(* The loops and the managed threads                                       *)
(***************************************************************************)
\* A loop iteration begins, or a connector enters connect_to_peer: both test
\* running_ before, not while, they add a thread.
BeginWork(a) ==
    /\ a \in Loops \cup Connectors
    /\ pc[a] = "idle"
    /\ a \in Workers => life[a] = "running"
    /\ running
    /\ pc' = [pc EXCEPT ![a] = "busy"]
    /\ UNCHANGED <<running, shutdownRequested, mutex, active, life, arg, toJoin, starts>>

\* The work turned out not to need a thread.
EndWork(a) ==
    /\ pc[a] = "busy"
    /\ pc' = [pc EXCEPT ![a] = "idle"]
    /\ UNCHANGED <<running, shutdownRequested, mutex, active, life, arg, toJoin, starts>>

\* std::thread(...) is constructed and passed to add_managed_thread.
Spawn(a, w) ==
    /\ pc[a] = "busy"
    /\ life[w] = "free"
    /\ life' = [life EXCEPT ![w] = "running"]
    /\ arg' = [arg EXCEPT ![a] = w]
    /\ pc' = [pc EXCEPT ![a] = "check"]
    /\ UNCHANGED <<running, shutdownRequested, mutex, active, toJoin, starts>>

\* management_loop: the periodic cleanup_finished_threads.
PeriodicCleanup ==
    /\ pc[Mgmt] = "busy"
    /\ pc' = [pc EXCEPT ![Mgmt] = "joinAll"]
    /\ UNCHANGED <<running, shutdownRequested, mutex, active, life, arg, toJoin, starts>>

LoopExit(a) ==
    /\ a \in Loops
    /\ pc[a] = "idle"
    /\ ~running
    /\ pc' = [pc EXCEPT ![a] = "exited"]
    /\ UNCHANGED <<running, shutdownRequested, mutex, active, life, arg, toJoin, starts>>

\* The body of a managed thread returns (a TCP connect has a timeout).
WorkerExit(w) ==
    /\ life[w] = "running"
    /\ pc[w] = "idle"
    /\ life' = [life EXCEPT ![w] = "done"]
    /\ UNCHANGED <<running, shutdownRequested, mutex, active, pc, arg, toJoin, starts>>

(***************************************************************************)
(* RatsClient::start and RatsClient::stop                                  *)
(***************************************************************************)
\* running_ = true, the two loops are started, and the "peer-reconnection"
\* thread is added.  shutdown_requested_ keeps the value it has.
Start(w) ==
    /\ pc[Owner] = "stopped"
    /\ starts < MaxStarts
    /\ life[w] = "free"
    /\ starts' = starts + 1
    /\ running' = TRUE
    /\ life' = [life EXCEPT ![w] = "running"]
    /\ arg' = [arg EXCEPT ![Owner] = w]
    /\ pc' = [pc EXCEPT ![Owner] = "check", ![Io] = "idle", ![Mgmt] = "idle"]
    /\ UNCHANGED <<shutdownRequested, mutex, active, toJoin>>

\* stop() and RatsClient::shutdown_all_threads: running_ = false first ...
StopRunning ==
    /\ pc[Owner] = "idle"
    /\ running
    /\ running' = FALSE
    /\ pc' = [pc EXCEPT ![Owner] = "signal"]
    /\ UNCHANGED <<shutdownRequested, mutex, active, life, arg, toJoin, starts>>

\* ... then ThreadManager::shutdown_all_threads.
StopSignal ==
    /\ pc[Owner] = "signal"
    /\ shutdownRequested' = TRUE
    /\ pc' = [pc EXCEPT ![Owner] = "joinLoops"]
    /\ UNCHANGED <<running, mutex, active, life, arg, toJoin, starts>>

\* (Mutant: the managed threads are joined before the loops.)
StopJoinLoopsLast ==
    /\ pc[Owner] = "joinLoops"
    /\ pc' = [pc EXCEPT ![Owner] = "joinAll"]
    /\ UNCHANGED <<running, shutdownRequested, mutex, active, life, arg, toJoin, starts>>

\* io_thread_.join(), management_thread_.join(), then join_all_active_threads.
StopJoinLoops ==
    /\ pc[Owner] = "joinLoops"
    /\ \A a \in Loops : pc[a] = "exited"
    /\ pc' = [pc EXCEPT ![Owner] = "joinAll"]
    /\ UNCHANGED <<running, shutdownRequested, mutex, active, life, arg, toJoin, starts>>

Step(a) ==
    \/ AddCheck(a)
    \/ AddLocked(a)
    \/ AddJoined(a)
    \/ JoinAllTake(a)
    \/ JoinAllDone(a)

Next ==
    \/ \E a \in Actors : Step(a) \/ BeginWork(a) \/ EndWork(a)
    \/ \E a \in Actors, w \in Workers : Spawn(a, w)
    \/ \E a \in Loops : LoopExit(a)
    \/ \E w \in Workers : WorkerExit(w) \/ Start(w)
    \/ PeriodicCleanup
    \/ StopRunning
    \/ StopSignal
    \/ StopJoinLoops

\* Every thread that can go on goes on: the scheduler runs every runnable
\* thread, and a mutex that is free is eventually handed to a thread that waits
\* for it.  Nothing makes the application call start() or stop().
Fairness ==
    /\ \A a \in Actors : /\ WF_vars(AddCheck(a))
                         /\ SF_vars(AddLocked(a))
                         /\ WF_vars(AddJoined(a))
                         /\ SF_vars(JoinAllTake(a))
                         /\ WF_vars(JoinAllDone(a))
                         /\ WF_vars(EndWork(a) \/ \E w \in Workers : Spawn(a, w))
    /\ \A a \in Loops : WF_vars(LoopExit(a))
    /\ \A w \in Workers : WF_vars(WorkerExit(w))
    /\ WF_vars(StopSignal)
    /\ WF_vars(StopJoinLoops)

Spec == Init /\ [][Next]_vars
FairSpec == Spec /\ Fairness

(***************************************************************************)
(* Properties                                                              *)
(***************************************************************************)
\* When stop() has returned, every managed thread that was ever started has
\* finished and was joined, and the list of active threads is empty: no thread
\* started by the client can touch it any more (librats.cpp 251-267).
StoppedMeansAllJoined ==
    pc[Owner] = "stopped" =>
        /\ active = {}
        /\ \A w \in Workers : life[w] = "free"

\* A started thread is accounted for exactly once until it has been joined: it
\* is in active_threads_, or in one thread's list to join, or the argument of
\* one add_managed_thread call (a std::thread destroyed unjoined terminates the
\* program, one joined twice throws).
Held(a) == IF arg[a] = NoThread THEN toJoin[a] ELSE toJoin[a] \cup {arg[a]}

EveryThreadHasOneOwner ==
    \A w \in Workers :
        /\ life[w] # "free" <=> w \in active \/ \E a \in Actors : w \in Held(a)
        /\ w \in active => \A a \in Actors : w \notin Held(a)
        /\ \A a, b \in Actors : w \in Held(a) /\ w \in Held(b) => a = b

\* connect_to_peer hands the blocking TCP connect to a managed thread "to avoid
\* blocking the caller" (librats.cpp 1229-1230): while the client runs,
\* add_managed_thread does not wait for the thread it is given.
AddBlocksOnlyWhenStopping ==
    running => \A a \in Actors : pc[a] \notin {"joinUnlocked", "joinLocked"}

\* "Clean up finished threads (non-blocking)" (threadmanager.h 24): the cleanup
\* of the management loop never waits for a thread that still runs.
CleanupDoesNotWait ==
    pc[Mgmt] = "joining" => \A w \in toJoin[Mgmt] : life[w] # "running"

=============================================================================
