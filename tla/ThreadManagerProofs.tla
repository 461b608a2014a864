------------------------ MODULE ThreadManagerProofs ------------------------
(***************************************************************************)
(* No managed thread outlives stop(), for any number of threads and any    *)
(* nesting of managed threads that add managed threads.                    *)
(*                                                                         *)
(* StoppedMeansAllJoined is not inductive.  Besides the obvious facts      *)
(* about program counters, the argument needs that "is adding" is acyclic  *)
(* (NoAddCycle): when the final join has returned, a thread that is still  *)
(* unjoined would have to be held by another such thread, and so on for    *)
(* ever.                                                                   *)
(***************************************************************************)
EXTENDS ThreadManager, TLAPS

Adding == {"check", "lock", "joinUnlocked", "joinLocked"}

\* Where each kind of actor can be.
PcByRole ==
    /\ \A w \in Workers : pc[w] \in Adding \cup {"idle", "busy"}
    /\ pc[Io] \in Adding \cup {"idle", "busy", "exited"}
    /\ pc[Mgmt] \in Adding \cup {"idle", "busy", "exited", "joinAll", "joining"}
    /\ pc[Owner] \in Adding \cup {"idle", "signal", "joinLoops", "joinAll", "joining", "stopped"}

\* An actor holds a thread as an argument exactly while it adds one, a list to
\* join only while it joins, and only a running thread executes.
HoldsByPc ==
    /\ \A a \in Actors : arg[a] # NoThread <=> pc[a] \in Adding
    /\ \A a \in Actors : pc[a] # "joining" => toJoin[a] = {}
    /\ \A w \in Workers : life[w] # "running" => pc[w] = "idle"

\* The stages of stop(), and what each has established.
StopStages ==
    /\ pc[Owner] \in {"signal", "joinLoops", "joinAll", "joining", "stopped"} => ~running
    /\ pc[Owner] \in {"joinLoops", "joinAll", "joining"} => shutdownRequested
    /\ pc[Owner] \in {"joinAll", "joining", "stopped"} => pc[Io] = "exited" /\ pc[Mgmt] = "exited"
    /\ pc[Owner] = "joining" => active = {}

\* Among any unjoined threads one is not being added by the others.
NoAddCycle ==
    \A S \in SUBSET Workers :
        S # {} => \E w \in S : \A a \in S : arg[a] # w

IInv ==
    /\ TypeOK
    /\ PcByRole
    /\ HoldsByPc
    /\ StopStages
    /\ NoAddCycle
    /\ EveryThreadHasOneOwner
    /\ StoppedMeansAllJoined

USE ThreadAssumption DEF Actors, Loops

\* The initial state satisfies the inductive invariant.
LEMMA InitIInv == Init => IInv
<1> SUFFICES ASSUME Init PROVE IInv
  OBVIOUS
<1>1. TypeOK
  <2>1. pc \in [Actors -> {"exited", "stopped", "idle"}]
    BY DEF Init
  <2>2. running \in BOOLEAN /\ shutdownRequested \in BOOLEAN
    BY Zenon DEF Init
  <2> QED
    BY <2>1, <2>2 DEF Init, TypeOK
<1>5. PcByRole /\ HoldsByPc
  BY DEF Init, PcByRole, HoldsByPc, Adding
<1>2. StopStages /\ StoppedMeansAllJoined
  BY DEF Init, StopStages, StoppedMeansAllJoined
<1>3. NoAddCycle
  BY DEF Init, NoAddCycle
<1>4. EveryThreadHasOneOwner
  BY DEF Init, EveryThreadHasOneOwner, Held
<1> QED
  BY <1>1, <1>2, <1>3, <1>4, <1>5 DEF IInv

\* The unlocked check only moves the program counter.
LEMMA AddCheckStep ==
    ASSUME IInv, NEW a \in Actors, AddCheck(a)
    PROVE  IInv'
<1> USE DEF IInv
<1>1. TypeOK'
  BY DEF AddCheck, TypeOK
<1>2. PcByRole'
  BY DEF AddCheck, TypeOK, PcByRole, Adding
<1>3. HoldsByPc'
  BY DEF AddCheck, TypeOK, PcByRole, HoldsByPc, Adding
<1>4. StopStages'
  BY DEF AddCheck, TypeOK, PcByRole, StopStages, Adding
<1>5. NoAddCycle'
  BY DEF AddCheck, TypeOK, HoldsByPc, NoAddCycle, Adding
<1>6. EveryThreadHasOneOwner'
  BY DEF AddCheck, TypeOK, PcByRole, HoldsByPc,
         EveryThreadHasOneOwner, Held, Adding
<1>7. StoppedMeansAllJoined'
  BY DEF AddCheck, TypeOK, PcByRole, HoldsByPc, StopStages,
         EveryThreadHasOneOwner, Held, StoppedMeansAllJoined, Adding
<1> QED
  BY <1>1, <1>2, <1>3, <1>4, <1>5, <1>6, <1>7

\* Storing a thread moves it from the adder to active_threads_; after the shutdown
\* request nothing is stored, so active_threads_ stays empty once stop() took it.
LEMMA AddLockedStep ==
    ASSUME IInv, NEW a \in Actors, AddLocked(a)
    PROVE  IInv'
<1> USE DEF IInv
<1>1. TypeOK'
  BY DEF AddLocked, TypeOK, HoldsByPc, Adding
<1>2. PcByRole'
  BY DEF AddLocked, TypeOK, PcByRole, Adding
<1>3. HoldsByPc'
  BY DEF AddLocked, TypeOK, PcByRole, HoldsByPc, Adding
<1>4. StopStages'
  BY DEF AddLocked, TypeOK, PcByRole, StopStages, Adding
<1>5. NoAddCycle'
  BY DEF AddLocked, TypeOK, HoldsByPc, NoAddCycle, Adding
<1>6. EveryThreadHasOneOwner'
  BY DEF AddLocked, TypeOK, PcByRole, HoldsByPc,
         EveryThreadHasOneOwner, Held, Adding
<1>7. StoppedMeansAllJoined'
  BY DEF AddLocked, TypeOK, PcByRole, HoldsByPc, StopStages,
         EveryThreadHasOneOwner, Held, StoppedMeansAllJoined, Adding
<1> QED
  BY <1>1, <1>2, <1>3, <1>4, <1>5, <1>6, <1>7

\* A thread that was joined by its adder is free.
LEMMA AddJoinedStep ==
    ASSUME IInv, NEW a \in Actors, AddJoined(a)
    PROVE  IInv'
<1> USE DEF IInv
<1>1. TypeOK'
  BY DEF AddJoined, TypeOK, HoldsByPc, Adding
<1>2. PcByRole'
  BY DEF AddJoined, TypeOK, PcByRole, Adding
<1>3. HoldsByPc'
  BY DEF AddJoined, TypeOK, PcByRole, HoldsByPc, Adding
<1>4. StopStages'
  BY DEF AddJoined, TypeOK, PcByRole, StopStages, Adding
<1>5. NoAddCycle'
  BY DEF AddJoined, TypeOK, HoldsByPc, NoAddCycle, Adding
<1>6. EveryThreadHasOneOwner'
  BY DEF AddJoined, TypeOK, PcByRole, HoldsByPc,
         EveryThreadHasOneOwner, Held, Adding
<1>7. StoppedMeansAllJoined'
  BY DEF AddJoined, TypeOK, PcByRole, HoldsByPc, StopStages,
         EveryThreadHasOneOwner, Held, StoppedMeansAllJoined, Adding
<1> QED
  BY <1>1, <1>2, <1>3, <1>4, <1>5, <1>6, <1>7

\* Taking the active threads moves them to the joiner.
LEMMA JoinAllTakeStep ==
    ASSUME IInv, NEW a \in Actors, JoinAllTake(a)
    PROVE  IInv'
<1> USE DEF IInv
<1>1. TypeOK'
  BY DEF JoinAllTake, TypeOK
<1>2. PcByRole'
  BY DEF JoinAllTake, TypeOK, PcByRole, Adding
<1>3. HoldsByPc'
  BY DEF JoinAllTake, TypeOK, PcByRole, HoldsByPc, Adding
<1>4. StopStages'
  BY DEF JoinAllTake, TypeOK, PcByRole, StopStages, Adding
<1>5. NoAddCycle'
  BY DEF JoinAllTake, TypeOK, HoldsByPc, NoAddCycle, Adding
<1>6. EveryThreadHasOneOwner'
  BY DEF JoinAllTake, TypeOK, PcByRole, HoldsByPc,
         EveryThreadHasOneOwner, Held, Adding
<1>7. StoppedMeansAllJoined'
  BY DEF JoinAllTake, TypeOK, PcByRole, HoldsByPc, StopStages,
         EveryThreadHasOneOwner, Held, StoppedMeansAllJoined, Adding
<1> QED
  BY <1>1, <1>2, <1>3, <1>4, <1>5, <1>6, <1>7

\* When the final join returns, an unjoined thread could only be held by another
\* unjoined thread; NoAddCycle rules that out.
LEMMA JoinAllDoneStep ==
    ASSUME IInv, NEW a \in Actors, JoinAllDone(a)
    PROVE  IInv'
<1> USE DEF IInv
<1>1. TypeOK'
  BY DEF JoinAllDone, TypeOK
<1>2. PcByRole'
  BY DEF JoinAllDone, TypeOK, PcByRole, Adding
<1>3. HoldsByPc'
  BY DEF JoinAllDone, TypeOK, PcByRole, HoldsByPc, Adding
<1>4. StopStages'
  BY DEF JoinAllDone, TypeOK, PcByRole, StopStages, Adding
<1>5. NoAddCycle'
  BY DEF JoinAllDone, TypeOK, HoldsByPc, NoAddCycle, Adding
<1>6. EveryThreadHasOneOwner'
  BY DEF JoinAllDone, TypeOK, PcByRole, HoldsByPc,
         EveryThreadHasOneOwner, Held, Adding
<1>7. StoppedMeansAllJoined'
  <2>1. CASE a # Owner
    BY <2>1 DEF JoinAllDone, TypeOK, PcByRole, StopStages, StoppedMeansAllJoined, Adding
  <2>2. CASE a = Owner
    <3> DEFINE S == {w \in Workers : life[w] # "free" /\ w \notin toJoin[Owner]}
    <3>1. active = {} /\ pc[Io] = "exited" /\ pc[Mgmt] = "exited" /\ pc[Owner] = "joining"
      BY <2>2 DEF JoinAllDone, StopStages
    <3>2. ASSUME NEW w \in S
          PROVE  \E b \in S : arg[b] = w
      <4>1. PICK b \in Actors : w \in Held(b)
        BY <3>1 DEF EveryThreadHasOneOwner
      <4>2. b \notin {Owner, Io, Mgmt}
        BY <3>1, <4>1, <3>2 DEF Held, HoldsByPc, Adding, TypeOK
      <4>3. b \in Workers /\ arg[b] = w /\ pc[b] # "idle"
        BY <4>1, <4>2 DEF Held, HoldsByPc, PcByRole, Adding
      <4>4. life[b] = "running"
        BY <4>3 DEF HoldsByPc
      <4>5. b \in S
        BY <4>3, <4>4, <2>2 DEF JoinAllDone
      <4> QED
        BY <4>3, <4>5
    <3>3. S = {}
      <4>1. S \in SUBSET Workers
        OBVIOUS
      <4>2. ASSUME S # {} PROVE FALSE
        <5>1. PICK w \in S : \A b \in S : arg[b] # w
          BY <4>1, <4>2 DEF NoAddCycle
        <5> QED
          BY <5>1, <3>2
      <4> QED
        BY <4>2
    <3>4. \A w \in Workers : life'[w] = "free"
      BY <3>3, <2>2 DEF JoinAllDone
    <3> QED
      BY <3>1, <3>4, <2>2 DEF JoinAllDone, StoppedMeansAllJoined
  <2> QED
    BY <2>1, <2>2
<1> QED
  BY <1>1, <1>2, <1>3, <1>4, <1>5, <1>6, <1>7

\* The new thread adds nothing yet, so no cycle arises.
LEMMA SpawnStep ==
    ASSUME IInv, NEW a \in Actors, NEW w \in Workers, Spawn(a, w)
    PROVE  IInv'
<1> USE DEF IInv
<1>1. TypeOK'
  BY DEF Spawn, TypeOK
<1>2. PcByRole'
  BY DEF Spawn, TypeOK, PcByRole, Adding
<1>3. HoldsByPc'
  BY DEF Spawn, TypeOK, PcByRole, HoldsByPc, Adding
<1>4. StopStages'
  BY DEF Spawn, TypeOK, PcByRole, StopStages, Adding
<1>5. NoAddCycle'
  <2>1. SUFFICES ASSUME NEW S \in SUBSET Workers, S # {}
                 PROVE  \E x \in S : \A b \in S : arg'[b] # x
    BY DEF NoAddCycle
  <2>2. arg[w] = NoThread /\ a # w
    BY DEF Spawn, TypeOK, HoldsByPc, Adding
  <2>3. CASE S = {w}
    BY <2>2, <2>3 DEF Spawn, TypeOK
  <2>4. CASE S # {w}
    <3>1. PICK x \in S \ {w} : \A b \in S \ {w} : arg[b] # x
      BY <2>1, <2>4 DEF NoAddCycle
    <3>2. \A b \in S : arg'[b] # x
      BY <2>2, <3>1 DEF Spawn, TypeOK
    <3> QED
      BY <3>2
  <2> QED
    BY <2>3, <2>4
<1>6. EveryThreadHasOneOwner'
  BY DEF Spawn, TypeOK, PcByRole, HoldsByPc,
         EveryThreadHasOneOwner, Held, Adding
<1>7. StoppedMeansAllJoined'
  BY DEF Spawn, TypeOK, PcByRole, HoldsByPc, StopStages,
         EveryThreadHasOneOwner, Held, StoppedMeansAllJoined, Adding
<1> QED
  BY <1>1, <1>2, <1>3, <1>4, <1>5, <1>6, <1>7

\* A thread that returns holds nothing.
LEMMA WorkerExitStep ==
    ASSUME IInv, NEW w \in Workers, WorkerExit(w)
    PROVE  IInv'
<1> USE DEF IInv
<1>1. TypeOK'
  BY DEF WorkerExit, TypeOK
<1>2. PcByRole'
  BY DEF WorkerExit, TypeOK, PcByRole, Adding
<1>3. HoldsByPc'
  BY DEF WorkerExit, TypeOK, PcByRole, HoldsByPc, Adding
<1>4. StopStages'
  BY DEF WorkerExit, TypeOK, PcByRole, StopStages, Adding
<1>5. NoAddCycle'
  BY DEF WorkerExit, TypeOK, HoldsByPc, NoAddCycle, Adding
<1>6. EveryThreadHasOneOwner'
  BY DEF WorkerExit, TypeOK, PcByRole, HoldsByPc,
         EveryThreadHasOneOwner, Held, Adding
<1>7. StoppedMeansAllJoined'
  BY DEF WorkerExit, TypeOK, PcByRole, HoldsByPc, StopStages,
         EveryThreadHasOneOwner, Held, StoppedMeansAllJoined, Adding
<1> QED
  BY <1>1, <1>2, <1>3, <1>4, <1>5, <1>6, <1>7

\* A second start() begins with every thread joined.
LEMMA StartStep ==
    ASSUME IInv, NEW w \in Workers, Start(w)
    PROVE  IInv'
<1> USE DEF IInv
<1>1. TypeOK'
  BY DEF Start, TypeOK
<1>2. PcByRole'
  BY DEF Start, TypeOK, PcByRole, Adding
<1>3. HoldsByPc'
  BY DEF Start, TypeOK, PcByRole, HoldsByPc, StopStages, Adding
<1>4. StopStages'
  BY DEF Start, TypeOK, PcByRole, StopStages, Adding
<1>5. NoAddCycle'
  BY DEF Start, TypeOK, HoldsByPc, NoAddCycle, Adding
<1>6. EveryThreadHasOneOwner'
  BY DEF Start, TypeOK, PcByRole, HoldsByPc,
         EveryThreadHasOneOwner, Held, Adding
<1>7. StoppedMeansAllJoined'
  BY DEF Start, TypeOK, PcByRole, HoldsByPc, StopStages,
         EveryThreadHasOneOwner, Held, StoppedMeansAllJoined, Adding
<1> QED
  BY <1>1, <1>2, <1>3, <1>4, <1>5, <1>6, <1>7

\* The remaining steps set one program counter and at most one flag.
LEMMA ControlStep ==
    ASSUME IInv,
           \/ \E a \in Actors : BeginWork(a) \/ EndWork(a)
           \/ \E a \in Loops : LoopExit(a)
           \/ PeriodicCleanup
           \/ StopRunning
           \/ StopSignal
           \/ StopJoinLoops
    PROVE  IInv'
<1> USE DEF IInv, BeginWork, EndWork, LoopExit, PeriodicCleanup, StopRunning, StopSignal, StopJoinLoops
<1>1. TypeOK'
  <2>1. ASSUME NEW a \in Actors, BeginWork(a) \/ EndWork(a) \/ (a \in Loops /\ LoopExit(a))
        PROVE  TypeOK'
    BY <2>1 DEF TypeOK
  <2>2. CASE PeriodicCleanup \/ StopJoinLoops
    BY <2>2 DEF TypeOK
  <2>3. CASE StopRunning \/ StopSignal
    <3>1. running' \in BOOLEAN /\ shutdownRequested' \in BOOLEAN
      BY <2>3, Zenon DEF TypeOK
    <3> QED
      BY <2>3, <3>1 DEF TypeOK
  <2> QED
    BY <2>1, <2>2, <2>3, Loops \subseteq Actors
<1>2. PcByRole'
  BY DEF TypeOK, PcByRole, Adding
<1>3. HoldsByPc'
  BY DEF TypeOK, PcByRole, HoldsByPc, Adding
<1>4. StopStages'
  BY DEF TypeOK, PcByRole, StopStages, Adding
<1>5. NoAddCycle'
  BY DEF TypeOK, HoldsByPc, NoAddCycle, Adding
<1>6. EveryThreadHasOneOwner'
  BY DEF TypeOK, PcByRole, HoldsByPc,
         EveryThreadHasOneOwner, Held, Adding
<1>7. StoppedMeansAllJoined'
  BY DEF TypeOK, PcByRole, HoldsByPc, StopStages,
         EveryThreadHasOneOwner, Held, StoppedMeansAllJoined, Adding
<1> QED
  BY <1>1, <1>2, <1>3, <1>4, <1>5, <1>6, <1>7

\* Every step of the system preserves the inductive invariant.
LEMMA NextIInv == IInv /\ [Next]_vars => IInv'
<1> SUFFICES ASSUME IInv, [Next]_vars PROVE IInv'
  OBVIOUS
<1>1. ASSUME NEW a \in Actors, Step(a) PROVE IInv'
  BY <1>1, AddCheckStep, AddLockedStep, AddJoinedStep, JoinAllTakeStep, JoinAllDoneStep DEF Step
<1>2. ASSUME NEW a \in Actors, NEW w \in Workers, Spawn(a, w) PROVE IInv'
  BY <1>2, SpawnStep
<1>3. ASSUME NEW w \in Workers, WorkerExit(w) \/ Start(w) PROVE IInv'
  BY <1>3, WorkerExitStep, StartStep
<1>4. CASE UNCHANGED vars
  BY <1>4 DEF vars, IInv, TypeOK, PcByRole, HoldsByPc, StopStages, NoAddCycle,
              EveryThreadHasOneOwner, Held, StoppedMeansAllJoined
<1> QED
  BY <1>1, <1>2, <1>3, <1>4, ControlStep DEF Next

\* The inductive invariant holds throughout.
LEMMA Inductive == Spec => []IInv
BY InitIInv, NextIInv, PTL DEF Spec

\* Type correctness of the thread manager's state (threadmanager.h 41-47).
THEOREM TypeCorrect == Spec => []TypeOK
<1>1. IInv => TypeOK
  BY DEF IInv
<1> QED
  BY <1>1, Inductive, PTL

\* Every started thread is in active_threads_, in one list to join or the
\* argument of one add_managed_thread call, until it is joined: none is lost and
\* none is joined twice.
THEOREM OneOwner == Spec => []EveryThreadHasOneOwner
<1>1. IInv => EveryThreadHasOneOwner
  BY DEF IInv
<1> QED
  BY <1>1, Inductive, PTL

\* When stop() has returned every managed thread has been joined.
THEOREM NoThreadOutlivesStop == Spec => []StoppedMeansAllJoined
<1>1. IInv => StoppedMeansAllJoined
  BY DEF IInv
<1> QED
  BY <1>1, Inductive, PTL
=============================================================================
