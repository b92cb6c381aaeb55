------------------------- MODULE BlockFlusherProofs -------------------------
(* Proofs about BlockFlusher, for any number of restarts and forks: there is *)
(* never more than one flusher, none after stop!, and one when it is said to *)
(* run, in a forked child as well.                                           *)
EXTENDS BlockFlusher, TLAPS

\* The threads: no flusher but @thread is alive, and none is when the owner
\* has joined it.
Threads ==
    /\ \A f \in Flushers : Alive(f) => thread = f
    /\ \A f \in Flushers : f > created => fpc[f] = "unborn"
    /\ thread # Nil => thread <= created /\ fpc[thread] # "unborn"
    /\ owner.pc = "clear" => \A f \in Flushers : ~Alive(f)
    /\ owner.pc \in {"unregister", "run", "spawn"} => thread = Nil
    /\ owner.pc = "register" => thread # Nil

\* The status at each step of start! and stop!.  A flusher is alive, or died,
\* under :running, or is about to be joined.
Statuses ==
    /\ owner.pc \in {"join", "clear", "unregister", "run"} => status = "stop"
    /\ owner.pc \in {"spawn", "register"} => status = "running"
    /\ owner.pc = "idle" /\ status # "running" =>
          \A f \in Flushers : ~Alive(f)
    /\ owner.pc \in {"idle", "register"} /\ status = "running" =>
          /\ thread # Nil
          /\ Alive(thread) \/ thread \in Raised

\* start! has a thread left to create.
Startable ==
    /\ owner.pc \in {"run", "spawn"} => owner.starting
    /\ owner.pc \in OwnerPC \ {"idle", "register"} /\ owner.starting =>
          created < MaxThreads

Handlers ==
    /\ owner.pc \in {"idle", "join"} =>
          handlers = IF thread = Nil THEN 0 ELSE 1
    /\ owner.pc \in {"clear", "unregister"} => handlers \in {0, 1}
    /\ owner.pc \in {"run", "spawn", "register"} => handlers = 0

IInv == TypeOK /\ Threads /\ Statuses /\ Startable /\ Handlers /\ NoLostWakeup

LEMMA InitIInv == Init => IInv
<1> USE ThreadBound, NilIsNone DEF Init, Flushers, OwnerPC, ThreadBound, NilIsNone
<1>1. Init => TypeOK
  <2>1. Init => /\ thread \in Flushers \union {Nil}
                /\ fpc \in [Flushers -> FlusherPC]
                /\ time \in [Flushers -> {"early", "due", "past"}]
    BY DEF FlusherPC
  <2>2. Init => owner \in [pc : OwnerPC, starting : BOOLEAN]
    OBVIOUS
  <2>3. Init => is_paused \in BOOLEAN
    OBVIOUS
  <2>4. Init => /\ status \in {"not_started", "running", "stop"}
                /\ handlers \in Nat
                /\ created \in 0 .. MaxThreads
                /\ forks \in 0 .. MaxForks
                /\ woken \subseteq Flushers
    OBVIOUS
  <2>5. QED
    BY <2>1, <2>2, <2>3, <2>4 DEF TypeOK
<1>2. Init => Threads /\ Statuses
  BY DEF Threads, Statuses, Alive, Raised
<1>3. Init => Startable /\ Handlers /\ NoLostWakeup
  BY DEF Startable, Handlers, NoLostWakeup
<1>4. QED
  BY <1>1, <1>2, <1>3 DEF IInv

\* The owner's steps, and the fork, which leaves the child in the middle of
\* start!.
LEMMA OwnerKeepsIInv ==
    IInv /\ (CallStop \/ CallStart \/ OwnerStep \/ Fork) => IInv'
<1> USE ThreadBound, NilIsNone
    DEF ThreadBound, NilIsNone,
        IInv, TypeOK, Threads, Statuses, Startable, Handlers, NoLostWakeup,
        Flushers, FlusherPC, OwnerPC, Alive, Raised, OwnerIs, OwnerGoes, object
<1>1. IInv /\ CallStop => IInv'
  <2> SUFFICES ASSUME IInv, CallStop PROVE IInv'
    OBVIOUS
  <2> USE DEF CallStop, Signal, Broadcast, Waiting
  <2>1. TypeOK'
    OBVIOUS
  <2>2. Threads'
    OBVIOUS
  <2>3. Statuses'
    OBVIOUS
  <2>4. Startable' /\ Handlers'
    OBVIOUS
  <2>5. NoLostWakeup'
    OBVIOUS
  <2>6. QED
    BY <2>1, <2>2, <2>3, <2>4, <2>5
<1>2. IInv /\ CallStart => IInv'
  <2> SUFFICES ASSUME IInv, CallStart PROVE IInv'
    OBVIOUS
  <2> USE DEF CallStart, Signal, Broadcast, Waiting
  <2>1. TypeOK'
    OBVIOUS
  <2>2. Threads'
    OBVIOUS
  <2>3. Statuses'
    OBVIOUS
  <2>4. Startable' /\ Handlers'
    OBVIOUS
  <2>5. NoLostWakeup'
    OBVIOUS
  <2>6. QED
    BY <2>1, <2>2, <2>3, <2>4, <2>5
<1>3. IInv /\ Join => IInv'
  BY DEF Join, Joinable
<1>4. IInv /\ JoinRaises => IInv'
  BY DEF JoinRaises
<1>5. IInv /\ ClearThread => IInv'
  BY DEF ClearThread
<1>6. IInv /\ Unregister => IInv'
  BY DEF Unregister, Unregistered
<1>7. IInv /\ Run => IInv'
  BY DEF Run
<1>8. IInv /\ Spawn => IInv'
  <2> SUFFICES ASSUME IInv, Spawn PROVE IInv'
    OBVIOUS
  <2> USE DEF Spawn
  <2>1. TypeOK'
    <3>1. created + 1 \in Flushers
      OBVIOUS
    <3>2. fpc' \in [Flushers -> FlusherPC]
      BY <3>1
    <3>3. created' \in 0 .. MaxThreads /\ thread' \in Flushers \union {Nil}
      BY <3>1
    <3>4. owner' \in [pc : OwnerPC, starting : BOOLEAN]
      OBVIOUS
    <3>5. QED
      BY <3>2, <3>3, <3>4
  <2>2. Threads'
    OBVIOUS
  <2>3. Statuses'
    OBVIOUS
  <2>4. Startable' /\ Handlers'
    OBVIOUS
  <2>5. NoLostWakeup'
    OBVIOUS
  <2>6. QED
    BY <2>1, <2>2, <2>3, <2>4, <2>5
<1>9. IInv /\ Register => IInv'
  BY DEF Register
<1>10. IInv /\ Fork => IInv'
  <2> SUFFICES ASSUME IInv, Fork PROVE IInv'
    OBVIOUS
  <2> USE DEF Fork, Restarts
  <2>1. TypeOK'
    <3>1. fpc' \in [Flushers -> FlusherPC]
      OBVIOUS
    <3>2. forks' \in 0 .. MaxForks /\ woken' \subseteq Flushers
      OBVIOUS
    <3>3. /\ status' \in {"not_started", "running", "stop"}
          /\ owner' \in [pc : OwnerPC, starting : BOOLEAN]
      <4>1. CASE handlers > 0 /\ thread # Nil
        <5>1. status' = "stop" /\ owner' = [pc |-> "join", starting |-> TRUE]
          BY <4>1
        <5>2. QED
          BY <5>1
      <4>2. CASE ~(handlers > 0 /\ thread # Nil)
        BY <4>2
      <4>3. QED
        BY <4>1, <4>2
    <3>4. QED
      BY <3>1, <3>2, <3>3
  <2>2. Threads'
    OBVIOUS
  <2>3. Statuses'
    OBVIOUS
  <2>4. Startable' /\ Handlers'
    OBVIOUS
  <2>5. NoLostWakeup'
    OBVIOUS
  <2>6. QED
    BY <2>1, <2>2, <2>3, <2>4, <2>5
<1>11. QED
  BY <1>1, <1>2, <1>3, <1>4, <1>5, <1>6, <1>7, <1>8, <1>9, <1>10 DEF OwnerStep

\* The steps of other threads and of the flusher.
LEMMA OthersKeepIInv ==
    ASSUME IInv, NEW f \in Flushers,
           Pause \/ Unpause \/ FlusherStep(f) \/ TimePasses(f)
    PROVE  IInv'
<1> USE ThreadBound, NilIsNone
    DEF ThreadBound, NilIsNone,
        IInv, TypeOK, Threads, Statuses, Startable, Handlers, NoLostWakeup,
        Flushers, FlusherPC, OwnerPC, Alive, Raised, FlusherGoes, object
<1>1. CASE Pause \/ Unpause
  BY <1>1 DEF Pause, Unpause, Broadcast, Waiting
<1>2. CASE TimePasses(f)
  BY <1>2 DEF TimePasses
<1>3. CASE Begin(f)
  BY <1>3 DEF Begin
<1>4. CASE End(f)
  BY <1>4 DEF End, Stopped
<1>5. CASE Flush(f)
  BY <1>5 DEF Flush
<1>6. CASE Wait(f)
  BY <1>6 DEF Wait, Stopped
<1>7. CASE WaitRaises(f)
  BY <1>7 DEF WaitRaises
<1>8. CASE Wake(f)
  BY <1>8 DEF Wake
<1>9. CASE FlushEnds(f)
  BY <1>9 DEF FlushEnds
<1>10. QED
  BY <1>1, <1>2, <1>3, <1>4, <1>5, <1>6, <1>7, <1>8, <1>9 DEF FlusherStep

LEMMA IInvStep == IInv /\ [Next]_vars => IInv'
<1> SUFFICES ASSUME IInv, [Next]_vars PROVE IInv'
  OBVIOUS
<1>1. CASE CallStop \/ CallStart \/ OwnerStep \/ Fork
  BY <1>1, OwnerKeepsIInv
<1>2. CASE \/ Pause
           \/ Unpause
           \/ \E f \in Flushers : FlusherStep(f) \/ TimePasses(f)
  <2>1. CASE Pause \/ Unpause
    <3>1. CASE Flushers = {}
      BY <2>1, <3>1 DEF Pause, Unpause, Broadcast, Waiting, IInv, TypeOK,
         Threads, Statuses, Startable, Handlers, NoLostWakeup, Alive, Raised
    <3>2. QED
      BY <2>1, <3>1, OthersKeepIInv
  <2>2. QED
    BY <1>2, <2>1, OthersKeepIInv
<1>3. CASE UNCHANGED vars
  BY <1>3 DEF vars, object, IInv, TypeOK, Threads, Statuses, Startable,
     Handlers, NoLostWakeup, Alive, Raised
<1>4. QED
  BY <1>1, <1>2, <1>3 DEF Next

LEMMA IInvAlways == Spec => []IInv
<1>1. QED
  BY InitIInv, IInvStep, PTL DEF Spec

\* The variables of BlockFlusher keep their types.
THEOREM BlockFlusherTypeCorrect == Spec => []TypeOK
<1>1. IInv => TypeOK
  BY DEF IInv
<1>2. QED
  BY <1>1, IInvAlways, PTL

\* start! never leaves two flusher threads.
THEOREM NeverTwoFlushers == Spec => []OneFlusher
<1>1. IInv => OneFlusher
  BY DEF IInv, Threads, OneFlusher
<1>2. QED
  BY <1>1, IInvAlways, PTL

\* No flusher is left when stop! has returned.
THEOREM StopIsFinal == Spec => []StoppedIsQuiet
<1>1. IInv => StoppedIsQuiet
  BY DEF IInv, Statuses, StoppedIsQuiet, OwnerIs
<1>2. QED
  BY <1>1, IInvAlways, PTL

\* A flusher that is said to run has a thread, alive or dead of an exception,
\* after any number of forks.
THEOREM RunningMeansThread == Spec => []RunningHasThread
<1>1. IInv => RunningHasThread
  BY DEF IInv, Statuses, RunningHasThread, OwnerIs
<1>2. QED
  BY <1>1, IInvAlways, PTL

\* The fork handler is registered once while there is a thread.
THEOREM OneHandler == Spec => []HandlerMatches
<1>1. IInv => HandlerMatches
  BY DEF IInv, Handlers, HandlerMatches, OwnerIs
<1>2. QED
  BY <1>1, IInvAlways, PTL

\* stop! wakes the flusher, whenever it began to wait.
THEOREM StopWakes == Spec => []NoLostWakeup
<1>1. IInv => NoLostWakeup
  BY DEF IInv
<1>2. QED
  BY <1>1, IInvAlways, PTL

=============================================================================
