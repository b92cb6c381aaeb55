---------------------------- MODULE BlockFlusher ----------------------------
(***************************************************************************)
(* MemprofilerPprof::BlockFlusher: a background thread that flushes the    *)
(* collector every @interval seconds until it is stopped.  One thread of   *)
(* the application, the owner, calls start! and stop!; any thread pauses,  *)
(* unpauses or forks.  A fork leaves only the thread that forks: the model *)
(* goes on in the child, where the handler registered with Atfork starts   *)
(* the flusher again.  (A parent that has forked is one that has not.)     *)
(*                                                                         *)
(* @status_mutex is held for one step at a time, as waiting for the        *)
(* condition variable releases it.  Time is seen from the deadline of a    *)
(* flusher: it is early, due at this very instant, or past.                *)
(***************************************************************************)
EXTENDS Integers

CONSTANTS
    MaxThreads,       \* bound on the threads that are ever created
    MaxForks,         \* bound on the depth of forks
    Nil

ASSUME ThreadBound == MaxThreads \in Nat /\ MaxForks \in Nat

Flushers == 1 .. MaxThreads

ASSUME NilIsNone == Nil \notin Nat

VARIABLES
    status,           \* :not_started, :running or :stop
    is_paused,
    thread,           \* @thread
    handlers,         \* handlers of this object that Atfork has registered
    created,          \* how many flusher threads there have been
    forks,            \* how many forks there have been
    fpc,              \* where each flusher thread is
    time,             \* how each flusher stands to its deadline
    woken,            \* the flushers that a broadcast has woken
    owner             \* where the owner is in start! or stop!

object == <<status, is_paused, thread, handlers>>
vars == <<object, created, forks, fpc, time, woken, owner>>

\* "raised" is the end of a thread by an exception, which join raises again.
FlusherPC == {"unborn", "begin", "check", "wait", "flush", "ended", "raised"}
OwnerPC == {"idle", "join", "clear", "unregister", "run", "spawn", "register"}

TypeOK ==
    /\ status \in {"not_started", "running", "stop"}
    /\ is_paused \in BOOLEAN
    /\ thread \in Flushers \union {Nil}
    /\ handlers \in Nat
    /\ created \in 0 .. MaxThreads
    /\ forks \in 0 .. MaxForks
    /\ fpc \in [Flushers -> FlusherPC]
    /\ time \in [Flushers -> {"early", "due", "past"}]
    /\ woken \subseteq Flushers
    /\ owner \in [pc : OwnerPC, starting : BOOLEAN]

Init ==
    /\ status = "not_started"
    /\ is_paused = FALSE
    /\ thread = Nil
    /\ handlers = 0
    /\ created = 0
    /\ forks = 0
    /\ fpc = [f \in Flushers |-> "unborn"]
    /\ time = [f \in Flushers |-> "early"]
    /\ woken = {}
    /\ owner = [pc |-> "idle", starting |-> FALSE]

Alive(f) == fpc[f] \in {"begin", "check", "wait", "flush"}
Waiting == {f \in Flushers : fpc[f] = "wait"}
Raised == {f \in Flushers : fpc[f] = "raised"}
OwnerIs(pc) == owner.pc = pc
OwnerGoes(pc) == owner' = [owner EXCEPT !.pc = pc]

-----------------------------------------------------------------------------
(* stop! and start!                                                        *)

\* The first part of stop!, which is also the first part of start!.
Broadcast == woken \union Waiting

Signal(starting) ==
    /\ status' = "stop"
    /\ woken' = Broadcast
    /\ owner' = [pc |-> "join", starting |-> starting]

CallStop ==
    /\ OwnerIs("idle")
    /\ Signal(FALSE)
    /\ UNCHANGED <<is_paused, thread, handlers, created, forks, fpc, time>>

CallStart ==
    /\ OwnerIs("idle")
    /\ created < MaxThreads
    /\ Signal(TRUE)
    /\ UNCHANGED <<is_paused, thread, handlers, created, forks, fpc, time>>

\* @thread&.join.
\* Fault: the flusher is left to itself.
Joinable_Always == TRUE
Joinable == thread \notin {f \in Flushers : Alive(f)}

Join ==
    /\ OwnerIs("join")
    /\ Joinable
    /\ thread \notin Raised
    /\ OwnerGoes("clear")
    /\ UNCHANGED <<object, created, forks, fpc, time, woken>>

\* join raises what ended the flusher, and the rest of the call is skipped.
JoinRaises ==
    /\ OwnerIs("join")
    /\ thread \in Raised
    /\ OwnerGoes("idle")
    /\ UNCHANGED <<object, created, forks, fpc, time, woken>>

ClearThread ==
    /\ OwnerIs("clear")
    /\ thread' = Nil
    /\ OwnerGoes("unregister")
    /\ UNCHANGED <<status, is_paused, handlers, created, forks, fpc, time,
                   woken>>

\* @atfork_handler&.remove!
\* Fault: the handler stays.
Unregistered_Kept == handlers
Unregistered == IF handlers = 0 THEN 0 ELSE handlers - 1

Unregister ==
    /\ OwnerIs("unregister")
    /\ handlers' = Unregistered
    /\ OwnerGoes(IF owner.starting THEN "run" ELSE "idle")
    /\ UNCHANGED <<status, is_paused, thread, created, forks, fpc, time, woken>>

Run ==
    /\ OwnerIs("run")
    /\ status' = "running"
    /\ is_paused' = FALSE
    /\ OwnerGoes("spawn")
    /\ UNCHANGED <<thread, handlers, created, forks, fpc, time, woken>>

Spawn ==
    /\ OwnerIs("spawn")
    /\ created' = created + 1
    /\ fpc' = [fpc EXCEPT ![created + 1] = "begin"]
    /\ thread' = created + 1
    /\ OwnerGoes("register")
    /\ UNCHANGED <<status, is_paused, handlers, forks, time, woken>>

Register ==
    /\ OwnerIs("register")
    /\ handlers' = handlers + 1
    /\ OwnerGoes("idle")
    /\ UNCHANGED <<status, is_paused, thread, created, forks, fpc, time, woken>>

-----------------------------------------------------------------------------
(* pause and unpause                                                       *)

Pause ==
    /\ ~is_paused
    /\ is_paused' = TRUE
    /\ woken' = Broadcast
    /\ UNCHANGED <<status, thread, handlers, created, forks, fpc, time, owner>>

Unpause ==
    /\ is_paused
    /\ is_paused' = FALSE
    /\ woken' = Broadcast
    /\ UNCHANGED <<status, thread, handlers, created, forks, fpc, time, owner>>

-----------------------------------------------------------------------------
(* flusher_thread                                                          *)

FlusherGoes(f, pc) == fpc' = [fpc EXCEPT ![f] = pc]

\* A new deadline, which is now when the last flush took too long.
Begin(f) ==
    /\ fpc[f] = "begin"
    /\ FlusherGoes(f, "check")
    /\ \E t \in {"early", "due"} : time' = [time EXCEPT ![f] = t]
    /\ UNCHANGED <<object, created, forks, woken, owner>>

TimePasses(f) ==
    /\ Alive(f)
    /\ \/ time[f] = "early" /\ time' = [time EXCEPT ![f] = "due"]
       \/ time[f] = "due" /\ time' = [time EXCEPT ![f] = "past"]
    /\ UNCHANGED <<object, created, forks, fpc, woken, owner>>

\* The body of the loop that holds the mutex: return, flush or wait.
\* Fault: a flusher that was stopped goes on.
Stopped_BeforeStart == status = "not_started"
Stopped == status # "running"

End(f) ==
    /\ fpc[f] = "check"
    /\ Stopped
    /\ FlusherGoes(f, "ended")
    /\ UNCHANGED <<object, created, forks, time, woken, owner>>

\* Fault: the flusher flushes when it is paused.
MayFlush_Paused(f) == time[f] # "early" /\ is_paused
MayFlush(f) == time[f] # "early" /\ ~is_paused

Flush(f) ==
    /\ fpc[f] = "check"
    /\ ~Stopped
    /\ MayFlush(f)
    /\ FlusherGoes(f, "flush")
    /\ UNCHANGED <<object, created, forks, time, woken, owner>>

Wait(f) ==
    /\ fpc[f] = "check"
    /\ ~Stopped
    /\ ~MayFlush(f)
    /\ time[f] # "past"
    /\ FlusherGoes(f, "wait")
    /\ woken' = woken \ {f}
    /\ UNCHANGED <<object, created, forks, time, owner>>

\* wait(mutex, wait_until - now) with a negative timeout raises ArgumentError,
\* which nothing rescues.
WaitRaises(f) ==
    /\ fpc[f] = "check"
    /\ ~Stopped
    /\ ~MayFlush(f)
    /\ time[f] = "past"
    /\ FlusherGoes(f, "raised")
    /\ UNCHANGED <<object, created, forks, time, woken, owner>>

\* A broadcast, or the timeout.
Wake(f) ==
    /\ fpc[f] = "wait"
    /\ f \in woken \/ time[f] # "early"
    /\ FlusherGoes(f, "check")
    /\ UNCHANGED <<object, created, forks, time, woken, owner>>

\* Collector#flush and on_flush have returned, or raised what is rescued.
FlushEnds(f) ==
    /\ fpc[f] = "flush"
    /\ FlusherGoes(f, "begin")
    /\ UNCHANGED <<object, created, forks, time, woken, owner>>

-----------------------------------------------------------------------------
(* fork                                                                    *)

\* In the child only the forking thread is left.  Atfork.fork calls the
\* handlers there: at_fork_in_child calls start! when @thread is dead.
\* Fault: the handler leaves the dead thread alone.
Restarts_Never == FALSE
Restarts == handlers > 0 /\ thread # Nil

Fork ==
    /\ OwnerIs("idle")
    /\ forks < MaxForks
    /\ created < MaxThreads
    /\ forks' = forks + 1
    /\ fpc' = [f \in Flushers |-> IF Alive(f) THEN "ended" ELSE fpc[f]]
    /\ IF Restarts
       THEN /\ status' = "stop"
            /\ owner' = [pc |-> "join", starting |-> TRUE]
       ELSE UNCHANGED <<status, owner>>
    /\ woken' = {}
    /\ UNCHANGED <<is_paused, thread, handlers, created, time>>

-----------------------------------------------------------------------------
OwnerStep ==
    \/ Join
    \/ JoinRaises
    \/ ClearThread
    \/ Unregister
    \/ Run
    \/ Spawn
    \/ Register

FlusherStep(f) ==
    \/ Begin(f)
    \/ End(f)
    \/ Flush(f)
    \/ Wait(f)
    \/ WaitRaises(f)
    \/ Wake(f)
    \/ FlushEnds(f)

Next ==
    \/ CallStop
    \/ CallStart
    \/ OwnerStep
    \/ Pause
    \/ Unpause
    \/ \E f \in Flushers : FlusherStep(f)
    \/ \E f \in Flushers : TimePasses(f)
    \/ Fork

Spec == Init /\ [][Next]_vars

\* The scheduler runs every thread that can run, and time passes.  A flush
\* returns: FlushReturns of PoliteFlush, unless other threads go on for ever to
\* add samples; that the callback on_flush returns is assumed.  Nobody has to
\* start, stop, pause or fork.
Fairness ==
    /\ WF_vars(OwnerStep)
    /\ \A f \in Flushers : WF_vars(FlusherStep(f))
    /\ \A f \in Flushers : WF_vars(TimePasses(f))

FairSpec == Spec /\ Fairness

-----------------------------------------------------------------------------
(* What makes the flusher correct                                          *)

\* There is one flusher at a time, through any number of restarts: start!
\* must have waited for the old thread, which would take the new :running for
\* its own.
OneFlusher == \A f, g \in Flushers : Alive(f) /\ Alive(g) => f = g

\* stop! returns only when no flusher is left that could call on_flush again.
StoppedIsQuiet ==
    OwnerIs("idle") /\ status = "stop" => \A f \in Flushers : ~Alive(f)

\* A flusher that is said to run has a thread, in a forked child as well,
\* where the old thread is gone; or it died of an exception.
RunningHasThread ==
    OwnerIs("idle") /\ status = "running" =>
        thread # Nil /\ (Alive(thread) \/ thread \in Raised)

\* Atfork knows one handler of a flusher that was started and none of one
\* that was stopped, so that a child starts one thread, or none.
HandlerMatches ==
    OwnerIs("idle") => handlers = IF thread = Nil THEN 0 ELSE 1

\* No broadcast is lost: a flusher that waits although it was stopped is about
\* to wake up, and stop! need not wait for the rest of the interval.
NoLostWakeup ==
    \A f \in Flushers : fpc[f] = "wait" /\ status = "stop" => f \in woken

\* start! and stop! return, also when they meet a flush.
CallsReturn == ~OwnerIs("idle") ~> OwnerIs("idle")

\* As long as nobody stops or pauses it, a flusher flushes again and again.
KeepsFlushing ==
    \A f \in Flushers :
        Alive(f) ~> fpc[f] = "flush" \/ status # "running" \/ is_paused

\* README.md: "periodically calling `#flush` in a background thread".  A
\* flusher that is said to run, and is not paused for ever, flushes.
FlushesPeriodically ==
    OwnerIs("idle") /\ status = "running" ~>
        \/ \E f \in Flushers : fpc[f] = "flush"
        \/ ~OwnerIs("idle")
        \/ is_paused

=============================================================================
