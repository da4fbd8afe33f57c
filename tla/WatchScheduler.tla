---------------------------- MODULE WatchScheduler ----------------------------
(***************************************************************************)
(* Which process re-prices the watches.  Every MCP server has a Scheduler  *)
(* (scheduler.go) and a user may run watch daemons (watch_daemon.go); all  *)
(* of one store contend for scheduler.lock (lock.go), which the kernel     *)
(* releases when its holder dies.  A server that loses retries on a        *)
(* ticker, a daemon that loses exits.                                      *)
(*                                                                         *)
(* Start and Stop of a Scheduler may be called by any goroutine, any       *)
(* number of times and at the same time: a caller is a pair <<process, k>>.*)
(***************************************************************************)
EXTENDS Naturals

CONSTANTS
  Servers,   \* processes with a Scheduler
  Daemons,   \* trvl watch daemon processes
  Hands,     \* goroutines of a server that call Start and Stop
  NoProc,
  Faulty     \* processes whose attempt at the lock may return an error

ASSUME SchedulerAssumption ==
  Servers \intersect Daemons = {} /\ NoProc \notin Servers \union Daemons

Procs   == Servers \union Daemons
Callers == Servers \X Hands

VARIABLES
  lock,      \* the kernel's holder of scheduler.lock
  loop,      \* what the checking goroutine of each process is doing
  handle,    \* s.lock is set
  started, stopped, cancelled, done, \* s.started, s.stopped, ctx, s.done
  startOnce, stopOnce,
  pc,        \* where each caller is in Start or Stop
  took,      \* the SchedulerLock that a caller of Stop is about to release
  returned   \* history variable: some Stop of this Scheduler has returned

flags == <<started, stopped, cancelled, done>>
calls == <<startOnce, stopOnce, pc, took, returned>>
vars  == <<lock, loop, handle, flags, calls>>

Init ==
  /\ lock = NoProc
  /\ loop = [p \in Procs |-> "none"]
  /\ handle = [s \in Servers |-> FALSE]
  /\ started = [s \in Servers |-> FALSE]
  /\ stopped = [s \in Servers |-> FALSE]
  /\ cancelled = [s \in Servers |-> FALSE]
  /\ done = [s \in Servers |-> FALSE]
  /\ startOnce = [s \in Servers |-> "fresh"]
  /\ stopOnce = [s \in Servers |-> "fresh"]
  /\ pc = [c \in Callers |-> "idle"]
  /\ took = [c \in Callers |-> FALSE]
  /\ returned = [s \in Servers |-> FALSE]

Move(p, label) == loop' = [loop EXCEPT ![p] = label]
Step(c, label) == pc' = [pc EXCEPT ![c] = label]
Set(flag, s)   == [flag EXCEPT ![s] = TRUE]

-----------------------------------------------------------------------------
(* Start: sync.Once runs the body for the first caller and holds the others *)
(* until it is over.                                                        *)
StartBody(c) ==
  /\ pc[c] = "idle" /\ startOnce[c[1]] = "fresh"
  /\ IF stopped[c[1]]
     THEN startOnce' = [startOnce EXCEPT ![c[1]] = "over"] /\ UNCHANGED <<pc, started>>
     ELSE /\ startOnce' = [startOnce EXCEPT ![c[1]] = "running"]
          /\ started' = Set(started, c[1])
          /\ Step(c, "launch")
  /\ UNCHANGED <<lock, loop, handle, stopped, cancelled, done, stopOnce, took, returned>>

Launch(c) ==
  /\ pc[c] = "launch"
  /\ Move(c[1], "try")
  /\ startOnce' = [startOnce EXCEPT ![c[1]] = "over"]
  /\ Step(c, "idle")
  /\ UNCHANGED <<lock, handle, flags, stopOnce, took, returned>>

\* Mutant: Stop closes done whether or not a goroutine would.
StopBodyClosing(c) ==
  /\ pc[c] = "idle" /\ stopOnce[c[1]] = "fresh"
  /\ stopOnce' = [stopOnce EXCEPT ![c[1]] = "running"]
  /\ stopped' = Set(stopped, c[1])
  /\ done' = Set(done, c[1])
  /\ Step(c, "cancel")
  /\ UNCHANGED <<lock, loop, handle, started, cancelled, startOnce, took, returned>>

(* Stop: the first caller marks the Scheduler stopped, and closes done itself *)
(* when there is no goroutine that would.                                   *)
StopBody(c) ==
  /\ pc[c] = "idle" /\ stopOnce[c[1]] = "fresh"
  /\ stopOnce' = [stopOnce EXCEPT ![c[1]] = "running"]
  /\ stopped' = Set(stopped, c[1])
  /\ done' = [done EXCEPT ![c[1]] = @ \/ ~started[c[1]]]
  /\ Step(c, "cancel")
  /\ UNCHANGED <<lock, loop, handle, started, cancelled, startOnce, took, returned>>

Cancel(c) ==
  /\ pc[c] = "cancel"
  /\ cancelled' = [cancelled EXCEPT ![c[1]] = started[c[1]]]
  /\ stopOnce' = [stopOnce EXCEPT ![c[1]] = "over"]
  /\ Step(c, "await")
  /\ UNCHANGED <<lock, loop, handle, started, stopped, done, startOnce, took, returned>>

\* A later caller of Stop waits for the first to leave the body.
StopAgain(c) ==
  /\ pc[c] = "idle" /\ stopOnce[c[1]] = "over"
  /\ Step(c, "await")
  /\ UNCHANGED <<lock, loop, handle, flags, startOnce, stopOnce, took, returned>>

\* Mutant: Stop does not wait for the goroutine.
AwaitNothing(c) ==
  /\ pc[c] = "await"
  /\ took' = [took EXCEPT ![c] = handle[c[1]]]
  /\ handle' = [handle EXCEPT ![c[1]] = FALSE]
  /\ Step(c, "release")
  /\ UNCHANGED <<lock, loop, flags, startOnce, stopOnce, returned>>

(* <-s.done, then the handle is taken so that one caller releases it.       *)
Await(c) ==
  /\ pc[c] = "await" /\ done[c[1]]
  /\ took' = [took EXCEPT ![c] = handle[c[1]]]
  /\ handle' = [handle EXCEPT ![c[1]] = FALSE]
  /\ Step(c, "release")
  /\ UNCHANGED <<lock, loop, flags, startOnce, stopOnce, returned>>

Release(c) ==
  /\ pc[c] = "release"
  /\ lock' = IF took[c] THEN NoProc ELSE lock
  /\ took' = [took EXCEPT ![c] = FALSE]
  /\ returned' = Set(returned, c[1])
  /\ Step(c, "idle")
  /\ UNCHANGED <<loop, handle, flags, startOnce, stopOnce>>

-----------------------------------------------------------------------------
(* acquireAndRun: one attempt at the lock ...                               *)
Acquire(s) ==
  /\ loop[s] = "try" /\ lock = NoProc
  /\ lock' = s
  /\ Move(s, "keep")
  /\ UNCHANGED <<handle, flags, calls>>

\* Mutant: the handle is forgotten, so that nobody can release it.
KeepNothing(s) ==
  /\ loop[s] = "keep"
  /\ Move(s, "round")
  /\ UNCHANGED <<lock, handle, flags, calls>>

(* ... which s.lock remembers for Stop before the first round begins.       *)
Keep(s) ==
  /\ loop[s] = "keep"
  /\ handle' = Set(handle, s)
  /\ Move(s, "round")
  /\ UNCHANGED <<lock, flags, calls>>

\* Mutant: one attempt, as before the fail-over fix.
LoseForGood(s) ==
  /\ loop[s] = "try"
  /\ lock # NoProc \/ s \in Faulty
  /\ Move(s, "over")
  /\ done' = Set(done, s)
  /\ UNCHANGED <<lock, handle, started, stopped, cancelled, calls>>

(* Another process holds it, or the attempt failed: wait for the ticker.    *)
Lose(s) ==
  /\ loop[s] = "try"
  /\ lock # NoProc \/ s \in Faulty
  /\ Move(s, "wait")
  /\ UNCHANGED <<lock, handle, flags, calls>>

Retry(s) ==
  /\ loop[s] = "wait"
  /\ Move(s, "try")
  /\ UNCHANGED <<lock, handle, flags, calls>>

\* Mutant: the path that never ran a round leaves done open.
QuitSilently(s) ==
  /\ loop[s] \in {"wait", "sleep"} /\ cancelled[s]
  /\ Move(s, "over")
  /\ done' = [done EXCEPT ![s] = @ \/ loop[s] = "sleep"]
  /\ UNCHANGED <<lock, handle, started, stopped, cancelled, calls>>

(* The cancelled goroutine ends between attempts or between rounds.         *)
Quit(s) ==
  /\ loop[s] \in {"wait", "sleep"} /\ cancelled[s]
  /\ Move(s, "over")
  /\ done' = Set(done, s)
  /\ UNCHANGED <<lock, handle, started, stopped, cancelled, calls>>

(* runOnce is bounded by half the interval and by the context.              *)
RoundEnds(p) ==
  /\ loop[p] = "round"
  /\ Move(p, "sleep")
  /\ UNCHANGED <<lock, handle, flags, calls>>

RoundBegins(p) ==
  /\ loop[p] = "sleep"
  /\ Move(p, "round")
  /\ UNCHANGED <<lock, handle, flags, calls>>

-----------------------------------------------------------------------------
\* Mutant: the daemon does not ask for the lock.
DaemonUnlocked(d) ==
  /\ loop[d] = "none"
  /\ \E label \in {"round", "sleep"} : Move(d, label)
  /\ UNCHANGED <<lock, handle, flags, calls>>

(* A daemon runs under the lock or not at all; --run-now decides what first.*)
Daemon(d) ==
  /\ loop[d] = "none" /\ lock = NoProc
  /\ lock' = d
  /\ \E label \in {"round", "sleep"} : Move(d, label)
  /\ UNCHANGED <<handle, flags, calls>>

\* The signal is acted upon between cycles.
DaemonStops(d) ==
  /\ loop[d] = "sleep"
  /\ lock' = NoProc
  /\ Move(d, "none")
  /\ UNCHANGED <<handle, flags, calls>>

-----------------------------------------------------------------------------
(* A process dies and the kernel frees its lock; the process may be started *)
(* again, with a fresh Scheduler.                                           *)
Clear(flag, p) == [s \in Servers |-> flag[s] /\ s # p]
Fresh(once, p) == [s \in Servers |-> IF s = p THEN "fresh" ELSE once[s]]

Die(p) ==
  /\ lock' = IF lock = p THEN NoProc ELSE lock
  /\ Move(p, "none")
  /\ handle' = Clear(handle, p)
  /\ started' = Clear(started, p) /\ stopped' = Clear(stopped, p)
  /\ cancelled' = Clear(cancelled, p) /\ done' = Clear(done, p)
  /\ returned' = Clear(returned, p)
  /\ startOnce' = Fresh(startOnce, p) /\ stopOnce' = Fresh(stopOnce, p)
  /\ pc' = [c \in Callers |-> IF c[1] = p THEN "idle" ELSE pc[c]]
  /\ took' = [c \in Callers |-> took[c] /\ c[1] # p]

-----------------------------------------------------------------------------
Running(s) == Acquire(s) \/ Keep(s) \/ Lose(s) \/ Retry(s) \/ Quit(s)
                \/ RoundEnds(s) \/ RoundBegins(s)
StopRest(c) == Cancel(c) \/ Await(c) \/ Release(c)
Calling(c) == StartBody(c) \/ Launch(c) \/ StopBody(c) \/ StopAgain(c) \/ StopRest(c)
Serving(d) == Daemon(d) \/ RoundEnds(d) \/ RoundBegins(d) \/ DaemonStops(d)

Next ==
  \/ \E s \in Servers : Running(s)
  \/ \E c \in Callers : Calling(c)
  \/ \E d \in Daemons : Serving(d)
  \/ \E p \in Procs : Die(p)

Spec == Init /\ [][Next]_vars

(* What has been called or launched goes on.  The runtime chooses fairly    *)
(* between a cancelled context and a ticker, hence SF for Quit; an attempt  *)
(* that could succeed again and again is not for ever met by an error.      *)
Fairness ==
  /\ \A c \in Callers : WF_vars(Launch(c)) /\ WF_vars(StopRest(c))
  /\ \A s \in Servers : /\ WF_vars(Running(s))
                        /\ SF_vars(Quit(s)) /\ SF_vars(Acquire(s))

FairSpec == Spec /\ Fairness

-----------------------------------------------------------------------------
(***************************************************************************)
(* TypeOK: the stages the code passes through; a goroutine runs only for a *)
(* started Scheduler, and done is closed when nothing will run any more.   *)
(***************************************************************************)
Flags == [Servers -> BOOLEAN]
Onces == [Servers -> {"fresh", "running", "over"}]

TypeOK ==
  /\ lock \in Procs \union {NoProc}
  /\ loop \in [Procs -> {"none", "try", "keep", "wait", "round", "sleep", "over"}]
  /\ handle \in Flags /\ started \in Flags /\ stopped \in Flags
  /\ cancelled \in Flags /\ done \in Flags /\ returned \in Flags
  /\ startOnce \in Onces /\ stopOnce \in Onces
  /\ pc \in [Callers -> {"idle", "launch", "cancel", "await", "release"}]
  /\ took \in [Callers -> BOOLEAN]
  /\ \A s \in Servers : loop[s] # "none" => started[s]
  /\ \A s \in Servers : done[s] => loop[s] = "over" \/ (stopped[s] /\ ~started[s])

(***************************************************************************)
(* OneScheduler: at most one process re-prices the watches of a store, at  *)
(* any moment, whatever dies, stops or is started ("at most one price      *)
(* scheduler runs against a given ~/.trvl directory", lock.go:9-10).       *)
(***************************************************************************)
OneScheduler ==
  \A p, q \in Procs : loop[p] = "round" /\ loop[q] = "round" => p = q

(***************************************************************************)
(* StoppedIsQuiet: once a Stop has returned, its Scheduler runs no round   *)
(* and never will, and when the last of the concurrent Stops has returned  *)
(* the lock is free for others, though the process lives on.               *)
(***************************************************************************)
StoppedIsQuiet ==
  \A s \in Servers : returned[s] =>
    /\ loop[s] \in {"none", "over"}
    /\ lock = s => \E h \in Hands : pc[<<s, h>>] = "release"

(***************************************************************************)
(* StopReturns: every Stop returns, also one that races Start, one of a    *)
(* Scheduler that never ran, and one that never got the lock.              *)
(***************************************************************************)
StopReturns ==
  \A c \in Callers : pc[c] \in {"cancel", "await", "release"} ~> pc[c] = "idle"

(***************************************************************************)
(* FailOver: while a started Scheduler that nobody stopped is alive, the   *)
(* store does not stay without a scheduler: one that lost the lock takes   *)
(* over when its holder dies or stops.                                     *)
(***************************************************************************)
Enlisted(s) == started[s] /\ ~stopped[s]
Scheduling(p) == loop[p] \in {"keep", "round", "sleep"}

FailOver ==
  \A s \in Servers : Enlisted(s) ~> (~Enlisted(s) \/ \E p \in Procs : Scheduling(p))
=============================================================================
