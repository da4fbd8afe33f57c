-------------------------- MODULE WatchRoundsProofs --------------------------
(***************************************************************************)
(* The safety of check rounds: which process runs one at all, and how the  *)
(* goroutines of a round share its provider calls.                         *)
(***************************************************************************)
EXTENDS WatchScheduler, RoundCache, TLAPS

-----------------------------------------------------------------------------
(***************************************************************************)
(* OneScheduler and StoppedIsQuiet for any number of servers, daemons and  *)
(* goroutines calling Start and Stop.  Both follow from who answers for    *)
(* the kernel's lock: a process between its rounds, or, once its goroutine *)
(* is over, the handle that Stop has still to release.                     *)
(***************************************************************************)

Active == {"keep", "round", "sleep"}

\* Rounds run under the lock.
RoundsLocked == \A p \in Procs : loop[p] \in Active => lock = p

\* One goroutine is launched per Scheduler, by the one caller in Start's body.
OneLaunch ==
  \A c \in Callers : pc[c] = "launch" =>
    /\ startOnce[c[1]] = "running" /\ started[c[1]] /\ loop[c[1]] = "none"
    /\ \A d \in Callers : pc[d] = "launch" /\ d[1] = c[1] => d = c

StartedOnce == \A s \in Servers : started[s] => startOnce[s] # "fresh"

\* What Stop has passed: only a Scheduler that is over is released.
StopPassed ==
  \A c \in Callers : /\ pc[c] \in {"cancel", "await", "release"} => stopped[c[1]]
                     /\ pc[c] = "release" => done[c[1]] /\ ~handle[c[1]]

StoppedFirst == \A s \in Servers : stopOnce[s] # "fresh" => stopped[s]

\* The handle stands for the lock, and one party at a time has it.
HandleLocks ==
  /\ \A s \in Servers : handle[s] => lock = s /\ loop[s] \in {"round", "sleep", "over"}
  /\ \A c \in Callers : took[c] => /\ pc[c] = "release" /\ lock = c[1]
                                   /\ ~handle[c[1]]
                                   /\ \A d \in Callers : took[d] => d = c

\* A lock held by a server is held by its loop, by its handle or by a Stop.
LockAccounted ==
  \A s \in Servers : lock = s =>
    \/ loop[s] = "keep"
    \/ handle[s]
    \/ loop[s] = "over" /\ \E c \in Callers : took[c] /\ c[1] = s

\* A released Scheduler is over and has no handle.
ReturnedOver == \A s \in Servers : returned[s] => done[s] /\ ~handle[s]

IInv ==
  /\ TypeOK /\ RoundsLocked /\ OneLaunch /\ StartedOnce /\ StopPassed
  /\ StoppedFirst /\ HandleLocks /\ LockAccounted /\ ReturnedOver

-----------------------------------------------------------------------------
(* The first component of a caller is its server.                           *)
LEMMA CallersServer == \A c \in Callers : c[1] \in Servers
BY DEF Callers

(* IInit: every process starts out of the way.                              *)
LEMMA IInit == Init => IInv
BY SchedulerAssumption, CallersServer
DEF Init, IInv, TypeOK, Flags, Onces, Procs, RoundsLocked, OneLaunch, StartedOnce,
    StopPassed, StoppedFirst, HandleLocks, LockAccounted, ReturnedOver, Active

(* IStep: no step of a caller, of a loop or of a daemon, and no death,      *)
(* breaks the inductive invariant.                                          *)
LEMMA IStep == IInv /\ [Next]_vars => IInv'
<1> SUFFICES ASSUME IInv, [Next]_vars PROVE IInv'
  OBVIOUS
<1> USE SchedulerAssumption, CallersServer
    DEF IInv, TypeOK, Flags, Onces, Procs, RoundsLocked, OneLaunch, StartedOnce,
        StopPassed, StoppedFirst, HandleLocks, LockAccounted, ReturnedOver, Active,
        Move, Step, Set
<1>1. ASSUME NEW c \in Callers, StartBody(c) PROVE IInv'
  <2> DEFINE s == c[1]
  <2>1. s \in Servers /\ startOnce[s] = "fresh" /\ ~started[s] /\ loop[s] = "none"
    BY <1>1 DEF StartBody
  <2>2. CASE stopped[s]
    BY <1>1, <2>1, <2>2 DEF StartBody
  <2>3. CASE ~stopped[s]
    <3>1. /\ started' = [started EXCEPT ![s] = TRUE] /\ pc' = [pc EXCEPT ![c] = "launch"]
          /\ startOnce' = [startOnce EXCEPT ![s] = "running"]
          /\ UNCHANGED <<lock, loop, handle, stopped, cancelled, done, stopOnce, took, returned>>
      BY <1>1, <2>3 DEF StartBody
    <3>2. TypeOK' /\ StartedOnce' /\ RoundsLocked' /\ StoppedFirst' /\ ReturnedOver'
      BY <2>1, <2>3, <3>1
    <3>3. OneLaunch'
      BY <2>1, <3>1
    <3>4. StopPassed' /\ HandleLocks' /\ LockAccounted'
      BY <1>1, <2>1, <3>1 DEF StartBody
    <3>. QED
      BY <3>2, <3>3, <3>4
  <2>. QED
    BY <2>2, <2>3
<1>2. ASSUME NEW c \in Callers, Launch(c) PROVE IInv'
  BY <1>2, SMTT(60) DEF Launch, flags, calls
<1>3. ASSUME NEW c \in Callers, StopBody(c) PROVE IInv'
  BY <1>3, SMTT(60) DEF StopBody, flags, calls
<1>4. ASSUME NEW c \in Callers, Cancel(c) PROVE IInv'
  BY <1>4, SMTT(60) DEF Cancel, flags, calls
<1>5. ASSUME NEW c \in Callers, StopAgain(c) PROVE IInv'
  BY <1>5, SMTT(60) DEF StopAgain, flags, calls
<1>6. ASSUME NEW c \in Callers, Await(c) PROVE IInv'
  BY <1>6, SMTT(60) DEF Await, flags, calls
<1>7. ASSUME NEW c \in Callers, Release(c) PROVE IInv'
  BY <1>7, SMTT(60) DEF Release, flags, calls
<1>8. ASSUME NEW s \in Servers, Acquire(s) PROVE IInv'
  BY <1>8, SMTT(60) DEF Acquire, flags, calls
<1>9. ASSUME NEW s \in Servers, Keep(s) PROVE IInv'
  BY <1>9, SMTT(60) DEF Keep, flags, calls
<1>10. ASSUME NEW s \in Servers, Lose(s) PROVE IInv'
  BY <1>10, SMTT(60) DEF Lose, flags, calls
<1>11. ASSUME NEW s \in Servers, Retry(s) PROVE IInv'
  BY <1>11, SMTT(60) DEF Retry, flags, calls
<1>12. ASSUME NEW s \in Servers, Quit(s) PROVE IInv'
  BY <1>12, SMTT(60) DEF Quit, flags, calls
<1>13. ASSUME NEW s \in Procs, RoundEnds(s) PROVE IInv'
  BY <1>13, SMTT(60) DEF RoundEnds, flags, calls
<1>14. ASSUME NEW s \in Procs, RoundBegins(s) PROVE IInv'
  BY <1>14, SMTT(60) DEF RoundBegins, flags, calls
<1>15. ASSUME NEW d \in Daemons, Daemon(d) PROVE IInv'
  BY <1>15, SMTT(60) DEF Daemon, flags, calls
<1>16. ASSUME NEW d \in Daemons, DaemonStops(d) PROVE IInv'
  BY <1>16, SMTT(60) DEF DaemonStops, flags, calls
<1>17. ASSUME NEW p \in Procs, Die(p) PROVE IInv'
  BY <1>17, SMTT(60) DEF Die, Clear, Fresh
<1>18. CASE UNCHANGED vars
  BY <1>18 DEF vars, flags, calls
<1>. QED
  BY <1>1, <1>2, <1>3, <1>4, <1>5, <1>6, <1>7, <1>8, <1>9, <1>10, <1>11, <1>12, <1>13, <1>14, <1>15, <1>16, <1>17, <1>18 DEF Next, Running, Calling, StopRest, Serving

(***************************************************************************)
(* Elected: at every moment at most one process re-prices the watches.     *)
(***************************************************************************)
THEOREM Elected == Spec => []OneScheduler
<1>1. IInv => OneScheduler
  BY DEF IInv, RoundsLocked, OneScheduler, Active
<1>. QED
  BY <1>1, IInit, IStep, PTL DEF Spec

(***************************************************************************)
(* StopsForGood: a returned Stop leaves no round behind it and no lock.    *)
(***************************************************************************)
THEOREM StopsForGood == Spec => []StoppedIsQuiet
<1>1. IInv => StoppedIsQuiet
  <2> SUFFICES ASSUME IInv, NEW s \in Servers, returned[s]
               PROVE  /\ loop[s] \in {"none", "over"}
                      /\ lock = s => \E h \in Hands : pc[<<s, h>>] = "release"
    BY DEF StoppedIsQuiet
  <2>1. done[s] /\ ~handle[s]
    BY DEF IInv, ReturnedOver
  <2>2. loop[s] \in {"none", "over"}
    BY <2>1 DEF IInv, TypeOK
  <2>3. ASSUME lock = s PROVE \E h \in Hands : pc[<<s, h>>] = "release"
    <3>1. PICK c \in Callers : took[c] /\ c[1] = s
      BY <2>1, <2>2, <2>3 DEF IInv, LockAccounted
    <3>2. pc[c] = "release"
      BY <3>1 DEF IInv, HandleLocks
    <3>. QED
      BY <3>1, <3>2 DEF Callers
  <2>. QED
    BY <2>2, <2>3
<1>. QED
  BY <1>1, IInit, IStep, PTL DEF Spec

(***************************************************************************)
(* SchedulerTyped: a goroutine runs only for a started Scheduler, and done *)
(* is closed when nothing will run any more.                               *)
(***************************************************************************)
THEOREM SchedulerTyped == Spec => []TypeOK
<1>1. IInv => TypeOK
  BY DEF IInv
<1>. QED
  BY <1>1, IInit, IStep, PTL DEF Spec

-----------------------------------------------------------------------------
(***************************************************************************)
(* The safety of a bounded round for any watches, targets and slots.  It   *)
(* follows from who may write an entry: the goroutine that registered it,  *)
(* once, at the end of its call.                                           *)
(***************************************************************************)

\* A call was made for a key exactly when a goroutine is registered for it.
CallsCounted == \A k \in PollKeys : asked[k] = IF leader[k] = NoWatch THEN 0 ELSE 1

\* Whoever is in a call is registered for its key, and the entry is open.
CallersLead ==
  \A w \in Watches : at[w] = "calling" =>
    /\ leader[KeyOf[w]] = w
    /\ final[KeyOf[w]] = NoResult

\* Nothing is final for a key that nobody registered.
FinalLed == \A k \in PollKeys : leader[k] = NoWatch => final[k] = NoResult

RoundIInv == RoundTypeOK /\ CallsCounted /\ CallersLead /\ FinalLed /\ PricesAgree /\ NothingLost

-----------------------------------------------------------------------------
(* Keys are keys, and no watch is the absent one.                           *)
LEMMA KeysKnown == \A w \in Watches : KeyOf[w] \in PollKeys /\ w # NoWatch
BY RoundAssumption

(* A result is a price or an error, and neither is the absence of one.      *)
LEMMA ResultKinds ==
  /\ NoResult.kind = "none"
  /\ \A n : Price(n).kind = "price"
  /\ \A e : Error(e).kind = "error"
  /\ \A r \in Results : r.kind \in {"price", "error"} /\ r # NoResult
<1>1. NoResult.kind = "none" /\ (\A n : Price(n).kind = "price") /\ \A e : Error(e).kind = "error"
  BY DEF NoResult, Price, Error
<1>2. ASSUME NEW r \in Results PROVE r.kind \in {"price", "error"}
  <2>1. CASE \E n \in Prices : r = Price(n)
    BY <2>1, <1>1
  <2>2. CASE \E e \in Errors : r = Error(e)
    BY <2>2, <1>1
  <2> QED BY <2>1, <2>2 DEF Results
<1>3. \A r \in Results : r # NoResult
  BY <1>1, <1>2
<1> QED BY <1>1, <1>2, <1>3

(* What a call returns, and what a done context says, are results.          *)
LEMMA ReturnsResults ==
  ASSUME NEW w \in Watches
  PROVE  /\ Returns(w) \subseteq Results
         /\ \A e \in CtxErrors(w) : Error(e) \in Results /\ (expired[w] \/ gone)
<1>1. \A e \in CtxErrors(w) : e \in Errors /\ (expired[w] \/ gone)
  BY DEF CtxErrors, Errors
<1>2. \A e \in Errors : Error(e) \in Results
  BY DEF Results
<1>3. "failed" \in Errors
  BY DEF Errors
<1>4. Returns(w) \subseteq Results
  <2> SUFFICES ASSUME NEW r \in Returns(w) PROVE r \in Results
    OBVIOUS
  <2>1. CASE \E n \in Prices : r = Price(n)
    BY <2>1 DEF Results
  <2>2. CASE r = Error("failed") \/ \E e \in CtxErrors(w) : r = Error(e)
    BY <2>2, <1>1, <1>2, <1>3
  <2> QED BY <2>1, <2>2 DEF Returns
<1> QED BY <1>1, <1>2, <1>4

(* RoundStarts: before the round nothing is registered.                     *)
LEMMA RoundStarts == RoundInit => RoundIInv
<1> SUFFICES ASSUME RoundInit PROVE RoundIInv
  OBVIOUS
<1> USE KeysKnown, ResultKinds DEF RoundInit
<1>1. RoundTypeOK
  <2>1. expired \in [Watches -> BOOLEAN] /\ gone \in BOOLEAN
    OBVIOUS
  <2>2. \A w \in Watches : (result[w] # NoResult) = (at[w] \in {"leaving", "returned"})
    <3> SUFFICES ASSUME NEW w \in Watches
                 PROVE  (result[w] # NoResult) = (at[w] \in {"leaving", "returned"})
      OBVIOUS
    <3>1. result[w] = NoResult /\ at[w] = "queued"
      OBVIOUS
    <3> QED BY <3>1
  <2>3. at \in [Watches -> {"queued", "inside", "calling", "following", "leaving", "returned"}]
    OBVIOUS
  <2>4. /\ leader \in [PollKeys -> Watches \union {NoWatch}]
        /\ final \in [PollKeys -> Results \union {NoResult}]
        /\ asked \in [PollKeys -> Nat]
        /\ result \in [Watches -> Results \union {NoResult}]
    OBVIOUS
  <2> QED BY <2>1, <2>2, <2>3, <2>4, Zenon DEF RoundTypeOK
<1>2. CallsCounted /\ FinalLed
  BY DEF CallsCounted, FinalLed
<1>3. CallersLead
  BY DEF CallersLead
<1>4. PricesAgree /\ NothingLost
  BY DEF PricesAgree, NothingLost
<1> QED BY <1>1, <1>2, <1>3, <1>4 DEF RoundIInv

(* RoundSteps: no step of a goroutine, no deadline and no cancellation      *)
(* breaks the inductive invariant.                                          *)
LEMMA RoundSteps == RoundIInv /\ [RoundNext]_roundVars => RoundIInv'
<1> SUFFICES ASSUME RoundIInv, [RoundNext]_roundVars PROVE RoundIInv'
  OBVIOUS
<1> USE KeysKnown, ResultKinds, ReturnsResults
    DEF RoundIInv, RoundTypeOK, CallsCounted, CallersLead, FinalLed, PricesAgree, NothingLost, MoveTo
<1>1. ASSUME NEW w \in Watches, Enter(w) PROVE RoundIInv'
  BY <1>1 DEF Enter
<1>2. ASSUME NEW w \in Watches, Turn(w) PROVE RoundIInv'
  BY <1>2 DEF Turn, Results, Errors
<1>3. ASSUME NEW w \in Watches, Refuse(w) PROVE RoundIInv'
  BY <1>3 DEF Refuse, Results, Errors
<1>4. ASSUME NEW w \in Watches, Lead(w) PROVE RoundIInv'
  <2>1. RoundTypeOK'
    BY <1>4 DEF Lead
  <2>2. CallsCounted'
    BY <1>4 DEF Lead
  <2>3. CallersLead'
    <3>1. final[KeyOf[w]] = NoResult
      BY <1>4 DEF Lead
    <3> QED BY <1>4, <3>1 DEF Lead
  <2> QED BY <1>4, <2>1, <2>2, <2>3 DEF Lead
<1>5. ASSUME NEW w \in Watches, Follow(w) PROVE RoundIInv'
  BY <1>5 DEF Follow
<1>6. ASSUME NEW w \in Watches, CallReturns(w) PROVE RoundIInv'
  BY <1>6 DEF CallReturns
<1>7. ASSUME NEW w \in Watches, Share(w) PROVE RoundIInv'
  BY <1>7 DEF Share
<1>8. ASSUME NEW w \in Watches, Abandon(w) PROVE RoundIInv'
  BY <1>8 DEF Abandon
<1>9. ASSUME NEW w \in Watches, Leave(w) PROVE RoundIInv'
  BY <1>9 DEF Leave
<1>10. ASSUME NEW w \in Watches, Deadline(w) PROVE RoundIInv'
  BY <1>10 DEF Deadline
<1>11. CASE CancelCaller
  BY <1>11 DEF CancelCaller
<1>12. CASE UNCHANGED roundVars
  BY <1>12 DEF roundVars
<1> QED
  BY <1>1, <1>2, <1>3, <1>4, <1>5, <1>6, <1>7, <1>8, <1>9, <1>10, <1>11, <1>12
  DEF RoundNext, Go, Over

(* The invariant of every reachable state of a round.                       *)
LEMMA RoundInductive == RoundSpec => []RoundIInv
BY RoundStarts, RoundSteps, PTL DEF RoundSpec

-----------------------------------------------------------------------------
(* A goroutine has a result exactly when it has left the cache.             *)
THEOREM RoundTyped == RoundSpec => []RoundTypeOK
BY RoundInductive, PTL DEF RoundIInv

(***************************************************************************)
(* "One provider call per distinct polled target for the whole round", for *)
(* any number of duplicates, slots and cancellations.                      *)
(***************************************************************************)
THEOREM OneCall == RoundSpec => []OneCallPerTarget
<1>1. RoundIInv => OneCallPerTarget
  <2> SUFFICES ASSUME RoundIInv, NEW k \in PollKeys PROVE asked[k] <= 1
    BY DEF OneCallPerTarget
  <2>1. asked[k] = IF leader[k] = NoWatch THEN 0 ELSE 1
    BY DEF RoundIInv, CallsCounted
  <2> QED BY <2>1
<1> QED BY RoundInductive, <1>1, PTL

(* A follower shows the price of its target's one call, or none.            *)
THEOREM OnePrice == RoundSpec => []PricesAgree
BY RoundInductive, PTL DEF RoundIInv

(***************************************************************************)
(* A watch goes unchecked only for its own deadline, the caller's, or a    *)
(* failure of the one call for its target.                                 *)
(***************************************************************************)
THEOREM EveryoneHears == RoundSpec => []NothingLost
BY RoundInductive, PTL DEF RoundIInv
=============================================================================
