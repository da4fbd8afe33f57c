------------------------------ MODULE GroundSearch ------------------------------
(***************************************************************************)
(* Ground searches of one process (ground/search.go): callers that first   *)
(* look into the response cache and the cache of routes without service,   *)
(* then share one run per cache key (singleflight); the runs, which ask    *)
(* every provider behind a circuit breaker and fill the caches.            *)
(*                                                                         *)
(* Callers come once each.  A run works with the options of the caller     *)
(* that launched it, under a context that outlives that caller.            *)
(***************************************************************************)
EXTENDS Integers, FiniteSets

CONSTANTS
  Callers,
  Route,      \* what a caller asks for: endpoints, date, filters
  Seasons,    \* endpoints and months: the keys of the negative cache
  Season,     \* that of a caller
  Bypass,     \* callers with NoCache
  Filtered,   \* callers with MaxPrice or Type, whom the negative cache ignores
  Providers,
  Runs,       \* names for runs: the bound of the model
  Threshold,  \* failures in a row that trip a breaker
  Cooldown, CacheTTL, NegTTL, \* in ticks
  NegCapacity, \* defaultNegMaxEntries
  MaxClock,   \* ticks in one behaviour: the bound of the model
  None

ASSUME SearchAssumption ==
  /\ IsFiniteSet(Callers) /\ IsFiniteSet(Runs) /\ IsFiniteSet(Seasons)
  /\ Season \in [Callers -> Seasons] /\ None \notin Runs \union Callers \union Nat
  /\ Threshold \in Nat \ {0} /\ Cooldown \in Nat /\ CacheTTL \in Nat /\ NegTTL \in Nat
  /\ NegCapacity \in Nat \ {0} /\ MaxClock \in Nat
  /\ Bypass \subseteq Callers /\ Filtered \subseteq Callers

Keys == {Route[s] : s \in Callers}

VARIABLES
  clock,
  at,       \* where a caller is
  joined,   \* the run a caller waits for
  answer,   \* what a caller returned with
  flight,   \* groundGroup: the run that a key is registered for
  owner,    \* the caller that launched a run
  phase,    \* "unused", "asking", "concluded", "over"
  outcome,  \* per run and provider
  cache,    \* groundCache: the run that made an entry, and its expiry
  neg,      \* groundNegCache: expiry of an entry, or None
  fails,    \* breaker: failures in a row, up to Threshold
  failed    \* breaker: time of the last failure

callerVars == <<at, joined, answer>>
runVars == <<flight, owner, phase, outcome>>
cacheVars == <<cache, neg>>
breakerVars == <<fails, failed>>
vars == <<clock, callerVars, runVars, cacheVars, breakerVars>>

NoEntry == [run |-> None, expires |-> 0]

\* The seasons marked as without service, a mark that has expired included.
Marked == {n \in Seasons : neg[n] # None}

(* The breakers and the negative cache remember earlier searches.           *)
Init ==
  /\ clock = 0
  /\ at = [s \in Callers |-> "idle"]
  /\ joined = [s \in Callers |-> None] /\ answer = [s \in Callers |-> "none"]
  /\ flight = [k \in Keys |-> None]
  /\ owner = [r \in Runs |-> None] /\ phase = [r \in Runs |-> "unused"]
  /\ outcome = [r \in Runs |-> [p \in Providers |-> "todo"]]
  /\ cache = [k \in Keys |-> NoEntry] 
  /\ neg \in [Seasons -> (0..NegTTL) \union {None}] /\ Cardinality(Marked) <= NegCapacity
  /\ fails \in [Providers -> 0..Threshold - 1] /\ failed = [p \in Providers |-> 0]

-----------------------------------------------------------------------------
(* A caller: SearchByName and doGroundSearchSingleflight.                   *)

Go(s, to) == at' = [at EXCEPT ![s] = to]

Return(s, what) == Go(s, "returned") /\ answer' = [answer EXCEPT ![s] = what]

Unused == {r \in Runs : phase[r] = "unused"}

\* A bound of the model: whoever comes finds a name for the run it may launch.
Comes(s) ==
  /\ at[s] = "idle"
  /\ Cardinality({c \in Callers : at[c] \notin {"idle", "waiting", "returned"}})
       < Cardinality(Unused)

Looks(s) == Comes(s) /\ s \notin Bypass

NoCache(s) ==
  /\ Comes(s) /\ s \in Bypass
  /\ Go(s, "joining")
  /\ UNCHANGED <<joined, answer, clock, runVars, cacheVars, breakerVars>>

\* Mutant: an expired entry is still served.
FreshAlways(e) == e.run # None

Fresh(e) == e.run # None /\ clock <= e.expires

(* groundCache.Get: a fresh entry is the answer ...                         *)
Hit(s) ==
  /\ Looks(s) /\ Fresh(cache[Route[s]])
  /\ joined' = [joined EXCEPT ![s] = cache[Route[s]].run]
  /\ Return(s, "cached")
  /\ UNCHANGED <<clock, runVars, cacheVars, breakerVars>>

(* ... an expired one is removed, in a critical section of its own ...      *)
Expired(s) ==
  /\ Looks(s) /\ cache[Route[s]].run # None /\ ~Fresh(cache[Route[s]])
  /\ Go(s, "evicting")
  /\ UNCHANGED <<joined, answer, clock, runVars, cacheVars, breakerVars>>

(* Whatever the key holds by now is removed.                                *)
Evict(s) ==
  /\ at[s] = "evicting"
  /\ Go(s, "doubting")
  /\ cache' = [cache EXCEPT ![Route[s]] = NoEntry]
  /\ UNCHANGED <<joined, answer, neg, clock, runVars, breakerVars>>

\* ... and without one the caller turns to the other cache.
Missed(s) == at[s] = "doubting" \/ (Looks(s) /\ cache[Route[s]].run = None)

Live(n) == neg[n] # None /\ clock < neg[n]

(* groundNegCache.Seen, for callers without a filter.                       *)
NoService(s) ==
  /\ Missed(s) /\ s \notin Filtered /\ Live(Season[s])
  /\ Return(s, "no service")
  /\ UNCHANGED <<joined, clock, runVars, cacheVars, breakerVars>>

NotSeen(s) ==
  /\ Missed(s) /\ (s \in Filtered \/ neg[Season[s]] = None)
  /\ Go(s, "joining")
  /\ UNCHANGED <<joined, answer, clock, runVars, cacheVars, breakerVars>>

Outdated(s) ==
  /\ Missed(s) /\ s \notin Filtered /\ neg[Season[s]] # None /\ ~Live(Season[s])
  /\ Go(s, "unmarking")
  /\ UNCHANGED <<joined, answer, clock, runVars, cacheVars, breakerVars>>

\* Mutant: removed without a second look.
UnmarkedBlindly(n) == None

(* "Re-check under the write lock: a concurrent Mark may have refreshed it" *)
Unmarked(n) == IF Live(n) THEN neg[n] ELSE None

Unmark(s) ==
  /\ at[s] = "unmarking"
  /\ Go(s, "joining")
  /\ neg' = [neg EXCEPT ![Season[s]] = Unmarked(Season[s])]
  /\ UNCHANGED <<joined, answer, cache, clock, runVars, breakerVars>>

\* The name that the next run gets.
NewRun == CHOOSE r \in Unused : TRUE

(* DoChan: join the run that is registered for the key ...                  *)
Join(s) ==
  /\ at[s] = "joining" /\ flight[Route[s]] # None
  /\ Go(s, "waiting")
  /\ joined' = [joined EXCEPT ![s] = flight[Route[s]]]
  /\ UNCHANGED <<answer, clock, runVars, cacheVars, breakerVars>>

(* ... or launch one.                                                       *)
Launch(s, r) ==
  /\ at[s] = "joining" /\ flight[Route[s]] = None
  /\ Go(s, "waiting")
  /\ joined' = [joined EXCEPT ![s] = r]
  /\ flight' = [flight EXCEPT ![Route[s]] = r]
  /\ owner' = [owner EXCEPT ![r] = s]
  /\ phase' = [phase EXCEPT ![r] = "asking"]
  /\ UNCHANGED <<answer, outcome, clock, cacheVars, breakerVars>>

(* Its context has ended before it begins.                                  *)
NotBegun(s) ==
  /\ at[s] = "joining"
  /\ Return(s, "context")
  /\ UNCHANGED <<joined, clock, runVars, cacheVars, breakerVars>>

\* Mutant: the run stays registered.
ForgetNot(k) == UNCHANGED flight

\* groundGroup.Forget, whichever run is registered by now.
Forget(k) == flight' = [flight EXCEPT ![k] = None]

(* The caller's context ends while it waits.                                *)
WalkAway(s) ==
  /\ at[s] = "waiting"
  /\ Return(s, "context") /\ Forget(Route[s])
  /\ UNCHANGED <<joined, owner, phase, outcome, clock, cacheVars, breakerVars>>

\* Mutant: only the caller that launched the run hears of its end.
ReceiveLauncher(s) ==
  /\ at[s] = "waiting" /\ phase[joined[s]] = "over" /\ owner[joined[s]] = s
  /\ Return(s, "result")
  /\ UNCHANGED <<joined, clock, runVars, cacheVars, breakerVars>>

(* The run is over; every caller that waits gets a copy of its result.      *)
Receive(s) ==
  /\ at[s] = "waiting" /\ phase[joined[s]] = "over"
  /\ Return(s, "result")
  /\ UNCHANGED <<joined, clock, runVars, cacheVars, breakerVars>>

-----------------------------------------------------------------------------
(* A run: searchByNameCore and launchProvider.                              *)

Tripped(p) == fails[p] >= Threshold /\ clock - failed[p] < Cooldown

Learn(r, p, what) == outcome' = [outcome EXCEPT ![r][p] = what]

Skip(r, p) ==
  /\ phase[r] = "asking" /\ outcome[r][p] = "todo" /\ Tripped(p)
  /\ Learn(r, p, "skipped")
  /\ UNCHANGED <<flight, owner, phase, clock, callerVars, cacheVars, breakerVars>>

Ask(r, p) ==
  /\ phase[r] = "asking" /\ outcome[r][p] = "todo" /\ ~Tripped(p)
  /\ Learn(r, p, "calling")
  /\ UNCHANGED <<flight, owner, phase, clock, callerVars, cacheVars, breakerVars>>

(* Routes, or none: an empty answer, or "not applicable" to the endpoints.  *)
Succeed(r, p) ==
  /\ outcome[r][p] = "calling"
  /\ \E what \in {"routes", "nothing"} : Learn(r, p, what)
  /\ fails' = [fails EXCEPT ![p] = 0] /\ failed' = [failed EXCEPT ![p] = 0]
  /\ UNCHANGED <<flight, owner, phase, clock, callerVars, cacheVars>>

(* An error, the run's deadline among them.                                 *)
Fail(r, p) ==
  /\ outcome[r][p] = "calling"
  /\ Learn(r, p, "error")
  /\ fails' = [fails EXCEPT ![p] = IF @ < Threshold THEN @ + 1 ELSE @]
  /\ failed' = [failed EXCEPT ![p] = clock]
  /\ UNCHANGED <<flight, owner, phase, clock, callerVars, cacheVars>>

Outcomes(r) == {outcome[r][p] : p \in Providers}

\* The caches are kept with the options of the caller that launched the run.
Caches(r) == "routes" \in Outcomes(r) /\ owner[r] \notin Bypass

Marks(r) ==
  /\ Outcomes(r) \intersect {"routes", "error"} = {}
  /\ owner[r] \notin Bypass \union Filtered

\* Mutants: no room is made; a live mark goes where an expired one could.
MarkUnbounded(n) == neg' = [neg EXCEPT ![n] = clock + NegTTL]
VictimsAny == Marked

\* evictLocked: an expired mark if there is one, and if not any.
Victims ==
  LET expired == {n \in Marked : ~Live(n)}
  IN IF expired = {} THEN Marked ELSE expired

\* groundNegCache.Mark: in a full cache a mark goes first, whichever season comes.
Mark(n) ==
  IF Cardinality(Marked) < NegCapacity THEN neg' = [neg EXCEPT ![n] = clock + NegTTL]
  ELSE \E m \in Victims : neg' = [neg EXCEPT ![m] = None, ![n] = clock + NegTTL]

(* The results are collected, ranked and cached.                            *)
Conclude(r) ==
  /\ phase[r] = "asking" /\ Outcomes(r) \intersect {"todo", "calling"} = {}
  /\ phase' = [phase EXCEPT ![r] = "concluded"]
  /\ cache' = IF Caches(r)
              THEN [cache EXCEPT ![Route[owner[r]]] = [run |-> r, expires |-> clock + CacheTTL]]
              ELSE cache
  /\ IF Marks(r) THEN Mark(Season[owner[r]]) ELSE UNCHANGED neg
  /\ UNCHANGED <<flight, owner, outcome, clock, callerVars, breakerVars>>

\* The key is free again, unless another run was registered for it meanwhile.
Unregister(r) ==
  flight' = [flight EXCEPT ![Route[owner[r]]] = IF @ = r THEN None ELSE @]

Deliver(r) ==
  /\ phase[r] = "concluded"
  /\ phase' = [phase EXCEPT ![r] = "over"] /\ Unregister(r)
  /\ UNCHANGED <<owner, outcome, clock, callerVars, cacheVars, breakerVars>>

-----------------------------------------------------------------------------
(* The janitor of the response cache, every minute.                         *)
Clean ==
  /\ \E k \in Keys : cache[k].run # None /\ ~Fresh(cache[k])
  /\ cache' = [k \in Keys |-> IF Fresh(cache[k]) THEN cache[k] ELSE NoEntry]
  /\ UNCHANGED <<neg, clock, callerVars, runVars, breakerVars>>

Tick ==
  /\ clock < MaxClock
  /\ clock' = clock + 1
  /\ UNCHANGED <<callerVars, runVars, cacheVars, breakerVars>>

CallerStep(s) ==
  Hit(s) \/ Expired(s) \/ Evict(s) \/ NoService(s) \/ NotSeen(s) \/ Outdated(s)
    \/ Unmark(s) \/ Join(s) \/ Launch(s, NewRun) \/ Receive(s)

RunStep(r) ==
  \/ \E p \in Providers : Skip(r, p) \/ Ask(r, p) \/ Succeed(r, p) \/ Fail(r, p)
  \/ Conclude(r) \/ Deliver(r)

Next ==
  \/ \E s \in Callers : NoCache(s) \/ CallerStep(s) \/ NotBegun(s) \/ WalkAway(s)
  \/ \E r \in Runs : RunStep(r)
  \/ Clean \/ Tick

Spec == Init /\ [][Next]_vars

(* Goroutines go on, and a provider is given a context with a deadline; no  *)
(* caller has to come, and no caller's context has to end.                  *)
FairSpec ==
  /\ Spec
  /\ \A s \in Callers : WF_vars(at[s] # "idle" /\ CallerStep(s))
  /\ \A r \in Runs : WF_vars(RunStep(r))

-----------------------------------------------------------------------------
TypeOK ==
  /\ clock \in 0..MaxClock
  /\ at \in [Callers -> {"idle", "evicting", "doubting", "unmarking", "joining",
                         "waiting", "returned"}]
  /\ joined \in [Callers -> Runs \union {None}]
  /\ answer \in [Callers -> {"none", "cached", "no service", "context", "result"}]
  /\ flight \in [Keys -> Runs \union {None}]
  /\ owner \in [Runs -> Callers \union {None}]
  /\ phase \in [Runs -> {"unused", "asking", "concluded", "over"}]
  /\ outcome \in [Runs -> [Providers -> {"todo", "calling", "skipped", "routes", "nothing", "error"}]]
  /\ cache \in [Keys -> [run : Runs \union {None}, expires : Nat]]
  /\ neg \in [Seasons -> Nat \union {None}]
  /\ fails \in [Providers -> 0..Threshold] /\ failed \in [Providers -> Nat]

(***************************************************************************)
(* AnswersFit: whoever gets a result gets that of a run for exactly what   *)
(* it asked, complete, and from the cache only while it is fresh and has   *)
(* routes -- through any order of runs that were forgotten and overtaken   *)
(* each other.                                                             *)
(***************************************************************************)
AnswersFit ==
  [][\A s \in Callers : answer'[s] \in {"cached", "result"} /\ answer[s] = "none" =>
       LET r == joined'[s] IN
         /\ Route[owner[r]] = Route[s]
         /\ Outcomes(r) \intersect {"todo", "calling"} = {}
         /\ answer'[s] = "cached" =>
              "routes" \in Outcomes(r) /\ clock <= cache[Route[s]].expires]_vars

(***************************************************************************)
(* NoInheritance: "Forget timed-out work eagerly so the next caller can    *)
(* launch a fresh execution instead of inheriting the prior caller's"      *)
(* (search.go:379): no caller joins a run that another has walked away     *)
(* from.  The price is bounded: a key has one run more in flight than      *)
(* callers have walked away from it.                                       *)
(***************************************************************************)
InFlight(k) == {r \in Runs : phase[r] \in {"asking", "concluded"} /\ Route[owner[r]] = k}
Walked(k) == {s \in Callers : answer[s] = "context" /\ Route[s] = k}

NoInheritance ==
  \A k \in Keys :
    /\ \A s \in Walked(k) : flight[k] # joined[s] \/ flight[k] = None
    /\ Cardinality(InFlight(k)) <= 1 + Cardinality(Walked(k))
    /\ flight[k] # None => flight[k] \in InFlight(k)

(***************************************************************************)
(* NegativeKept: a "no service" that is live goes only to make room for    *)
(* another, in a cache that is full of live ones; no lookup that read an   *)
(* older, expired one removes it.  And the cache stays within its bound    *)
(* ("so the map stays bounded", negcache.go:101).                          *)
(***************************************************************************)
NegativeKept ==
  [][/\ Cardinality(Marked') <= NegCapacity
     /\ \A n \in Seasons : Live(n) /\ neg'[n] = None =>
          /\ Cardinality(Marked) = NegCapacity /\ \A m \in Marked : Live(m)
          /\ \E r \in Runs : phase[r] = "asking" /\ phase'[r] = "concluded" /\ Marks(r)]_vars

(***************************************************************************)
(* StayersAnswered: a caller whose context does not end gets an answer;    *)
(* that others share its run, launched it or walk away from it makes no    *)
(* difference.                                                             *)
(***************************************************************************)
StayersAnswered == \A s \in Callers : (at[s] # "idle") ~> (answer[s] # "none")

(***************************************************************************)
(* NegativeOnlyClean: "A run with any error is never cached, so transient  *)
(* failures always retry" (search_prefetch.go:25): a route is marked as    *)
(* without service only by a run in which every provider said so.          *)
(***************************************************************************)
NegativeOnlyClean ==
  [][\A n \in Seasons : neg'[n] \notin {neg[n], None} =>
       \E r \in Runs : phase[r] = "asking" /\ phase'[r] = "concluded" /\ Outcomes(r) = {"nothing"}]_vars
=============================================================================
