--------------------------- MODULE GroundSearchProofs ---------------------------
(***************************************************************************)
(* The safety of shared ground searches for any callers, keys, providers   *)
(* and runs.  What a caller waits for, what a key is registered for and    *)
(* what the cache holds are all runs for the right key; a run that has     *)
(* concluded does not change any more; and whoever walks away leaves at    *)
(* most one run behind.                                                    *)
(***************************************************************************)
EXTENDS GroundSearch, FiniteSetTheorems, TLAPS

Looking == {c \in Callers : at[c] \notin {"idle", "waiting", "returned"}}

\* Whoever looks finds a name for the run it may launch: the model's bound.
Room == Cardinality(Looking) <= Cardinality(Unused)

(* There are finitely many callers that look, and names left for runs.      *)
LEMMA SetsFinite ==
  /\ IsFiniteSet(Looking) /\ Cardinality(Looking) \in Nat
  /\ IsFiniteSet(Unused) /\ Cardinality(Unused) \in Nat
<1>1. Looking \subseteq Callers /\ Unused \subseteq Runs
  BY DEF Looking, Unused
<1>2. IsFiniteSet(Looking) /\ IsFiniteSet(Unused)
  BY <1>1, SearchAssumption, FS_Subset
<1> QED BY <1>2, FS_CardinalityType

(* While there is room, a caller that looks finds an unused name.           *)
LEMMA NewRunIs == ASSUME Room, NEW s \in Looking PROVE NewRun \in Unused
<1>1. Cardinality(Looking) # 0
  BY SetsFinite, FS_EmptySet
<1>2. Cardinality(Unused) # 0
  BY <1>1, SetsFinite DEF Room
<1>3. Unused # {}
  BY <1>2, FS_EmptySet
<1> QED BY <1>3 DEF NewRun

-----------------------------------------------------------------------------
(* No step of a caller uses up more names than there are.                   *)
LEMMA GoLooking ==
  ASSUME TypeOK, NEW s \in Callers, NEW to, Go(s, to)
  PROVE  /\ to \in {"idle", "waiting", "returned"} => Looking' = Looking \ {s}
         /\ to \notin {"idle", "waiting", "returned"} => Looking' = Looking \union {s}
<1>1. DOMAIN at = Callers /\ at' = [at EXCEPT ![s] = to]
  BY DEF TypeOK, Go
<1>2. at'[s] = to /\ \A c \in Callers : c # s => at'[c] = at[c]
  BY <1>1
<1> QED BY <1>2 DEF Looking

(* A run that begins takes its own name out of the unused ones.             *)
LEMMA PhaseUnused ==
  ASSUME TypeOK, NEW r \in Runs, NEW to, to # "unused", phase' = [phase EXCEPT ![r] = to]
  PROVE  Unused' = Unused \ {r}
<1>1. DOMAIN phase = Runs
  BY DEF TypeOK
<1>2. phase'[r] = to /\ \A q \in Runs : q # r => phase'[q] = phase[q]
  BY <1>1
<1> QED BY <1>2 DEF Unused

(* A caller that launches uses up one name and stops looking, so room       *)
(* lasts.                                                                   *)
LEMMA RoomStep == TypeOK /\ Room /\ [Next]_vars => Room'
<1> SUFFICES ASSUME TypeOK, Room, [Next]_vars PROVE Room'
  OBVIOUS
<1>1. ASSUME Looking' \subseteq Looking, Unused' = Unused PROVE Room'
  <2>1. Cardinality(Looking') <= Cardinality(Looking) /\ Cardinality(Looking') \in Nat
    BY <1>1, SetsFinite, FS_Subset, FS_CardinalityType
  <2>2. Cardinality(Unused') = Cardinality(Unused)
    BY <1>1
  <2> QED BY <2>1, <2>2, SetsFinite DEF Room
<1>2. ASSUME UNCHANGED <<at, phase>> PROVE Room'
  BY <1>1, <1>2 DEF Looking, Unused
<1>3. ASSUME NEW s \in Callers, Comes(s), Looking' = Looking \union {s}, Unused' = Unused
      PROVE Room'
  <2>1. s \notin Looking /\ Cardinality(Looking) < Cardinality(Unused)
    BY <1>3 DEF Comes, Looking
  <2>2. Cardinality(Looking') = Cardinality(Looking) + 1
    BY <1>3, <2>1, SetsFinite, FS_AddElement
  <2>3. Cardinality(Unused') = Cardinality(Unused)
    BY <1>3
  <2> QED BY <2>1, <2>2, <2>3, SetsFinite DEF Room
<1>4. ASSUME NEW s \in Callers, NEW to \in {"waiting", "returned"}, Go(s, to), UNCHANGED phase
      PROVE Room'
  BY <1>1, <1>4, GoLooking DEF Unused
<1>5. ASSUME NEW s \in Callers, s \in Looking, NEW to \in {"doubting", "joining", "unmarking"},
             Go(s, to), UNCHANGED phase
      PROVE Room'
  <2>1. Looking' = Looking \union {s}
    BY <1>5, GoLooking
  <2>2. Unused' = Unused
    BY <1>5 DEF Unused
  <2> QED BY <1>1, <1>5, <2>1, <2>2
<1>6. ASSUME NEW s \in Callers, Comes(s), NEW to \in {"evicting", "joining", "unmarking"},
             Go(s, to), UNCHANGED phase
      PROVE Room'
  <2>1. Looking' = Looking \union {s}
    BY <1>6, GoLooking
  <2>2. Unused' = Unused
    BY <1>6 DEF Unused
  <2> QED BY <1>3, <1>6, <2>1, <2>2
<1>7. ASSUME NEW s \in Callers, Missed(s), NEW to \in {"joining", "unmarking"},
             Go(s, to), UNCHANGED phase
      PROVE Room'
  <2>1. CASE at[s] = "doubting"
    <3>1. s \in Looking
      BY <2>1 DEF Looking
    <3> QED BY <1>5, <1>7, <3>1
  <2>2. CASE Comes(s)
    BY <1>6, <1>7, <2>2
  <2> QED BY <1>7, <2>1, <2>2 DEF Missed, Looks
<1>8. ASSUME NEW s \in Callers, Hit(s) \/ NoService(s) \/ NotBegun(s) \/ Receive(s) \/ WalkAway(s)
      PROVE Room'
  <2>1. Go(s, "returned") /\ UNCHANGED phase
    BY <1>8 DEF Hit, NoService, NotBegun, Receive, WalkAway, Return, runVars
  <2> QED BY <1>4, <2>1
<1>9. ASSUME NEW s \in Callers, Join(s) PROVE Room'
  <2>1. Go(s, "waiting") /\ UNCHANGED phase
    BY <1>9 DEF Join, runVars
  <2> QED BY <1>4, <2>1
<1>10. ASSUME NEW s \in Callers, Evict(s) PROVE Room'
  <2>1. s \in Looking /\ Go(s, "doubting") /\ UNCHANGED phase
    BY <1>10 DEF Evict, Looking, runVars
  <2> QED BY <1>5, <2>1
<1>11. ASSUME NEW s \in Callers, Unmark(s) PROVE Room'
  <2>1. s \in Looking /\ Go(s, "joining") /\ UNCHANGED phase
    BY <1>11 DEF Unmark, Looking, runVars
  <2> QED BY <1>5, <2>1
<1>12. ASSUME NEW s \in Callers, NoCache(s) PROVE Room'
  <2>1. Comes(s) /\ Go(s, "joining") /\ UNCHANGED phase
    BY <1>12 DEF NoCache, runVars
  <2> QED BY <1>6, <2>1
<1>13. ASSUME NEW s \in Callers, Expired(s) PROVE Room'
  <2>1. Comes(s) /\ Go(s, "evicting") /\ UNCHANGED phase
    BY <1>13 DEF Expired, Looks, runVars
  <2> QED BY <1>6, <2>1
<1>14. ASSUME NEW s \in Callers, NotSeen(s) PROVE Room'
  <2>1. Missed(s) /\ Go(s, "joining") /\ UNCHANGED phase
    BY <1>14 DEF NotSeen, runVars
  <2> QED BY <1>7, <2>1
<1>15. ASSUME NEW s \in Callers, Outdated(s) PROVE Room'
  <2>1. Missed(s) /\ Go(s, "unmarking") /\ UNCHANGED phase
    BY <1>15 DEF Outdated, runVars
  <2> QED BY <1>7, <2>1
<1>16. ASSUME NEW s \in Callers, Launch(s, NewRun) PROVE Room'
  <2>1. s \in Looking
    BY <1>16 DEF Launch, Looking
  <2>2. NewRun \in Unused /\ NewRun \in Runs
    BY <2>1, NewRunIs DEF Unused
  <2>3. Looking' = Looking \ {s}
    BY <1>16, GoLooking DEF Launch
  <2>4. Unused' = Unused \ {NewRun}
    BY <1>16, <2>2, PhaseUnused DEF Launch
  <2>5. Cardinality(Looking') = Cardinality(Looking) - 1
    BY <2>1, <2>3, SetsFinite, FS_RemoveElement
  <2>6. Cardinality(Unused') = Cardinality(Unused) - 1
    BY <2>2, <2>4, SetsFinite, FS_RemoveElement
  <2> QED BY <2>5, <2>6, SetsFinite DEF Room
<1>17. ASSUME NEW r \in Runs, NEW p \in Providers,
              Skip(r, p) \/ Ask(r, p) \/ Succeed(r, p) \/ Fail(r, p)
       PROVE Room'
  BY <1>2, <1>17 DEF Skip, Ask, Succeed, Fail, callerVars
<1>18. ASSUME NEW r \in Runs, Conclude(r) \/ Deliver(r) PROVE Room'
  <2>1. Unused' = Unused \ {r} /\ r \notin Unused
    BY <1>18, PhaseUnused DEF Conclude, Deliver, Unused
  <2>2. Looking' = Looking
    BY <1>18 DEF Conclude, Deliver, Looking, callerVars
  <2> QED BY <1>1, <2>1, <2>2
<1>19. CASE Clean \/ Tick \/ UNCHANGED vars
  BY <1>2, <1>19 DEF Clean, Tick, vars, callerVars, runVars
<1> QED
  BY <1>8, <1>9, <1>10, <1>11, <1>12, <1>13, <1>14, <1>15, <1>16, <1>17, <1>18, <1>19
  DEF Next, CallerStep, RunStep

-----------------------------------------------------------------------------
(* TypeOK is inductive: the names that runs get are names of runs.          *)
LEMMA TypedInit == Init => TypeOK
<1> SUFFICES ASSUME Init PROVE TypeOK
  OBVIOUS
<1>1. 0 \in 0..MaxClock /\ 0..Threshold - 1 \subseteq 0..Threshold /\ 0 \in Nat
  BY SearchAssumption
<1>2. fails \in [Providers -> 0..Threshold]
  BY <1>1 DEF Init
<1>3. neg \in [Seasons -> Nat \union {None}]
  BY SearchAssumption DEF Init
<1> QED BY <1>1, <1>2, <1>3 DEF Init, TypeOK, NoEntry

(* Failure counts and the clock stay within the bounds of the model.        *)
LEMMA Numbers ==
  /\ 0 \in 0..Threshold
  /\ \A n \in 0..Threshold : (IF n < Threshold THEN n + 1 ELSE n) \in 0..Threshold
  /\ \A n \in 0..MaxClock : n \in Nat /\ n + CacheTTL \in Nat /\ n + NegTTL \in Nat
  /\ \A n \in 0..MaxClock : n < MaxClock => n + 1 \in 0..MaxClock
BY SearchAssumption

(* What a run learns of a provider is one of its outcomes.                  *)
LEMMA Learned ==
  ASSUME TypeOK, NEW r \in Runs, NEW p \in Providers, NEW what, Learn(r, p, what),
         what \in {"calling", "skipped", "routes", "nothing", "error"}
  PROVE  outcome' \in [Runs -> [Providers -> {"todo", "calling", "skipped", "routes", "nothing", "error"}]]
<1>1. outcome[r] \in [Providers -> {"todo", "calling", "skipped", "routes", "nothing", "error"}]
  BY DEF TypeOK
<1>2. [outcome[r] EXCEPT ![p] = what]
        \in [Providers -> {"todo", "calling", "skipped", "routes", "nothing", "error"}]
  BY <1>1
<1> QED BY <1>2 DEF Learn, TypeOK

(* Every step keeps the types; launching needs the room.                    *)
LEMMA TypedStep == TypeOK /\ Room /\ [Next]_vars => TypeOK'
<1> SUFFICES ASSUME TypeOK, Room, [Next]_vars PROVE TypeOK'
  OBVIOUS
<1> USE DEF TypeOK
<1>1. ASSUME NEW s \in Callers, Hit(s) PROVE TypeOK'
  <2>1. cache[Route[s]].run \in Runs \union {None}
    BY DEF Keys
  <2> QED BY <1>1, <2>1 DEF Hit, Return, Go, runVars, cacheVars, breakerVars
<1>2. ASSUME NEW s \in Callers, NoCache(s) \/ Expired(s) PROVE TypeOK'
  BY <1>2 DEF NoCache, Expired, Go, runVars, cacheVars, breakerVars
<1>3. ASSUME NEW s \in Callers, Evict(s) PROVE TypeOK'
  <2>1. NoEntry \in [run : Runs \union {None}, expires : Nat]
    BY DEF NoEntry
  <2> QED BY <1>3, <2>1 DEF Evict, Go, runVars, breakerVars
<1>4. ASSUME NEW s \in Callers, NoService(s) \/ NotSeen(s) \/ Outdated(s) PROVE TypeOK'
  BY <1>4 DEF NoService, NotSeen, Outdated, Return, Go, runVars, cacheVars, breakerVars
<1>5. ASSUME NEW s \in Callers, Unmark(s) PROVE TypeOK'
  <2>1. Unmarked(Season[s]) \in Nat \union {None}
    BY SearchAssumption DEF Unmarked
  <2> QED BY <1>5, <2>1 DEF Unmark, Go, runVars, breakerVars
<1>6. ASSUME NEW s \in Callers, Join(s) PROVE TypeOK'
  <2>1. flight[Route[s]] \in Runs \union {None}
    BY DEF Keys
  <2> QED BY <1>6, <2>1 DEF Join, Go, runVars, cacheVars, breakerVars
<1>7. ASSUME NEW s \in Callers, Launch(s, NewRun) PROVE TypeOK'
  <2>1. NewRun \in Runs
    BY <1>7, NewRunIs DEF Launch, Looking, Unused
  <2> QED BY <1>7, <2>1 DEF Launch, Go, cacheVars, breakerVars
<1>8. ASSUME NEW s \in Callers, NotBegun(s) \/ Receive(s) \/ WalkAway(s) PROVE TypeOK'
  BY <1>8 DEF NotBegun, Receive, WalkAway, Forget, Return, Go, runVars, cacheVars, breakerVars
<1>9. ASSUME NEW r \in Runs, NEW p \in Providers, Skip(r, p) \/ Ask(r, p) PROVE TypeOK'
  <2>1. outcome' \in [Runs -> [Providers -> {"todo", "calling", "skipped", "routes", "nothing", "error"}]]
    BY <1>9, Learned DEF Skip, Ask
  <2> QED BY <1>9, <2>1 DEF Skip, Ask, callerVars, cacheVars, breakerVars
<1>10. ASSUME NEW r \in Runs, NEW p \in Providers, Succeed(r, p) PROVE TypeOK'
  <2>1. outcome' \in [Runs -> [Providers -> {"todo", "calling", "skipped", "routes", "nothing", "error"}]]
    BY <1>10, Learned DEF Succeed
  <2>2. fails' \in [Providers -> 0..Threshold] /\ failed' \in [Providers -> Nat]
    BY <1>10, Numbers DEF Succeed
  <2> QED BY <1>10, <2>1, <2>2 DEF Succeed, callerVars, cacheVars
<1>11. ASSUME NEW r \in Runs, NEW p \in Providers, Fail(r, p) PROVE TypeOK'
  <2>1. outcome' \in [Runs -> [Providers -> {"todo", "calling", "skipped", "routes", "nothing", "error"}]]
    BY <1>11, Learned DEF Fail
  <2>2. fails' \in [Providers -> 0..Threshold]
    BY <1>11, Numbers DEF Fail
  <2>3. failed' \in [Providers -> Nat]
    BY <1>11, Numbers DEF Fail
  <2> QED BY <1>11, <2>1, <2>2, <2>3 DEF Fail, callerVars, cacheVars
<1>12. ASSUME NEW r \in Runs, Conclude(r) PROVE TypeOK'
  <2>1. clock + CacheTTL \in Nat /\ clock + NegTTL \in Nat
    BY Numbers
  <2>2. cache' \in [Keys -> [run : Runs \union {None}, expires : Nat]]
    BY <1>12, <2>1 DEF Conclude
  <2>3. neg' \in [Seasons -> Nat \union {None}]
    BY <1>12, <2>1 DEF Conclude, Mark
  <2> QED BY <1>12, <2>2, <2>3 DEF Conclude, callerVars, breakerVars
<1>13. ASSUME NEW r \in Runs, Deliver(r) PROVE TypeOK'
  <2>1. flight' \in [Keys -> Runs \union {None}]
    BY <1>13 DEF Deliver, Unregister
  <2> QED BY <1>13, <2>1 DEF Deliver, callerVars, cacheVars, breakerVars
<1>14. CASE Clean
  <2>1. NoEntry \in [run : Runs \union {None}, expires : Nat]
    BY DEF NoEntry
  <2>2. cache' \in [Keys -> [run : Runs \union {None}, expires : Nat]]
    BY <1>14, <2>1 DEF Clean
  <2> QED BY <1>14, <2>2 DEF Clean, callerVars, runVars, breakerVars
<1>15. CASE Tick
  <2>1. clock + 1 \in 0..MaxClock
    BY <1>15, Numbers DEF Tick
  <2> QED BY <1>15, <2>1 DEF Tick, callerVars, runVars, cacheVars, breakerVars
<1>16. CASE UNCHANGED vars
  BY <1>16 DEF vars, callerVars, runVars, cacheVars, breakerVars
<1> QED
  BY <1>1, <1>2, <1>3, <1>4, <1>5, <1>6, <1>7, <1>8, <1>9, <1>10, <1>11, <1>12, <1>13,
     <1>14, <1>15, <1>16
  DEF Next, CallerStep, RunStep

-----------------------------------------------------------------------------
(* Whatever a caller, a key or a cache entry refers to is a run for the     *)
(* right key; what has concluded is complete.                               *)

RunsFit ==
  \A r \in Runs :
    /\ phase[r] # "unused" => owner[r] \in Callers
    /\ phase[r] \in {"concluded", "over"} =>
         \A p \in Providers : outcome[r][p] \notin {"todo", "calling"}

CallersFit ==
  \A s \in Callers :
    /\ joined[s] # None => phase[joined[s]] # "unused" /\ Route[owner[joined[s]]] = Route[s]
    /\ at[s] = "waiting" => joined[s] # None
    /\ at[s] \notin {"waiting", "returned"} => joined[s] = None
    /\ at[s] # "returned" => answer[s] = "none"
    /\ at[s] = "returned" => answer[s] # "none"
    /\ answer[s] = "context" /\ flight[Route[s]] # None => flight[Route[s]] # joined[s]

KeysFit ==
  \A k \in Keys :
    /\ flight[k] # None =>
         phase[flight[k]] \in {"asking", "concluded"} /\ Route[owner[flight[k]]] = k
    /\ cache[k].run # None =>
         /\ phase[cache[k].run] \in {"concluded", "over"} /\ Route[owner[cache[k].run]] = k
         /\ \E p \in Providers : outcome[cache[k].run][p] = "routes"

Fit == RunsFit /\ CallersFit /\ KeysFit

(* At the start nobody waits and nothing runs.                              *)
LEMMA FitInit == Init => Fit
<1> SUFFICES ASSUME Init PROVE Fit
  OBVIOUS
<1>1. RunsFit
  BY DEF Init, RunsFit
<1>2. CallersFit
  BY DEF Init, CallersFit
<1>3. KeysFit
  BY DEF Init, KeysFit, NoEntry
<1> QED BY <1>1, <1>2, <1>3 DEF Fit

\* A caller's step that launches nothing and walks away from nothing.
LEMMA FitRuns ==
  ASSUME Fit, UNCHANGED <<owner, phase, outcome, flight, cache>>
  PROVE  RunsFit' /\ KeysFit'
<1>1. RunsFit'
  BY DEF Fit, RunsFit
<1>2. KeysFit'
  BY DEF Fit, KeysFit
<1> QED BY <1>1, <1>2

(* Callers that nothing touches still fit the runs.                         *)
LEMMA FitCallers ==
  ASSUME Fit, UNCHANGED <<owner, phase, flight, at, joined, answer>>
  PROVE  CallersFit'
BY DEF Fit, CallersFit

(* A caller on its way, that neither waits nor returns, fits the runs.      *)
LEMMA FitWay ==
  ASSUME Fit, TypeOK, NEW s \in Callers, NEW to, Go(s, to), to \notin {"waiting", "returned"},
         at[s] \notin {"waiting", "returned"},
         UNCHANGED <<owner, phase, flight, joined, answer>>
  PROVE  CallersFit'
<1>1. at'[s] = to /\ \A c \in Callers : c # s => at'[c] = at[c]
  BY DEF Go, TypeOK
<1> QED BY <1>1 DEF Fit, CallersFit

(* A caller may return anything but nothing; one that gives up on a run     *)
(* leaves no flight registered for its route (doGroundSearchSingleflight).  *)
LEMMA FitReturn ==
  ASSUME Fit, TypeOK, NEW s \in Callers, NEW what, Return(s, what), what # "none",
         joined' = joined, UNCHANGED <<owner, phase>>,
         \A k \in Keys : flight'[k] \in {flight[k], None},
         what = "context" => joined[s] = None \/ flight'[Route[s]] = None
  PROVE  CallersFit'
<1>1. at'[s] = "returned" /\ answer'[s] = what
  BY DEF Return, Go, TypeOK
<1>2. \A c \in Callers : c # s => at'[c] = at[c] /\ answer'[c] = answer[c]
  BY DEF Return, Go, TypeOK
<1>3. \A c \in Callers : Route[c] \in Keys
  BY DEF Keys
<1> QED BY <1>1, <1>2, <1>3 DEF Fit, CallersFit

\* A step of a run that asks: what has concluded keeps its outcomes.
LEMMA FitLearn ==
  ASSUME Fit, TypeOK, NEW r \in Runs, NEW p \in Providers, NEW what, Learn(r, p, what),
         outcome[r][p] \in {"todo", "calling"},
         UNCHANGED <<owner, phase, flight, at, joined, answer, cache>>
  PROVE  Fit'
<1>1. \A q \in Runs : q # r => outcome'[q] = outcome[q]
  BY DEF Learn, TypeOK
<1>2. phase[r] \notin {"concluded", "over"}
  BY DEF Fit, RunsFit
<1>3. RunsFit'
  BY <1>1, <1>2 DEF Fit, RunsFit
<1>4. CallersFit'
  BY FitCallers
<1>5. \A k \in Keys : cache[k].run # None => cache[k].run \in Runs /\ cache[k].run # r
  <2>1. \A k \in Keys : cache[k].run \in Runs \union {None}
    BY DEF TypeOK
  <2> QED BY <1>2, <2>1 DEF Fit, KeysFit
<1>6. KeysFit'
  BY <1>1, <1>5 DEF Fit, KeysFit
<1> QED BY <1>3, <1>4, <1>6 DEF Fit

(* A fresh name is registered as the flight of its owner's route.           *)
LEMMA FitLaunch ==
  ASSUME Fit, TypeOK, NEW s \in Callers, NEW r \in Unused, Launch(s, r)
  PROVE  Fit'
<1>1. r \in Runs /\ phase[r] = "unused" /\ Route[s] \in Keys /\ r # None
  BY SearchAssumption DEF Unused, Keys
<1>2. /\ phase'[r] = "asking" /\ owner'[r] = s
      /\ \A q \in Runs : q # r => phase'[q] = phase[q] /\ owner'[q] = owner[q]
  BY <1>1 DEF Launch, TypeOK
<1>3. /\ flight'[Route[s]] = r
      /\ \A k \in Keys : k # Route[s] => flight'[k] = flight[k]
  BY <1>1 DEF Launch, TypeOK
<1>4. /\ joined'[s] = r /\ at'[s] = "waiting" /\ answer' = answer
      /\ \A c \in Callers : c # s => joined'[c] = joined[c] /\ at'[c] = at[c]
  BY DEF Launch, Go, TypeOK
<1>5. outcome' = outcome /\ cache' = cache /\ at[s] = "joining"
  BY DEF Launch, cacheVars
<1>6. RunsFit'
  BY <1>1, <1>2, <1>5 DEF Fit, RunsFit
<1>7. CallersFit'
  <2> SUFFICES ASSUME NEW c \in Callers
               PROVE  /\ joined'[c] # None => phase'[joined'[c]] # "unused"
                                               /\ Route[owner'[joined'[c]]] = Route[c]
                      /\ at'[c] = "waiting" => joined'[c] # None
                      /\ at'[c] \notin {"waiting", "returned"} => joined'[c] = None
                      /\ at'[c] # "returned" => answer'[c] = "none"
                      /\ at'[c] = "returned" => answer'[c] # "none"
                      /\ answer'[c] = "context" /\ flight'[Route[c]] # None =>
                           flight'[Route[c]] # joined'[c]
    BY DEF CallersFit
  <2>1. CASE c = s
    BY <1>1, <1>2, <1>4, <1>5, <2>1 DEF Fit, CallersFit
  <2>2. CASE c # s
    <3>1. joined[c] # r /\ joined[c] \in Runs \union {None} /\ Route[c] \in Keys
      <4>1. joined[c] \in Runs \union {None}
        BY DEF TypeOK
      <4>2. joined[c] # None => phase[joined[c]] # "unused"
        BY DEF Fit, CallersFit
      <4>3. Route[c] \in Keys
        BY DEF Keys
      <4> QED BY <1>1, <4>1, <4>2, <4>3
    <3> QED BY <1>1, <1>2, <1>3, <1>4, <2>2, <3>1 DEF Fit, CallersFit
  <2> QED BY <2>1, <2>2
<1>8. KeysFit'
  <2>1. \A k \in Keys : /\ flight[k] \in Runs \union {None} /\ flight[k] # r
                        /\ cache[k].run \in Runs \union {None} /\ cache[k].run # r
    <3>1. \A k \in Keys : flight[k] \in Runs \union {None} /\ cache[k].run \in Runs \union {None}
      BY DEF TypeOK
    <3>2. \A k \in Keys : flight[k] # r /\ cache[k].run # r
      BY <1>1 DEF Fit, KeysFit
    <3> QED BY <3>1, <3>2
  <2> QED BY <1>1, <1>2, <1>3, <1>5, <2>1 DEF Fit, KeysFit
<1> QED BY <1>6, <1>7, <1>8 DEF Fit

(* A run that concludes has heard of every provider, and caches only        *)
(* routes.                                                                  *)
LEMMA FitConclude == ASSUME Fit, TypeOK, NEW r \in Runs, Conclude(r) PROVE Fit'
<1>1. phase[r] = "asking" /\ phase'[r] = "concluded" /\ owner[r] \in Callers
  BY DEF Conclude, TypeOK, Fit, RunsFit
<1>2. \A q \in Runs : q # r => phase'[q] = phase[q]
  BY DEF Conclude, TypeOK
<1>3. UNCHANGED <<owner, outcome, flight, at, joined, answer>>
  BY DEF Conclude, callerVars
<1>4. \A p \in Providers : outcome[r][p] \notin {"todo", "calling"}
  BY DEF Conclude, Outcomes
<1>5. RunsFit'
  BY <1>1, <1>2, <1>3, <1>4 DEF Fit, RunsFit
<1>6. CallersFit'
  <2>1. \A c \in Callers : joined[c] \in Runs \union {None}
    BY DEF TypeOK
  <2> QED BY <1>1, <1>2, <1>3, <2>1 DEF Fit, CallersFit
<1>7. \A k \in Keys : /\ flight[k] \in Runs \union {None}
                      /\ cache[k].run \in Runs \union {None}
  BY DEF TypeOK
<1>8. ASSUME NEW k \in Keys, cache'[k].run # None
      PROVE  /\ phase'[cache'[k].run] \in {"concluded", "over"} /\ Route[owner'[cache'[k].run]] = k
             /\ \E p \in Providers : outcome'[cache'[k].run][p] = "routes"
  <2>1. CASE cache'[k] = cache[k]
    BY <1>1, <1>2, <1>3, <1>7, <1>8, <2>1 DEF Fit, KeysFit
  <2>2. CASE cache'[k] # cache[k]
    <3>1. Caches(r) /\ cache' = [cache EXCEPT ![Route[owner[r]]] = [run |-> r, expires |-> clock + CacheTTL]]
      BY <2>2 DEF Conclude
    <3>2. k = Route[owner[r]] /\ cache'[k].run = r
      BY <2>2, <3>1 DEF TypeOK
    <3> QED BY <1>1, <1>3, <3>1, <3>2 DEF Caches, Outcomes
  <2> QED BY <2>1, <2>2
<1>9. KeysFit'
  BY <1>1, <1>2, <1>3, <1>7, <1>8 DEF Fit, KeysFit
<1> QED BY <1>5, <1>6, <1>9 DEF Fit

(* A run that delivers takes away its own registration only.                *)
LEMMA FitDeliver == ASSUME Fit, TypeOK, NEW r \in Runs, Deliver(r) PROVE Fit'
<1>1. phase[r] = "concluded" /\ phase'[r] = "over" /\ owner[r] \in Callers
  BY DEF Deliver, TypeOK, Fit, RunsFit
<1>2. \A q \in Runs : q # r => phase'[q] = phase[q]
  BY DEF Deliver, TypeOK
<1>3. UNCHANGED <<owner, outcome, cache, at, joined, answer>>
  BY DEF Deliver, callerVars, cacheVars
<1>4. \A k \in Keys : flight'[k] \in {flight[k], None} /\ flight'[k] # r
  <2>1. r # None
    BY SearchAssumption
  <2>2. \A k \in Keys : flight[k] = r => k = Route[owner[r]]
    BY <2>1 DEF Fit, KeysFit
  <2>3. \A k \in Keys : flight'[k] = IF k = Route[owner[r]] /\ flight[k] = r THEN None ELSE flight[k]
    BY DEF Deliver, Unregister, TypeOK
  <2> QED BY <2>1, <2>2, <2>3
<1>5. RunsFit'
  BY <1>1, <1>2, <1>3 DEF Fit, RunsFit
<1>6. CallersFit'
  <2>1. \A c \in Callers : joined[c] \in Runs \union {None} /\ Route[c] \in Keys
    BY DEF TypeOK, Keys
  <2> QED BY <1>1, <1>2, <1>3, <1>4, <2>1 DEF Fit, CallersFit
<1>7. KeysFit'
  <2>1. \A k \in Keys : /\ flight[k] \in Runs \union {None}
                        /\ cache[k].run \in Runs \union {None}
    BY DEF TypeOK
  <2> QED BY <1>1, <1>2, <1>3, <1>4, <2>1 DEF Fit, KeysFit
<1> QED BY <1>5, <1>6, <1>7 DEF Fit

\* The result of a run that is over, or of one that the cache holds.
LEMMA FitHit == ASSUME Fit, TypeOK, NEW s \in Callers, Hit(s) PROVE Fit'
<1>1. /\ at'[s] = "returned" /\ answer'[s] = "cached" /\ joined'[s] = cache[Route[s]].run
      /\ \A c \in Callers : c # s => at'[c] = at[c] /\ answer'[c] = answer[c] /\ joined'[c] = joined[c]
  BY DEF Hit, Return, Go, TypeOK
<1>2. UNCHANGED <<owner, phase, outcome, flight, cache>>
  BY DEF Hit, runVars, cacheVars
<1>3. Route[s] \in Keys /\ cache[Route[s]].run # None
  BY DEF Hit, Fresh, Keys
<1>4. phase[cache[Route[s]].run] # "unused" /\ Route[owner[cache[Route[s]].run]] = Route[s]
  BY <1>3 DEF Fit, KeysFit
<1>5. CallersFit'
  BY <1>1, <1>2, <1>4 DEF Fit, CallersFit
<1> QED BY <1>2, <1>5, FitRuns DEF Fit

(* A caller joins the flight of its own route.                              *)
LEMMA FitJoin == ASSUME Fit, TypeOK, NEW s \in Callers, Join(s) PROVE Fit'
<1>1. /\ at'[s] = "waiting" /\ answer' = answer /\ joined'[s] = flight[Route[s]] /\ at[s] = "joining"
      /\ \A c \in Callers : c # s => at'[c] = at[c] /\ joined'[c] = joined[c]
  BY DEF Join, Go, TypeOK
<1>2. UNCHANGED <<owner, phase, outcome, flight, cache>>
  BY DEF Join, runVars, cacheVars
<1>3. Route[s] \in Keys /\ flight[Route[s]] # None
  BY DEF Join, Keys
<1>4. phase[flight[Route[s]]] # "unused" /\ Route[owner[flight[Route[s]]]] = Route[s]
  BY <1>3 DEF Fit, KeysFit
<1>5. CallersFit'
  BY <1>1, <1>2, <1>3, <1>4 DEF Fit, CallersFit
<1> QED BY <1>2, <1>5, FitRuns DEF Fit

(* No step breaks the fit of runs, callers and keys.                        *)
LEMMA FitStep == Fit /\ TypeOK /\ Room /\ [Next]_vars => Fit'
<1> SUFFICES ASSUME Fit, TypeOK, Room, [Next]_vars PROVE Fit'
  OBVIOUS
<1>1. ASSUME CallersFit', UNCHANGED <<owner, phase, outcome, flight, cache>> PROVE Fit'
  BY <1>1, FitRuns DEF Fit
<1>2. ASSUME NEW s \in Callers, NoCache(s) \/ Expired(s) PROVE Fit'
  <2>1. PICK to \in {"joining", "evicting"} : Go(s, to)
    BY <1>2 DEF NoCache, Expired
  <2>2. /\ at[s] = "idle"
        /\ UNCHANGED <<owner, phase, outcome, flight, cache, joined, answer>>
    BY <1>2 DEF NoCache, Expired, Looks, Comes, runVars, cacheVars
  <2>3. CallersFit'
    BY <2>1, <2>2, FitWay
  <2> QED BY <1>1, <2>2, <2>3
<1>3. ASSUME NEW s \in Callers, NotSeen(s) \/ Outdated(s) PROVE Fit'
  <2>1. PICK to \in {"joining", "unmarking"} : Go(s, to)
    BY <1>3 DEF NotSeen, Outdated
  <2>2. /\ at[s] \in {"idle", "doubting"}
        /\ UNCHANGED <<owner, phase, outcome, flight, cache, joined, answer>>
    BY <1>3 DEF NotSeen, Outdated, Missed, Looks, Comes, runVars, cacheVars
  <2>3. CallersFit'
    BY <2>1, <2>2, FitWay
  <2> QED BY <1>1, <2>2, <2>3
<1>4. ASSUME NEW s \in Callers, Unmark(s) PROVE Fit'
  <2>1. /\ Go(s, "joining") /\ at[s] = "unmarking"
        /\ UNCHANGED <<owner, phase, outcome, flight, cache, joined, answer>>
    BY <1>4 DEF Unmark, runVars
  <2>2. CallersFit'
    BY <2>1, FitWay
  <2> QED BY <1>1, <2>1, <2>2
<1>5. ASSUME NEW s \in Callers, Evict(s) PROVE Fit'
  <2>1. /\ Go(s, "doubting") /\ at[s] = "evicting"
        /\ UNCHANGED <<owner, phase, outcome, flight, joined, answer>>
    BY <1>5 DEF Evict, runVars
  <2>2. CallersFit'
    BY <2>1, FitWay
  <2>3. RunsFit'
    BY <2>1 DEF Fit, RunsFit
  <2>4. \A k \in Keys : cache'[k] = cache[k] \/ cache'[k].run = None
    BY <1>5 DEF Evict, NoEntry, TypeOK
  <2>5. KeysFit'
    BY <2>1, <2>4 DEF Fit, KeysFit
  <2> QED BY <2>2, <2>3, <2>5 DEF Fit
<1>6. ASSUME NEW s \in Callers, NoService(s) \/ NotBegun(s) \/ Receive(s) PROVE Fit'
  <2>1. PICK what \in {"no service", "context", "result"} :
          Return(s, what) /\ (what = "context" => at[s] = "joining")
    BY <1>6 DEF NoService, NotBegun, Receive
  <2>2. UNCHANGED <<owner, phase, outcome, flight, cache, joined>>
    BY <1>6 DEF NoService, NotBegun, Receive, runVars, cacheVars
  <2>3. what = "context" => joined[s] = None
    BY <2>1 DEF Fit, CallersFit
  <2>4. CallersFit'
    BY <2>1, <2>2, <2>3, FitReturn
  <2> QED BY <1>1, <2>2, <2>4
<1>7. ASSUME NEW s \in Callers, WalkAway(s) PROVE Fit'
  <2>1. /\ Return(s, "context")
        /\ UNCHANGED <<owner, phase, outcome, cache, joined>>
    BY <1>7 DEF WalkAway, cacheVars
  <2>2. \A k \in Keys : flight'[k] = IF k = Route[s] THEN None ELSE flight[k]
    BY <1>7 DEF WalkAway, Forget, TypeOK
  <2>3. Route[s] \in Keys
    BY DEF Keys
  <2>4. CallersFit'
    BY <2>1, <2>2, <2>3, FitReturn
  <2>5. RunsFit'
    BY <2>1 DEF Fit, RunsFit
  <2>6. KeysFit'
    BY <2>1, <2>2 DEF Fit, KeysFit
  <2> QED BY <2>4, <2>5, <2>6 DEF Fit
<1>8. ASSUME NEW s \in Callers, Launch(s, NewRun) PROVE Fit'
  <2>1. NewRun \in Unused
    BY <1>8, NewRunIs DEF Launch, Looking
  <2> QED BY <1>8, <2>1, FitLaunch
<1>9. ASSUME NEW r \in Runs, NEW p \in Providers,
             Skip(r, p) \/ Ask(r, p) \/ Succeed(r, p) \/ Fail(r, p)
      PROVE Fit'
  <2>1. /\ outcome[r][p] \in {"todo", "calling"}
        /\ \E what \in {"skipped", "calling", "routes", "nothing", "error"} : Learn(r, p, what)
    BY <1>9 DEF Skip, Ask, Succeed, Fail
  <2>2. UNCHANGED <<owner, phase, flight, at, joined, answer, cache>>
    BY <1>9 DEF Skip, Ask, Succeed, Fail, callerVars, cacheVars
  <2> QED BY <2>1, <2>2, FitLearn
<1>10. CASE Clean
  <2>1. UNCHANGED <<owner, phase, outcome, flight, at, joined, answer>>
    BY <1>10 DEF Clean, runVars, callerVars
  <2>2. \A k \in Keys : cache'[k] = cache[k] \/ cache'[k].run = None
    BY <1>10 DEF Clean, NoEntry
  <2>3. RunsFit' /\ CallersFit'
    BY <2>1, FitCallers DEF Fit, RunsFit
  <2>4. KeysFit'
    BY <2>1, <2>2 DEF Fit, KeysFit
  <2> QED BY <2>3, <2>4 DEF Fit
<1>11. CASE Tick \/ UNCHANGED vars
  <2>1. UNCHANGED <<owner, phase, outcome, flight, cache, at, joined, answer>>
    BY <1>11 DEF Tick, vars, callerVars, runVars, cacheVars
  <2> QED BY <1>1, <2>1, FitCallers
<1> QED
  BY <1>2, <1>3, <1>4, <1>5, <1>6, <1>7, <1>8, <1>9, <1>10, <1>11,
     FitHit, FitJoin, FitConclude, FitDeliver
  DEF Next, CallerStep, RunStep

-----------------------------------------------------------------------------
(* Runs that are in flight for a key without being registered for it were   *)
(* left behind by callers who walked away, one by each at most.             *)

LeftBehind(k) == InFlight(k) \ {flight[k]}

Counted == \A k \in Keys : Cardinality(LeftBehind(k)) <= Cardinality(Walked(k))

(* The sets that Counted compares are finite.                               *)
LEMMA RunsFinite == ASSUME NEW k
                    PROVE  /\ IsFiniteSet(InFlight(k)) /\ Cardinality(InFlight(k)) \in Nat
                           /\ IsFiniteSet(LeftBehind(k)) /\ Cardinality(LeftBehind(k)) \in Nat
                           /\ IsFiniteSet(Walked(k)) /\ Cardinality(Walked(k)) \in Nat
<1>1. InFlight(k) \subseteq Runs /\ LeftBehind(k) \subseteq Runs /\ Walked(k) \subseteq Callers
  BY DEF InFlight, LeftBehind, Walked
<1>2. IsFiniteSet(InFlight(k)) /\ IsFiniteSet(LeftBehind(k)) /\ IsFiniteSet(Walked(k))
  BY <1>1, SearchAssumption, FS_Subset
<1> QED BY <1>2, FS_CardinalityType

(* So is the next state's set of callers that walked away.                  *)
LEMMA WalkedFinite == ASSUME NEW k PROVE IsFiniteSet(Walked(k)') /\ Cardinality(Walked(k)') \in Nat
<1>1. Walked(k)' \subseteq Callers
  BY DEF Walked
<1>2. IsFiniteSet(Walked(k)')
  BY <1>1, SearchAssumption, FS_Subset
<1> QED BY <1>2, FS_CardinalityType

(* At the start nothing is left behind.                                     *)
LEMMA CountedInit == Init => Counted
<1> SUFFICES ASSUME Init, NEW k \in Keys PROVE Cardinality(LeftBehind(k)) <= Cardinality(Walked(k))
  BY DEF Counted
<1>1. LeftBehind(k) = {}
  BY DEF Init, LeftBehind, InFlight
<1>2. Cardinality(LeftBehind(k)) = 0
  BY <1>1, FS_EmptySet
<1> QED BY <1>2, RunsFinite

\* No more runs are left behind, and nobody who walked away is forgotten.
LEMMA CountedKept ==
  ASSUME NEW k, Cardinality(LeftBehind(k)) <= Cardinality(Walked(k)),
         LeftBehind(k)' \subseteq LeftBehind(k), Walked(k) \subseteq Walked(k)'
  PROVE  Cardinality(LeftBehind(k)') <= Cardinality(Walked(k)')
<1>1. Cardinality(LeftBehind(k)') <= Cardinality(LeftBehind(k)) /\ Cardinality(LeftBehind(k)') \in Nat
  BY RunsFinite, FS_Subset, FS_CardinalityType
<1>2. Cardinality(Walked(k)) <= Cardinality(Walked(k)')
  BY WalkedFinite, FS_Subset
<1> QED BY <1>1, <1>2, RunsFinite, WalkedFinite

\* A caller walks away from the run that its key is registered for.
LEMMA CountedMore ==
  ASSUME NEW k, Cardinality(LeftBehind(k)) <= Cardinality(Walked(k)), NEW r, NEW s,
         LeftBehind(k)' \subseteq LeftBehind(k) \union {r},
         s \notin Walked(k), Walked(k)' = Walked(k) \union {s}
  PROVE  Cardinality(LeftBehind(k)') <= Cardinality(Walked(k)')
<1> DEFINE More == LeftBehind(k) \union {r}
<1>1. IsFiniteSet(More) /\ Cardinality(More) \in Nat /\ Cardinality(More) <= Cardinality(LeftBehind(k)) + 1
  <2>1. CASE r \in LeftBehind(k)
    <3>1. More = LeftBehind(k)
      BY <2>1
    <3> QED BY <3>1, RunsFinite
  <2>2. CASE r \notin LeftBehind(k)
    <3>1. IsFiniteSet(More) /\ Cardinality(More) = Cardinality(LeftBehind(k)) + 1
      BY <2>2, RunsFinite, FS_AddElement
    <3> QED BY <3>1, RunsFinite
  <2> QED BY <2>1, <2>2
<1>2. Cardinality(LeftBehind(k)') <= Cardinality(More) /\ Cardinality(LeftBehind(k)') \in Nat
  BY <1>1, FS_Subset, FS_CardinalityType
<1>3. Cardinality(Walked(k)') = Cardinality(Walked(k)) + 1
  BY RunsFinite, FS_AddElement
<1> QED BY <1>1, <1>2, <1>3, RunsFinite

(* A run is left behind only by a caller that walks away in that step.      *)
LEMMA CountedStep == Counted /\ Fit /\ TypeOK /\ Room /\ [Next]_vars => Counted'
<1> SUFFICES ASSUME Counted, Fit, TypeOK, Room, [Next]_vars, NEW k \in Keys
             PROVE  Cardinality(LeftBehind(k)') <= Cardinality(Walked(k)')
  BY DEF Counted
<1>1. ASSUME LeftBehind(k)' \subseteq LeftBehind(k), Walked(k) \subseteq Walked(k)'
      PROVE  Cardinality(LeftBehind(k)') <= Cardinality(Walked(k)')
  BY <1>1, CountedKept DEF Counted
<1>2. ASSUME UNCHANGED <<flight, owner, phase>>, Walked(k) \subseteq Walked(k)'
      PROVE  Cardinality(LeftBehind(k)') <= Cardinality(Walked(k)')
  <2>1. LeftBehind(k)' = LeftBehind(k)
    BY <1>2 DEF LeftBehind, InFlight
  <2> QED BY <1>1, <1>2, <2>1
<1>3. ASSUME UNCHANGED <<flight, owner, phase, answer>>
      PROVE  Cardinality(LeftBehind(k)') <= Cardinality(Walked(k)')
  <2>1. Walked(k)' = Walked(k)
    BY <1>3 DEF Walked
  <2> QED BY <1>2, <1>3, <2>1
<1>4. ASSUME NEW s \in Callers, NEW what, Return(s, what), at[s] # "returned"
      PROVE  /\ s \notin Walked(k) /\ Walked(k) \subseteq Walked(k)'
             /\ what = "context" /\ Route[s] = k => Walked(k)' = Walked(k) \union {s}
  <2>1. answer[s] = "none" /\ answer'[s] = what /\ \A c \in Callers : c # s => answer'[c] = answer[c]
    BY <1>4 DEF Fit, CallersFit, Return, TypeOK
  <2> QED BY <2>1 DEF Walked
<1>5. ASSUME NEW s \in Callers, Hit(s) \/ NoService(s) \/ NotBegun(s) \/ Receive(s)
      PROVE  Cardinality(LeftBehind(k)') <= Cardinality(Walked(k)')
  <2>1. /\ at[s] # "returned" /\ UNCHANGED <<flight, owner, phase>>
        /\ \E what : Return(s, what)
    BY <1>5 DEF Hit, NoService, NotBegun, Receive, Looks, Missed, Comes, runVars
  <2> QED BY <1>2, <1>4, <2>1
<1>6. ASSUME NEW s \in Callers, WalkAway(s)
      PROVE  Cardinality(LeftBehind(k)') <= Cardinality(Walked(k)')
  <2>1. Return(s, "context") /\ at[s] # "returned" /\ UNCHANGED <<owner, phase>>
    BY <1>6 DEF WalkAway
  <2>2. InFlight(k)' = InFlight(k)
    BY <2>1 DEF InFlight
  <2>3. \A q \in Keys : flight'[q] = IF q = Route[s] THEN None ELSE flight[q]
    BY <1>6 DEF WalkAway, Forget, TypeOK
  <2>4. CASE Route[s] = k
    <3>1. LeftBehind(k)' \subseteq LeftBehind(k) \union {flight[k]}
      BY <2>2 DEF LeftBehind
    <3>2. s \notin Walked(k) /\ Walked(k)' = Walked(k) \union {s}
      BY <1>4, <2>1, <2>4
    <3> QED BY <3>1, <3>2, CountedMore DEF Counted
  <2>5. CASE Route[s] # k
    <3>1. LeftBehind(k)' = LeftBehind(k)
      BY <2>2, <2>3, <2>5 DEF LeftBehind
    <3> QED BY <1>1, <1>4, <2>1, <3>1
  <2> QED BY <2>4, <2>5
<1>7. ASSUME NEW s \in Callers, Launch(s, NewRun)
      PROVE  Cardinality(LeftBehind(k)') <= Cardinality(Walked(k)')
  <2>1. NewRun \in Runs /\ NewRun \notin InFlight(k) /\ Route[s] \in Keys
    BY <1>7, NewRunIs DEF Launch, Looking, Unused, InFlight, Keys
  <2>2. /\ owner'[NewRun] = s
        /\ \A q \in Runs : q # NewRun => phase'[q] = phase[q] /\ owner'[q] = owner[q]
    BY <1>7, <2>1 DEF Launch, TypeOK
  <2>3. \A q \in Keys : flight'[q] = IF q = Route[s] THEN NewRun ELSE flight[q]
    BY <1>7 DEF Launch, TypeOK
  <2>4. InFlight(k)' \subseteq InFlight(k) \union {NewRun}
    BY <2>2 DEF InFlight
  <2>5. Route[s] # k => InFlight(k)' \subseteq InFlight(k)
    BY <2>2 DEF InFlight
  <2>6. None \notin InFlight(k) /\ flight[Route[s]] = None
    BY <1>7, SearchAssumption DEF Launch, InFlight
  <2>7. LeftBehind(k)' \subseteq LeftBehind(k)
    <3>1. CASE Route[s] = k
      BY <2>3, <2>4, <2>6, <3>1 DEF LeftBehind
    <3>2. CASE Route[s] # k
      BY <2>3, <2>5, <3>2 DEF LeftBehind
    <3> QED BY <3>1, <3>2
  <2>8. Walked(k)' = Walked(k)
    BY <1>7 DEF Launch, Walked
  <2> QED BY <1>1, <2>7, <2>8
<1>8. ASSUME NEW r \in Runs, Conclude(r)
      PROVE  Cardinality(LeftBehind(k)') <= Cardinality(Walked(k)')
  <2>1. phase[r] = "asking" /\ phase'[r] = "concluded" /\ \A q \in Runs : q # r => phase'[q] = phase[q]
    BY <1>8 DEF Conclude, TypeOK
  <2>2. UNCHANGED <<owner, flight, answer>>
    BY <1>8 DEF Conclude, callerVars
  <2>3. InFlight(k)' = InFlight(k)
    BY <2>1, <2>2 DEF InFlight
  <2>4. LeftBehind(k)' = LeftBehind(k) /\ Walked(k)' = Walked(k)
    BY <2>2, <2>3 DEF LeftBehind, Walked
  <2> QED BY <1>1, <2>4
<1>9. ASSUME NEW r \in Runs, Deliver(r)
      PROVE  Cardinality(LeftBehind(k)') <= Cardinality(Walked(k)')
  <2>1. phase'[r] = "over" /\ \A q \in Runs : q # r => phase'[q] = phase[q]
    BY <1>9 DEF Deliver, TypeOK
  <2>2. UNCHANGED <<owner, answer>>
    BY <1>9 DEF Deliver, callerVars
  <2>3. InFlight(k)' \subseteq InFlight(k) \ {r}
    BY <2>1, <2>2 DEF InFlight
  <2>4. flight'[k] = flight[k] \/ flight[k] = r
    BY <1>9 DEF Deliver, Unregister, TypeOK
  <2>5. LeftBehind(k)' \subseteq LeftBehind(k) /\ Walked(k)' = Walked(k)
    BY <2>2, <2>3, <2>4 DEF LeftBehind, Walked
  <2> QED BY <1>1, <2>5
<1>10. ASSUME NEW s \in Callers,
              NoCache(s) \/ Expired(s) \/ Evict(s) \/ NotSeen(s) \/ Outdated(s) \/ Unmark(s) \/ Join(s)
       PROVE  Cardinality(LeftBehind(k)') <= Cardinality(Walked(k)')
  BY <1>3, <1>10 DEF NoCache, Expired, Evict, NotSeen, Outdated, Unmark, Join, runVars
<1>11. ASSUME NEW r \in Runs, NEW p \in Providers,
              Skip(r, p) \/ Ask(r, p) \/ Succeed(r, p) \/ Fail(r, p)
       PROVE  Cardinality(LeftBehind(k)') <= Cardinality(Walked(k)')
  BY <1>3, <1>11 DEF Skip, Ask, Succeed, Fail, callerVars
<1>12. CASE Clean \/ Tick \/ UNCHANGED vars
  BY <1>3, <1>12 DEF Clean, Tick, vars, callerVars, runVars
<1> QED
  BY <1>5, <1>6, <1>7, <1>8, <1>9, <1>10, <1>11, <1>12 DEF Next, CallerStep, RunStep

-----------------------------------------------------------------------------
IInv == TypeOK /\ Room /\ Fit /\ Counted

(* The invariant of every reachable state.                                  *)
LEMMA Inductive == Spec => []IInv
<1>1. Init => IInv
  <2> SUFFICES ASSUME Init PROVE IInv
    OBVIOUS
  <2>1. TypeOK
    BY TypedInit
  <2>2. Looking = {}
    BY DEF Init, Looking
  <2>3. Room
    BY <2>2, SetsFinite, FS_EmptySet DEF Room
  <2> QED BY <2>1, <2>3, FitInit, CountedInit DEF IInv
<1>2. IInv /\ [Next]_vars => IInv'
  BY TypedStep, RoomStep, FitStep, CountedStep DEF IInv
<1> QED BY <1>1, <1>2, PTL DEF Spec

(* Search state has its type; a run's name is never made up.                *)
THEOREM SearchTyped == Spec => []TypeOK
<1>1. IInv => TypeOK
  BY DEF IInv
<1> QED BY <1>1, Inductive, PTL

(* Of the runs in flight all but the registered one were left behind.       *)
LEMMA Uninherited == IInv => NoInheritance
<1> SUFFICES ASSUME IInv, NEW k \in Keys
             PROVE  /\ \A s \in Walked(k) : flight[k] # joined[s] \/ flight[k] = None
                    /\ Cardinality(InFlight(k)) <= 1 + Cardinality(Walked(k))
                    /\ flight[k] # None => flight[k] \in InFlight(k)
  BY DEF NoInheritance
<1>1. \A s \in Walked(k) : flight[k] # joined[s] \/ flight[k] = None
  BY DEF IInv, Fit, CallersFit, Walked
<1>2. flight[k] # None => flight[k] \in InFlight(k)
  <2>1. flight[k] \in Runs \union {None}
    BY DEF IInv, TypeOK
  <2> QED BY <2>1 DEF IInv, Fit, KeysFit, InFlight
<1>3. Cardinality(LeftBehind(k)) <= Cardinality(Walked(k))
  BY DEF IInv, Counted
<1>4. CASE flight[k] \in InFlight(k)
  <2>1. Cardinality(LeftBehind(k)) = Cardinality(InFlight(k)) - 1
    BY <1>4, RunsFinite, FS_RemoveElement DEF LeftBehind
  <2> QED BY <1>1, <1>2, <1>3, <2>1, RunsFinite
<1>5. CASE flight[k] \notin InFlight(k)
  <2>1. LeftBehind(k) = InFlight(k)
    BY <1>5 DEF LeftBehind
  <2> QED BY <1>1, <1>2, <1>3, <2>1, RunsFinite
<1> QED BY <1>4, <1>5

(***************************************************************************)
(* groundGroup.Forget, for any callers and runs: nobody joins a run that   *)
(* another has walked away from, and a key has at most one run in flight   *)
(* more than callers have left.                                            *)
(***************************************************************************)
THEOREM NotInherited == Spec => []NoInheritance
BY Inductive, Uninherited, PTL

(* Only a cache hit and a delivered result answer a caller with routes.     *)
LEMMA AnswerSteps ==
  ASSUME IInv, [Next]_vars, NEW s \in Callers, answer'[s] \in {"cached", "result"}, answer[s] = "none"
  PROVE  Hit(s) \/ Receive(s)
<1> USE DEF IInv, TypeOK
<1>1. answer' # answer
  OBVIOUS
<1>2. ASSUME NEW c \in Callers, Hit(c) \/ Receive(c) PROVE c = s
  BY <1>2 DEF Hit, Receive, Return
<1>3. ASSUME NEW c \in Callers, NoService(c) \/ NotBegun(c) \/ WalkAway(c) PROVE FALSE
  BY <1>3 DEF NoService, NotBegun, WalkAway, Return
<1>4. ASSUME NEW c \in Callers,
             NoCache(c) \/ Expired(c) \/ Evict(c) \/ NotSeen(c) \/ Outdated(c) \/ Unmark(c)
               \/ Join(c) \/ Launch(c, NewRun)
      PROVE FALSE
  BY <1>1, <1>4 DEF NoCache, Expired, Evict, NotSeen, Outdated, Unmark, Join, Launch
<1>5. ASSUME NEW r \in Runs, RunStep(r) PROVE FALSE
  BY <1>1, <1>5 DEF RunStep, Skip, Ask, Succeed, Fail, Conclude, Deliver, callerVars
<1>6. CASE Clean \/ Tick \/ UNCHANGED vars
  BY <1>1, <1>6 DEF Clean, Tick, vars, callerVars
<1> QED BY <1>2, <1>3, <1>4, <1>5, <1>6 DEF Next, CallerStep

(***************************************************************************)
(* Whoever gets a result, of a run or from the cache, gets a complete one  *)
(* for exactly what it asked, for any callers, keys and runs.              *)
(***************************************************************************)
THEOREM Answered == Spec => AnswersFit
<1> DEFINE Fits(s) ==
      LET r == joined'[s] IN
        /\ Route[owner[r]] = Route[s]
        /\ Outcomes(r) \intersect {"todo", "calling"} = {}
        /\ answer'[s] = "cached" =>
             "routes" \in Outcomes(r) /\ clock <= cache[Route[s]].expires
<1>1. ASSUME IInv, [Next]_vars, NEW s \in Callers, answer'[s] \in {"cached", "result"}, answer[s] = "none"
      PROVE  Fits(s)
  <2>1. CASE Hit(s)
    <3>1. /\ joined'[s] = cache[Route[s]].run /\ cache[Route[s]].run # None
          /\ clock <= cache[Route[s]].expires /\ Route[s] \in Keys
      BY <1>1, <2>1 DEF Hit, Fresh, IInv, TypeOK, Keys
    <3>2. /\ Route[owner[joined'[s]]] = Route[s] /\ joined'[s] \in Runs
          /\ phase[joined'[s]] \in {"concluded", "over"}
          /\ \E p \in Providers : outcome[joined'[s]][p] = "routes"
      <4>1. cache[Route[s]].run \in Runs \union {None}
        BY <1>1, <3>1 DEF IInv, TypeOK
      <4> QED BY <1>1, <3>1, <4>1 DEF IInv, Fit, KeysFit
    <3>3. \A p \in Providers : outcome[joined'[s]][p] \notin {"todo", "calling"}
      BY <1>1, <3>2 DEF IInv, Fit, RunsFit
    <3> QED BY <3>1, <3>2, <3>3 DEF Outcomes
  <2>2. CASE Receive(s)
    <3>1. /\ joined'[s] = joined[s] /\ at[s] = "waiting" /\ phase[joined[s]] = "over"
          /\ answer'[s] = "result"
      BY <1>1, <2>2 DEF Receive, Return, IInv, TypeOK
    <3>2. joined[s] \in Runs /\ Route[owner[joined[s]]] = Route[s]
      <4>1. joined[s] \in Runs \union {None}
        BY <1>1 DEF IInv, TypeOK
      <4>2. joined[s] # None /\ (joined[s] # None => Route[owner[joined[s]]] = Route[s])
        BY <1>1, <3>1 DEF IInv, Fit, CallersFit
      <4> QED BY <4>1, <4>2
    <3>3. \A p \in Providers : outcome[joined[s]][p] \notin {"todo", "calling"}
      BY <1>1, <3>1, <3>2 DEF IInv, Fit, RunsFit
    <3> QED BY <3>1, <3>2, <3>3 DEF Outcomes
  <2> QED BY <1>1, <2>1, <2>2, AnswerSteps
<1>2. ASSUME IInv, [Next]_vars
      PROVE  [\A s \in Callers : answer'[s] \in {"cached", "result"} /\ answer[s] = "none" => Fits(s)]_vars
  BY <1>1, <1>2
<1>3. IInv /\ [Next]_vars =>
        [\A s \in Callers : answer'[s] \in {"cached", "result"} /\ answer[s] = "none" => Fits(s)]_vars
  BY <1>2
<1> QED BY <1>3, Inductive, PTL DEF Spec, AnswersFit

-----------------------------------------------------------------------------
(* The negative cache stays within its bound: a mark more is one less.      *)
Bounded == Cardinality(Marked) <= NegCapacity

(* There are finitely many marks.                                           *)
LEMMA MarksFinite ==
  /\ IsFiniteSet(Marked) /\ Cardinality(Marked) \in Nat
  /\ IsFiniteSet(Marked') /\ Cardinality(Marked') \in Nat
<1>1. Marked \subseteq Seasons /\ Marked' \subseteq Seasons
  BY DEF Marked
<1> QED BY <1>1, SearchAssumption, FS_Subset, FS_CardinalityType

(* Mark keeps the bound, and takes a live mark only if the cache is full of *)
(* live ones.                                                               *)
LEMMA MarkRoom ==
  ASSUME TypeOK, Bounded, NEW k \in Seasons, Mark(k)
  PROVE  /\ Bounded'
         /\ \A n \in Seasons : Live(n) /\ neg'[n] = None =>
              Cardinality(Marked) = NegCapacity /\ \A m \in Marked : Live(m)
<1> DEFINE mark == clock + NegTTL
<1>0. mark \in Nat /\ mark # None /\ NegCapacity \in Nat
  BY Numbers, SearchAssumption DEF TypeOK
<1>1. CASE Cardinality(Marked) < NegCapacity
  <2>1. neg'[k] = mark /\ \A n \in Seasons : n # k => neg'[n] = neg[n]
    BY <1>1 DEF Mark, TypeOK
  <2>2. Marked' = Marked \union {k}
    BY <1>0, <2>1 DEF Marked
  <2>3. Cardinality(Marked') <= Cardinality(Marked) + 1
    BY <2>2, MarksFinite, FS_AddElement
  <2>4. \A n \in Seasons : Live(n) => neg'[n] # None
    BY <1>0, <2>1 DEF Live
  <2> QED BY <1>0, <1>1, <2>3, <2>4, MarksFinite DEF Bounded
<1>2. CASE ~(Cardinality(Marked) < NegCapacity)
  <2>1. PICK m \in Victims : neg' = [neg EXCEPT ![m] = None, ![k] = mark]
    BY <1>2 DEF Mark
  <2>2. m \in Marked /\ m \in Seasons
    BY DEF Victims, Marked
  <2>3. /\ neg'[k] = mark
        /\ m # k => neg'[m] = None
        /\ \A n \in Seasons : n \notin {k, m} => neg'[n] = neg[n]
    BY <2>1, <2>2 DEF TypeOK
  <2>4. Marked' = (Marked \ {m}) \union {k}
    BY <1>0, <2>2, <2>3 DEF Marked
  <2>5. /\ IsFiniteSet(Marked \ {m}) /\ Cardinality(Marked \ {m}) = Cardinality(Marked) - 1
    BY <2>2, MarksFinite, FS_RemoveElement
  <2>6. Cardinality(Marked') <= Cardinality(Marked)
    BY <2>4, <2>5, MarksFinite, FS_AddElement
  <2>7. Cardinality(Marked) = NegCapacity
    BY <1>0, <1>2, MarksFinite DEF Bounded
  <2>8. ASSUME NEW n \in Seasons, Live(n), neg'[n] = None PROVE \A l \in Marked : Live(l)
    <3>1. n = m
      BY <1>0, <2>3, <2>8 DEF Live
    <3> QED BY <2>8, <3>1 DEF Victims
  <2> QED BY <2>6, <2>7, <2>8, MarksFinite DEF Bounded
<1> QED BY <1>1, <1>2

(* What each step does to the marks.                                        *)
LEMMA MarkSteps ==
  ASSUME TypeOK, [Next]_vars
  PROVE  \/ UNCHANGED neg
         \/ \E s \in Callers : neg' = [neg EXCEPT ![Season[s]] = Unmarked(Season[s])]
         \/ \E r \in Runs : /\ phase[r] = "asking" /\ phase'[r] = "concluded" /\ Marks(r)
                           /\ Mark(Season[owner[r]])
<1>1. ASSUME NEW s \in Callers, Unmark(s)
      PROVE  neg' = [neg EXCEPT ![Season[s]] = Unmarked(Season[s])]
  BY <1>1 DEF Unmark
<1>2. ASSUME NEW r \in Runs, Conclude(r), ~UNCHANGED neg
      PROVE  /\ phase[r] = "asking" /\ phase'[r] = "concluded" /\ Marks(r)
             /\ Mark(Season[owner[r]])
  BY <1>2 DEF Conclude, TypeOK
<1>3. ASSUME NEW s \in Callers, NoCache(s) \/ NotBegun(s) \/ WalkAway(s) \/ (CallerStep(s) /\ ~Unmark(s))
      PROVE  UNCHANGED neg
  BY <1>3 DEF NoCache, NotBegun, WalkAway, CallerStep, Hit, Expired, Evict, NoService, NotSeen,
     Outdated, Join, Launch, Receive, cacheVars
<1>4. ASSUME NEW r \in Runs, RunStep(r), ~Conclude(r) PROVE UNCHANGED neg
  BY <1>4 DEF RunStep, Skip, Ask, Succeed, Fail, Deliver, cacheVars
<1>5. CASE Clean \/ Tick \/ UNCHANGED vars
  BY <1>5 DEF Clean, Tick, vars, cacheVars
<1> QED BY <1>1, <1>2, <1>3, <1>4, <1>5 DEF Next, CallerStep

(* A run that concludes was launched by a caller, and that has a season.    *)
LEMMA OwnerSeason ==
  ASSUME IInv, NEW r \in Runs, phase[r] = "asking"
  PROVE  Season[owner[r]] \in Seasons
BY SearchAssumption DEF IInv, Fit, RunsFit

(* The bound holds in every state, and a live mark goes only for another.   *)
LEMMA MarksStep ==
  ASSUME IInv, Bounded, [Next]_vars
  PROVE  /\ Bounded'
         /\ \A n \in Seasons : Live(n) /\ neg'[n] = None =>
              /\ Cardinality(Marked) = NegCapacity /\ \A m \in Marked : Live(m)
              /\ \E r \in Runs : phase[r] = "asking" /\ phase'[r] = "concluded" /\ Marks(r)
<1>1. CASE UNCHANGED neg
  BY <1>1 DEF Bounded, Marked, Live
<1>2. ASSUME NEW s \in Callers, neg' = [neg EXCEPT ![Season[s]] = Unmarked(Season[s])]
      PROVE  Bounded' /\ \A n \in Seasons : Live(n) => neg'[n] # None
  <2>1. Season[s] \in Seasons
    BY SearchAssumption
  <2>2. \A n \in Seasons : neg'[n] = neg[n] \/ (neg'[n] = None /\ ~Live(n))
    BY <1>2, <2>1 DEF Unmarked, IInv, TypeOK
  <2>3. Marked' \subseteq Marked
    BY <2>2 DEF Marked
  <2>4. Cardinality(Marked') <= Cardinality(Marked)
    BY <2>3, MarksFinite, FS_Subset
  <2> QED BY <2>2, <2>4, MarksFinite, SearchAssumption DEF Bounded, Live
<1>3. ASSUME NEW r \in Runs, phase[r] = "asking", phase'[r] = "concluded", Marks(r),
             Mark(Season[owner[r]])
      PROVE  /\ Bounded'
             /\ \A n \in Seasons : Live(n) /\ neg'[n] = None =>
                  Cardinality(Marked) = NegCapacity /\ \A m \in Marked : Live(m)
  BY <1>3, OwnerSeason, MarkRoom DEF IInv
<1> QED
  BY <1>1, <1>2, <1>3, MarkSteps DEF IInv

(***************************************************************************)
(* NegativeCache, for any callers, seasons and capacity: Seen looks a      *)
(* second time before it removes an expired mark, so that a live one goes  *)
(* only to make room for that of another run, in a cache that is full of   *)
(* live ones; and there are never more than the capacity allows.           *)
(***************************************************************************)
THEOREM MarksKept == Spec => NegativeKept
<1> DEFINE Kept ==
      /\ Cardinality(Marked') <= NegCapacity
      /\ \A n \in Seasons : Live(n) /\ neg'[n] = None =>
           /\ Cardinality(Marked) = NegCapacity /\ \A m \in Marked : Live(m)
           /\ \E r \in Runs : phase[r] = "asking" /\ phase'[r] = "concluded" /\ Marks(r)
<1>1. Init => Bounded
  BY DEF Init, Bounded
<1>2. IInv /\ Bounded /\ [Next]_vars => Bounded' /\ Kept
  BY MarksStep DEF Bounded
<1> QED BY <1>1, <1>2, Inductive, PTL DEF Spec, NegativeKept
=============================================================================
