----------------------------- MODULE WatchMigrate -----------------------------
(***************************************************************************)
(* `trvl watch migrate` (migrate.go) on a store in which older binaries    *)
(* left several watches of one target: each group is collapsed into its    *)
(* richest record, the others' running state and history are merged into   *)
(* it, and the history is compacted to the retention caps.                 *)
(*                                                                         *)
(* Migrate runs inside withTxn, so it is one operation on a generation     *)
(* (WatchStore).  The duplicates go on being polled before it, each on its *)
(* own, and the survivors after it, and searches go on observing routes.   *)
(* The dates of a watch decide here, so they are kept beside the           *)
(* generation, by ID: LastCheck, CreatedAt and RenewedAt, 0 for none.      *)
(***************************************************************************)
EXTENDS WatchGeneration

CONSTANTS
  InitStores, \* what a migration may find, before the polls: [gen, dates]
  Prices,     \* positive prices a provider may answer with
  Sightings,  \* what searches may tell of routes
  MaxPolls    \* answers and observations in one behaviour: the bound of the model

Dates == [checked : Nat, created : Nat, renewed : Nat]

VARIABLES
  gen,      \* the committed generation
  dates,    \* the dates of each watch
  now,      \* the clock: one tick a poll
  migrated  \* a migration has run

vars == <<gen, dates, now, migrated>>

-----------------------------------------------------------------------------
\* The greatest or the least of a set of values, 0 if there is none.
Highest(S) == IF S = {} THEN 0 ELSE Max(S)
Lowest0(S) == IF S \ {0} = {} THEN 0 ELSE Min(S \ {0})

\* The earliest creation date of some watches, 0 if none has one.
Oldest(g, d, group) == Lowest0({d[g.watches[i].id].created : i \in group})

\* Mutant: the oldest record wins though it never saw a price.
RicherByAge(g, d, i, j, since) ==
  LET created == d[g.watches[i].id].created
  IN created # 0 /\ (since = 0 \/ created < since)

(* Whether the watch at i should survive over the one at j, if that was     *)
(* created at since.                                                        *)
Richer(g, d, i, j, since) ==
  LET a  == g.watches[i]
      b  == g.watches[j]
      da == d[a.id]
      db == d[b.id]
  IN IF (a.low > 0) # (b.low > 0) THEN a.low > 0
     ELSE IF da.checked # db.checked THEN da.checked > db.checked
     ELSE da.created # 0 /\ (since = 0 \/ da.created < since)

(***************************************************************************)
(* A group is scanned in store order, and the survivor so far collects the *)
(* earliest creation date: the last member survives that is richer than    *)
(* all before it, with the earliest date of all before it.                 *)
(***************************************************************************)
Survivor(g, d, group) ==
  Max({i \in group : \A j \in group :
         j < i => Richer(g, d, i, j, Oldest(g, d, {k \in group : k < i}))})

\* Mutant: grouped by the poll identity, currency included.
GroupByPollKey(g, i) == {j \in DOMAIN g.watches : PollKey(g.watches[j]) = PollKey(g.watches[i])}

(* The watches of one target, by position.                                  *)
GroupOf(g, i) == {j \in DOMAIN g.watches : DedupeKey(g.watches[j]) = DedupeKey(g.watches[i])}

Firsts(g) == {i \in DOMAIN g.watches : \A j \in GroupOf(g, i) : i <= j}

\* Members whose magnitudes can be compared with the survivor's.
Like(g, d, group) ==
  {i \in group : g.watches[i].cur = g.watches[Survivor(g, d, group)].cur}

\* Mutant: the survivor's own low, whatever the others saw.
MergedOwnLow(g, d, group) ==
  LET like == Like(g, d, group)
  IN [g.watches[Survivor(g, d, group)] EXCEPT
        !.base    = Highest({g.watches[i].base : i \in like}),
        !.alerted = Highest({g.watches[i].alerted : i \in like})]

(* The survivor with the running state of its group.                        *)
Merged(g, d, group) ==
  LET like == Like(g, d, group)
  IN [g.watches[Survivor(g, d, group)] EXCEPT
        !.low     = Lowest0({g.watches[i].low : i \in like}),
        !.base    = Highest({g.watches[i].base : i \in like}),
        !.alerted = Highest({g.watches[i].alerted : i \in like})]

LatestRenewal(g, d, group) == Highest({d[g.watches[i].id].renewed : i \in group})

(* collapseDuplicatesLocked: a target's survivor stands where its first was. *)
Collapsed(g, d) ==
  Without([i \in DOMAIN g.watches |-> Merged(g, d, GroupOf(g, i))],
          DOMAIN g.watches \ Firsts(g))

(* A point of a removed member goes to the survivor if their currencies     *)
(* agree; otherwise it stays behind as an orphan.                           *)
Heir(g, d, p) ==
  LET same == {i \in DOMAIN g.watches : g.watches[i].id = p.id /\ i \in Like(g, d, GroupOf(g, i))}
  IN IF same = {} THEN p
     ELSE [p EXCEPT !.id = g.watches[Survivor(g, d, GroupOf(g, Min(same)))].id]

Reassigned(g, d) == [k \in DOMAIN g.history |-> Heir(g, d, g.history[k])]

(* A survivor's dates; a watch that was never renewed is as of now.         *)
Redated(g, d, t) ==
  [id \in Ids |->
     LET here    == {i \in DOMAIN g.watches : g.watches[i].id = id}
         group   == GroupOf(g, Min(here))
         renewed == LatestRenewal(g, d, group)
     IN IF here = {} THEN d[id]
        ELSE [d[id] EXCEPT !.created = Oldest(g, d, group),
                           !.renewed = IF renewed = 0 THEN t ELSE renewed]]

Merge(g, d) == [watches |-> Collapsed(g, d), history |-> Reassigned(g, d)]

(* migrateLocked; a store that is already clean is not written.             *)
MigrateIn(g, d) ==
  LET next == Compact(Merge(g, d))
  IN IF \/ Len(next.watches) < Len(g.watches)
        \/ \E i \in DOMAIN g.watches : LatestRenewal(g, d, GroupOf(g, i)) = 0
        \/ Len(next.history) < Len(g.history)
     THEN Save(next, "migrated") ELSE Skip(g, "clean")

-----------------------------------------------------------------------------
Init ==
  /\ \E s \in InitStores : gen = s.gen /\ dates = s.dates
  /\ now = 1
  /\ migrated = FALSE

(* A poll of one watch, in its currency, folded as check.go does.           *)
Poll(i) ==
  LET w == gen.watches[i]
  IN /\ now <= MaxPolls
     /\ \E price \in Prices, cur \in (IF w.cur = NoCur THEN Codes ELSE {w.cur}) :
          gen' = RecordIn(gen, [op |-> "record", id |-> w.id, key |-> PollKey(w),
                                price |-> price, cur |-> cur]).gen
     /\ dates' = [dates EXCEPT ![w.id].checked = now]
     /\ now' = now + 1
     /\ UNCHANGED migrated

Migrate ==
  LET e == MigrateIn(gen, dates)
  IN /\ gen' = e.gen
     /\ dates' = IF e.verdict = "save" THEN Redated(gen, dates, now) ELSE dates
     /\ migrated' = TRUE
     /\ UNCHANGED now

(* A search; whether its route was observed within the last 15 minutes is   *)
(* anybody's guess.                                                         *)
Observe(o) ==
  \E soon \in BOOLEAN :
    /\ now <= MaxPolls
    /\ gen' = ObserveIn(gen, [id |-> o.id, price |-> o.price, cur |-> Upper[o.cur],
                              soon |-> soon]).gen
    /\ now' = now + 1
    /\ UNCHANGED <<dates, migrated>>

Next ==
  (\E i \in DOMAIN gen.watches : Poll(i)) \/ (\E o \in Sightings : Observe(o)) \/ Migrate

Spec == Init /\ [][Next]_vars

-----------------------------------------------------------------------------
(* A watch has seen every price that is retained for it, in its currency.   *)
Covered(h, w) ==
  \A k \in PointsOf(h, w.id) : w.low > 0 /\ h[k].cur = w.cur /\ w.low <= h[k].price

\* A point is a route's or of a live watch.
Placed(g) == \A k \in DOMAIN g.history : g.history[k].id \in IdsOf(g) \union RouteKeys

(***************************************************************************)
(* The store as earlier calls left it: duplicates of a target, and routes  *)
(* beyond the caps, but each watch alone in order.                         *)
(***************************************************************************)
ASSUME StartAssumption ==
  /\ Prices \subseteq Nat \ {0} /\ MaxPolls \in Nat
  /\ Sightings \subseteq [id : RouteKeys, price : Nat \ {0}, cur : Spellings]
  /\ \A s \in InitStores :
       /\ s.gen \in Generations /\ s.dates \in [Ids -> Dates]
       /\ OneIdEach(s.gen) /\ CanonicalTexts(s.gen) /\ Placed(s.gen)
       /\ \A i \in DOMAIN s.gen.watches : Covered(s.gen.history, s.gen.watches[i])

(***************************************************************************)
(* CleanStaysClean: "It is idempotent" (Migrate's doc): after a migration  *)
(* there is one watch per target and nothing for a second one to do, and   *)
(* no later poll makes the store need one again.                           *)
(***************************************************************************)
CleanStaysClean == migrated => MigrateIn(gen, dates).verdict = "skip" /\ OneEach(gen)

(***************************************************************************)
(* LowCoversSeries: every retained point is a route's or of a live watch,  *)
(* and none of a watch is below its lowest price, though the points of     *)
(* several watches are now one watch's.                                    *)
(***************************************************************************)
LowCoversSeries ==
  Placed(gen) /\ \A i \in DOMAIN gen.watches : Covered(gen.history, gen.watches[i])

(***************************************************************************)
(* ObservationsSurvive: if any watch of a target had seen a price, its     *)
(* survivor has one, and the newest point of the survivor's currency is    *)
(* still the newest of its series.                                         *)
(***************************************************************************)
ObservationsSurvive ==
  [][migrated' /\ now' = now =>
       \A j \in DOMAIN gen'.watches :
         LET v     == gen'.watches[j]
             group == {i \in DOMAIN gen.watches : DedupeKey(gen.watches[i]) = DedupeKey(v)}
             like  == {i \in group : gen.watches[i].cur = v.cur}
             old   == UNION {PointsOf(gen.history, gen.watches[i].id) : i \in like}
             new   == PointsOf(gen'.history, v.id)
         IN /\ (\E i \in group : gen.watches[i].low > 0) => v.low > 0
            /\ old # {} /\ new # {} =>
                 gen'.history[Max(new)] = [gen.history[Max(old)] EXCEPT !.id = v.id]]_vars

(***************************************************************************)
(* QuietRoutesKept: "one busy route's recent points" never "push a quiet   *)
(* route's entire history past the eviction boundary"                      *)
(* (store_route_history.go:66).  A step may add one point to a route; it   *)
(* loses its oldest points only, and only down to its own cap, or while    *)
(* the budget is spent and no other route is left with two more than it -- *)
(* in a transaction and in a migration alike.                              *)
(***************************************************************************)
QuietRoutesKept ==
  [][\A k \in RouteKeys :
       LET Left(h, key) == Cardinality(PointsOf(h, key))
           m            == Left(gen'.history, k)
       IN \E new \in {0, 1} :
            /\ m <= Left(gen.history, k) + new
            /\ \A i \in PointsOf(gen.history, k), j \in PointsOf(gen'.history, k) :
                 Depth(gen'.history, j) = Depth(gen.history, i) + new =>
                   gen'.history[j] = gen.history[i]
            /\ m < Left(gen.history, k) + new =>
                 \/ m = MaxPerRoute
                 \/ /\ Cardinality(RoutePoints(gen'.history)) = MaxRoutes
                    /\ \A other \in RouteKeys : Left(gen'.history, other) <= m + 1]_vars

(***************************************************************************)
(* NoRepeatedAlert: LastAlertedPrice is merged so that "losing it          *)
(* re-alerts for a drop already reported" (migrate.go:274-276) does not    *)
(* happen: what a member would not report again, the survivor does not.    *)
(***************************************************************************)
NoRepeatedAlert ==
  [][migrated' /\ now' = now =>
       \A i \in DOMAIN gen.watches, j \in DOMAIN gen'.watches, price \in Prices :
         LET w == gen.watches[i]
             v == gen'.watches[j]
         IN DedupeKey(w) = DedupeKey(v) /\ w.cur = v.cur /\ w.alerted > 0 /\ price >= w.alerted =>
              ~AlertFires([base |-> v.base, alerted |-> v.alerted], price,
                          [pct |-> v.pct, abs |-> v.abs])]_vars
=============================================================================
