--------------------------- MODULE WatchGeneration ---------------------------
(***************************************************************************)
(* One generation of the watch store -- the watches and their price        *)
(* history, as internal/watch keeps them in memory and in watch.db -- and  *)
(* the effect of each store operation on it.  A generation is what one     *)
(* transaction reads and what it writes.                                   *)
(*                                                                         *)
(* History is one sequence in append order (the meta sequence number);     *)
(* the per-series and global indexes of the database are views of it.      *)
(* A point belongs to a watch, or to a route that somebody searched.       *)
(***************************************************************************)
EXTENDS WatchRecord, FiniteSets, FiniteSetsExt

CONSTANTS
  MaxPerWatch,  \* retentionConfig.MaxPointsPerWatch
  MaxTotal,     \* retentionConfig.MaxPointsTotal
  RouteKeys,    \* routes that searches observe, none the ID of a watch
  KeyOrder,     \* the order of the route keys in the database: byte order
  MaxPerRoute,  \* maxObservationsPerRoute
  MaxRoutes     \* maxRouteObservations

ASSUME RouteAssumption ==
  /\ RouteKeys \intersect Ids = {}
  /\ KeyOrder \in [RouteKeys -> Nat]
  /\ \A k, l \in RouteKeys : KeyOrder[k] = KeyOrder[l] => k = l

ASSUME RetentionAssumption ==
  /\ MaxPerWatch \in Nat \ {0} /\ MaxTotal \in Nat \ {0}
  /\ MaxPerRoute \in Nat \ {0} /\ MaxRoutes \in Nat \ {0}

Points == [id : Ids \union RouteKeys, price : Nat \ {0}, cur : Spellings]
Generations == [watches : Seq(Watches), history : Seq(Points)]

Empty == [watches |-> <<>>, history |-> <<>>]

IdsOf(g) == {g.watches[i].id : i \in DOMAIN g.watches}

\* The first position holding a watch that satisfies Test, as the scans find it.
Positions(g, Test(_)) == {i \in DOMAIN g.watches : Test(g.watches[i])}

WatchOf(g, id) == g.watches[Min(Positions(g, LAMBDA w : w.id = id))]

PutWatch(g, w) ==
  [g EXCEPT !.watches[Min(Positions(g, LAMBDA v : v.id = w.id))] = w]

(***************************************************************************)
(* What is left of a sequence when some positions go: the others move up.  *)
(***************************************************************************)
Without(h, doomed) ==
  LET kept    == DOMAIN h \ doomed
      Rank(i) == Cardinality({j \in kept : j <= i})
  IN [k \in 1..Cardinality(kept) |-> h[CHOOSE i \in kept : Rank(i) = k]]

RoutePoints(h) == {i \in DOMAIN h : h[i].id \in RouteKeys}
WatchPoints(h) == DOMAIN h \ RoutePoints(h)
PointsOf(h, k) == {i \in DOMAIN h : h[i].id = k}

\* How many points of its own series a point is from the newest, itself included.
Depth(h, i) == Cardinality({j \in PointsOf(h, h[i].id) : j >= i})

\* Mutant: the points stay.
PurgeForgotten(h, id) == h

(* purgeHistoryLocked and purgeWatchHistoryTx.                              *)
Purge(h, id) == Without(h, PointsOf(h, id))

(***************************************************************************)
(* evictOldestLocked, and the pruneSeriesTx and pruneGlobalWatchTx loops:  *)
(* at most limit of the matching points stay, the newest ones.             *)
(***************************************************************************)
EvictOldest(h, hits, limit) ==
  IF Cardinality(hits) <= limit THEN h
  ELSE Without(h, {i \in hits : Cardinality({j \in hits : j >= i}) > limit})

PruneWatch(h, id) == EvictOldest(h, PointsOf(h, id), MaxPerWatch)
PruneGlobal(h)    == EvictOldest(h, WatchPoints(h), MaxTotal)
PruneRoute(h, k)  == EvictOldest(h, PointsOf(h, k), MaxPerRoute)

(***************************************************************************)
(* The budget of all routes.  Every route keeps its newest points up to    *)
(* the largest quota that fits, and what is left of the budget goes to the *)
(* next-newest points of longer routes, in the order given; when not even  *)
(* one point of each fits, to the routes observed last.                    *)
(***************************************************************************)
ShareOut(h, order) ==
  LET points    == RoutePoints(h)
      Within(q) == {i \in points : Depth(h, i) <= q}
      quota     == Max({q \in 0..Len(h) : Cardinality(Within(q)) <= MaxRoutes})
      next      == {i \in points : Depth(h, i) = quota + 1}
      Turn(i)   == IF quota = 0 THEN Len(h) - i ELSE order[h[i].id]
      left      == MaxRoutes - Cardinality(Within(quota))
      added     == {i \in next : Cardinality({j \in next : Turn(j) < Turn(i)}) < left}
  IN IF Cardinality(points) <= MaxRoutes THEN h
     ELSE Without(h, points \ (Within(quota) \union added))

\* Mutant: the oldest points of all routes go first.
OldestRoutesFirst(h) == EvictOldest(h, RoutePoints(h), MaxRoutes)

(***************************************************************************)
(* In a transaction (pruneGlobalRouteTx) the longest route pays, the first *)
(* of them in key order, one point at a time, and the oldest point once    *)
(* every route is down to one: the last in key order keep what is left.    *)
(* In memory (pruneGlobalRouteLocked) it goes to the routes that the       *)
(* history names first.                                                    *)
(***************************************************************************)
PruneRoutes(h) == ShareOut(h, [k \in RouteKeys |-> 0 - KeyOrder[k]])

FairShare(h) ==
  ShareOut(h, [k \in {h[i].id : i \in RoutePoints(h)} |-> Min(PointsOf(h, k))])

(***************************************************************************)
(* normalizeCurrenciesLocked: every load canonicalises the texts in memory.*)
(***************************************************************************)
Canonical(g) ==
  [watches |-> [i \in DOMAIN g.watches |-> [g.watches[i] EXCEPT !.cur = Upper[@]]],
   history |-> [i \in DOMAIN g.history |-> [g.history[i] EXCEPT !.cur = Upper[@]]]]

(***************************************************************************)
(* compactHistoryLocked: orphans and points in another currency go first,  *)
(* so the caps spend their budget on points that stay.                     *)
(***************************************************************************)
Belongs(g, p) ==
  \/ p.id \in RouteKeys
  \/ /\ p.id \in IdsOf(g)
     /\ p.cur # NoCur => WatchOf(g, p.id).cur \in {NoCur, p.cur}

Foreign(g) == {i \in DOMAIN g.history : ~Belongs(g, g.history[i])}

\* Mutant: the conversion drops foreign points and forgets the caps.
CompactUncapped(g) == [g EXCEPT !.history = Without(@, Foreign(g))]

Compact(g) ==
  LET own    == Without(g.history, Foreign(g))
      each   == Without(own, {i \in WatchPoints(own) : Depth(own, i) > MaxPerWatch})
      total  == PruneGlobal(each)
      routes == Without(total, {i \in RoutePoints(total) : Depth(total, i) > MaxPerRoute})
  IN [g EXCEPT !.history = FairShare(routes)]

(***************************************************************************)
(* The operations.  Each is a record naming what the caller asked for; its *)
(* effect says whether the transaction saves, unwinds as a no-op           *)
(* (errTxnNoop) or fails, and the generation it would save.                *)
(***************************************************************************)
Save(g, out) == [verdict |-> "save",  gen |-> g, out |-> out]
Skip(g, out) == [verdict |-> "skip",  gen |-> g, out |-> out]
Fail(g)      == [verdict |-> "error", gen |-> g, out |-> "error"]

\* Watch.Validate, as far as the fields kept here decide it.
ValidWatch(w) == CurOf(w) = NoCur \/ ValidCode(CurOf(w))

\* Mutant: the existence check keys on the poll identity, currency included.
AddToByPollKey(g, r) ==
  LET new  == NewWatch(r.id, r.wish)
      same == Positions(g, LAMBDA w : PollKey(w) = PollKey(new))
  IN IF same = {} THEN Save([g EXCEPT !.watches = Append(@, new)], "created")
     ELSE Save([g EXCEPT !.watches[Min(same)] = ApplyIntent(@, r.wish)], "renewed")

AddTo(g, r) ==
  LET same == Positions(g, LAMBDA w : DedupeKey(w) = r.wish.target)
      old  == g.watches[Min(same)]
      next == [g EXCEPT !.watches[Min(same)] = ApplyIntent(old, r.wish)]
  IN IF same = {}
     THEN Save([g EXCEPT !.watches = Append(@, NewWatch(r.id, r.wish))], "created")
     ELSE Save(IF CurrencyMoves(old, r.wish)
               THEN [next EXCEPT !.history = Purge(@, old.id)] ELSE next, "renewed")

\* Mutant: removing a watch leaves its points behind.
RemoveRowOnly(g, r) ==
  IF r.id \notin IdsOf(g) THEN Skip(g, "absent")
  ELSE Save([g EXCEPT !.watches = Without(@, Positions(g, LAMBDA w : w.id = r.id))], "removed")

RemoveFrom(g, r) ==
  IF r.id \notin IdsOf(g) THEN Skip(g, "absent")
  ELSE Save([watches |-> Without(g.watches, Positions(g, LAMBDA w : w.id = r.id)),
             history |-> Purge(g.history, r.id)], "removed")

UpdateIn(g, r) ==
  IF r.id \notin IdsOf(g) \/ ~ValidWatch(WatchOf(g, r.id)) THEN Fail(g)
  ELSE Save(PutWatch(g, ApplyUpdate(WatchOf(g, r.id), r.set)), "updated")

Point(r) == [id |-> r.id, price |-> r.price, cur |-> r.cur]

\* Mutant: the staleness gate is missing.
RecordInUngated(g, r) ==
  LET w      == WatchOf(g, r.id)
      f      == Fold(w, r.price, r.cur)
      purged == IF f.out.purge THEN Purge(g.history, r.id) ELSE g.history
      grown  == IF f.out.point THEN PruneGlobal(Append(purged, Point(r))) ELSE purged
  IN IF r.id \notin IdsOf(g) THEN Fail(g)
     ELSE Save([PutWatch(g, f.rec) EXCEPT !.history = grown], f.out)

\* Mutant: a detached copy is written back, there or not.
RecordInUpsert(g, r) ==
  LET wish == [target |-> r.key[1], cur |-> r.cur, below |-> 0, pct |-> 0, abs |-> 0]
      w    == IF r.id \in IdsOf(g) THEN WatchOf(g, r.id) ELSE NewWatch(r.id, wish)
      f    == Fold(w, r.price, r.cur)
  IN Save(IF r.id \in IdsOf(g) THEN PutWatch(g, f.rec)
          ELSE [g EXCEPT !.watches = Append(@, f.rec)], f.out)

RecordIn(g, r) ==
  LET w      == WatchOf(g, r.id)
      f      == Fold(w, r.price, r.cur)
      purged == IF f.out.purge THEN Purge(g.history, r.id) ELSE g.history
      grown  == IF f.out.point
                THEN PruneGlobal(PruneWatch(Append(purged, Point(r)), r.id))
                ELSE purged
  IN CASE r.id \notin IdsOf(g)  -> Fail(g)
       [] r.id \in IdsOf(g) /\ PollKey(w) # r.key -> Skip(g, "stale")
       [] OTHER -> Save([PutWatch(g, f.rec) EXCEPT !.history = grown], f.out)

(* RecordObservation: a search tells what a route costs; soon after the     *)
(* last point of that currency, nearly the same price is not worth another. *)
ObserveIn(g, r) ==
  LET alike == {i \in PointsOf(g.history, r.id) : g.history[i].cur = r.cur}
  IN IF r.soon /\ alike # {} /\ g.history[Max(alike)].price = r.price
     THEN Skip(g, "redundant")
     ELSE Save([g EXCEPT !.history = PruneRoutes(PruneRoute(Append(@, Point(r)), r.id))],
               "observed")

Effect(g, r) ==
  CASE r.op = "add"    -> AddTo(g, r)
    [] r.op = "remove" -> RemoveFrom(g, r)
    [] r.op = "update" -> UpdateIn(g, r)
    [] r.op = "record" -> RecordIn(g, r)

(* Operations that go through withTxn; a quote goes through withBoltMutation. *)
TxnOps == {"add", "remove", "update"}

-----------------------------------------------------------------------------
(***************************************************************************)
(* What makes a generation sound, and what an old store must bring.        *)
(*                                                                         *)
(* CanonicalTexts: the currency texts are canonical.  withBoltMutation     *)
(* reads them without canonicalising, so a stored "usd" would be taken for *)
(* a currency change by the next poll.                                     *)
(***************************************************************************)
CanonicalTexts(g) ==
  /\ \A i \in DOMAIN g.watches : Upper[g.watches[i].cur] = g.watches[i].cur
  /\ \A i \in DOMAIN g.history : Upper[g.history[i].cur] = g.history[i].cur

(* OneEach: a target has one watch (Store.Add's existence check).           *)
OneEach(g) ==
  \A i, j \in DOMAIN g.watches : DedupeKey(g.watches[i]) = DedupeKey(g.watches[j]) => i = j

(* OneIdEach: an ID has one watch.                                          *)
OneIdEach(g) ==
  \A i, j \in DOMAIN g.watches : g.watches[i].id = g.watches[j].id => i = j

(***************************************************************************)
(* Priced: a watch with retained points has seen a price, so a quote in    *)
(* another currency is a change of currency and purges them.               *)
(***************************************************************************)
Priced(g) ==
  \A i \in DOMAIN g.history :
    g.history[i].id \in IdsOf(g) => HasPrior(WatchOf(g, g.history[i].id))

(***************************************************************************)
(* Owned: every retained point is a route's or belongs to a stored watch   *)
(* and is in its currency, so no reader mixes magnitudes and no deleted    *)
(* watch consumes the caps (Remove, Add, MutateAndRecordPrice).            *)
(***************************************************************************)
Owned(g) == \A i \in DOMAIN g.history : Belongs(g, g.history[i])

(* Capped: neither the per-watch nor the global retention cap is exceeded.  *)
Capped(g) ==
  /\ Cardinality(WatchPoints(g.history)) <= MaxTotal
  /\ \A id \in IdsOf(g) : Cardinality(PointsOf(g.history, id)) <= MaxPerWatch

\* A store that was loaded, and one that was compacted; an old one may hold several
\* watches per target, which nothing but `trvl watch migrate` merges.
Loadable(g) == g \in Generations /\ Priced(g)
Sound(g)    == Loadable(g) /\ CanonicalTexts(g) /\ Owned(g) /\ Capped(g)

\* What callers can ask for: their prices are checked and their quotes canonical.
Askable(r) ==
  CASE r.op = "add" ->
         /\ r.id \in Ids
         /\ r.wish \in [target : Targets, cur : Spellings, below : Nat, pct : Nat, abs : Nat]
    [] r.op = "update" ->
         DOMAIN r.set \subseteq UpdateFields /\ \A f \in DOMAIN r.set : r.set[f] \in Nat
    [] r.op = "record" ->
         r.price \in Nat \ {0} /\ r.cur \in Spellings /\ Upper[r.cur] = r.cur
    [] OTHER -> r.op = "remove"

\* An ID is drawn for a new watch: no point was left under it.
Unused(g, r) ==
  r.op = "add" => \A i \in DOMAIN g.history : g.history[i].id = r.id => r.id \in IdsOf(g)
=============================================================================
