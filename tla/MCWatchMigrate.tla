---------------------------- MODULE MCWatchMigrate ----------------------------
(* A store of an older binary: three watches of one flight, in two          *)
(* currencies, and one of another.                                          *)
EXTENDS WatchMigrate, TLC

Seqs == INSTANCE SequencesExt

MCTargets == {"lon", "rom"}
MCCodes == {"EUR", "USD"}
MCSpellings == {"EUR", "USD", "usd", ""}
MCUpper == [s \in MCSpellings |-> IF s = "usd" THEN "USD" ELSE s]
MCKeyOrder == [k \in RouteKeys |->
                 CASE k = "busy" -> 1 [] k = "late" -> 2 [] k = "other" -> 3 [] k = "quiet" -> 4]

Old(id, t, c) == NewWatch(id, [target |-> t, cur |-> c, below |-> 0, pct |-> 0, abs |-> 0])
Dated(created, renewed) == [checked |-> 0, created |-> created, renewed |-> renewed]

\* Points of a busy and of quiet routes, as a store without caps kept them.
Seen(ks) == [i \in DOMAIN ks |-> [id |-> ks[i], price |-> 100, cur |-> "EUR"]]
MCCorpora == {Seen(<<"quiet", "busy", "busy">>), Seen(<<"quiet", "busy", "busy", "busy", "busy">>),
              Seen(<<"busy", "quiet", "other", "late">>)}
MCSightings == {[id |-> "busy", price |-> 100, cur |-> "EUR"], [id |-> "quiet", price |-> 80, cur |-> "usd"]}

MCOldStores ==
  {[gen   |-> [watches |-> <<Old("a", "lon", "EUR"), Old("r", "rom", "EUR"),
                             Old("b", "lon", "EUR"), Old("c", "lon", d)>>, history |-> <<>>],
    dates |-> [id \in Ids |-> CASE id = "a" -> Dated(x, 0) [] id = "r" -> Dated(1, 1)
                                [] id = "b" -> Dated(2, 1) [] id = "c" -> Dated(1, 0)]] :
     x \in {0, 1}, d \in {"USD", ""}}
  \union
  {[gen   |-> [watches |-> <<Old("a", "lon", "EUR")>>, history |-> h],
    dates |-> [id \in Ids |-> Dated(1, 0)]] : h \in MCCorpora}

-----------------------------------------------------------------------------
(* The loops of the code, step by step, against the closed forms.           *)

\* collapseDuplicatesLocked's scan of one group: the survivor so far, and its
\* earliest creation date.
Scanned(g, d) ==
  LET Created(i)    == d[g.watches[i].id].created
      Earlier(a, b) == IF a = 0 \/ (b # 0 /\ b < a) THEN b ELSE a
      Scan(s, i)    == [at    |-> IF Richer(g, d, i, s.at, s.since) THEN i ELSE s.at,
                        since |-> Earlier(s.since, Created(i))]
  IN Seqs!FoldLeft(Scan, [at |-> 1, since |-> Created(1)],
                   [k \in 1..(Len(g.watches) - 1) |-> k + 1])

\* All groups of three: prices seen or not, and a few dates.
SmallGroups ==
  LET Trace == [low : {0, 60}, checked : 0..1, created : 0..2]
      names == <<"a", "b", "c">>
  IN {<<[watches |-> [i \in 1..3 |-> [Old(names[i], "lon", "EUR") EXCEPT !.low = t[i].low]],
         history |-> <<>>],
        [id \in Ids |-> LET at == {i \in 1..3 : names[i] = id}
                        IN IF at = {} THEN Dated(0, 0)
                           ELSE [Dated(t[Min(at)].created, 0)
                                   EXCEPT !.checked = t[Min(at)].checked]]>> :
        t \in [1..3 -> Trace]}

(* The survivor is the one the scan ends with, and has its creation date.   *)
ASSUME SurvivorIsScanned ==
  \A s \in SmallGroups :
    LET g == s[1] d == s[2]
    IN /\ Scanned(g, d).at = Survivor(g, d, 1..3)
       /\ Scanned(g, d).since = Oldest(g, d, 1..3)

\* One turn of pruneGlobalRouteTx's loop.
EvictFromLongest(h) ==
  LET most    == Max({Cardinality(PointsOf(h, k)) : k \in RouteKeys})
      longest == {k \in RouteKeys : Cardinality(PointsOf(h, k)) = most}
      victim  == IF most <= 1 THEN h[Min(RoutePoints(h))].id
                 ELSE CHOOSE k \in longest : \A l \in longest : KeyOrder[k] <= KeyOrder[l]
  IN Without(h, {Min(PointsOf(h, victim))})

(* The budget shared out is what the loop leaves.                           *)
ASSUME ShareIsEvicted ==
  \A n \in 0..6 : \A ks \in [1..n -> RouteKeys] :
    PruneRoutes(Seen(ks)) =
      Seqs!FoldLeft(LAMBDA rest, k : EvictFromLongest(rest), Seen(ks),
                    [k \in 1..(n - MaxRoutes) |-> k])
=============================================================================
