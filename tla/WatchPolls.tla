------------------------------ MODULE WatchPolls ------------------------------
(***************************************************************************)
(* Price checks in flight over the watch store (check.go, check_room.go).  *)
(*                                                                         *)
(* A check copies a watch, asks a provider about it for seconds, and folds *)
(* the answer into the store in one transaction.  Meanwhile other checks   *)
(* of the same watch -- the daemon's, an MCP call's -- and the user's      *)
(* re-watches, edits and removals commit.  The store is taken as WatchStore*)
(* proves it: one generation, each operation atomic on it.                 *)
(***************************************************************************)
EXTENDS WatchGeneration

CONSTANTS
  Pollers,  \* checks that may be in flight at once
  Wishes,   \* what a user may ask Add for
  Edits,    \* what a user may ask Update for
  Prices,   \* positive prices a provider may answer with
  InitGens, \* what the store may hold at the start
  MaxQuotes \* answers folded in one behaviour: the bound of the model

ASSUME PollAssumption ==
  /\ Prices \subseteq Nat \ {0} /\ MaxQuotes \in Nat
  /\ Wishes \subseteq [target : Targets, cur : Spellings, below : Nat, pct : Nat, abs : Nat]
  /\ \A u \in Edits : DOMAIN u \subseteq UpdateFields /\ \A f \in DOMAIN u : u[f] \in Nat

-----------------------------------------------------------------------------
(* A watch's points are in its currency, the newest is its last price, and  *)
(* none lies below its lowest price, which is known.                        *)
Comparable(h, w) ==
  LET mine == PointsOf(h, w.id)
  IN mine # {} => /\ w.low > 0 /\ h[Max(mine)].price = w.last
                  /\ \A k \in mine : h[k].cur = w.cur /\ w.low <= h[k].price

(* The high-water mark a drop is measured from is not below the last price, *)
(* and the price last alerted at lies under it, not under the lowest price. *)
Coherent(w) ==
  /\ w.base > 0 => w.last <= w.base
  /\ w.alerted > 0 => w.low <= w.alerted /\ w.alerted < w.base

(***************************************************************************)
(* A record as checks leave it: a mark means that a lowest price is known; *)
(* a watch that lost its sole threshold has no mark; a room has neither a  *)
(* mark nor a dissenting quote.                                            *)
(***************************************************************************)
Kept(w) ==
  /\ w.base > 0 => w.low > 0
  /\ w.cleared => w.pct = 0 /\ w.abs = 0 /\ w.base = 0
  /\ IsRoom(w) => w.base = 0 /\ w.pend = NoCur

\* The store as earlier calls left it.
ASSUME StartAssumption ==
  \A g \in InitGens :
    /\ Sound(g) /\ OneIdEach(g)
    /\ \A i \in DOMAIN g.watches :
         LET w == g.watches[i] IN Comparable(g.history, w) /\ Coherent(w) /\ Kept(w)

VARIABLES
  gen,    \* the committed generation
  poll,   \* each check in flight
  drawn,  \* IDs in use so far
  quotes, \* answers folded so far
  heard,  \* history variable: the currency of the last quote folded into an ID,
          \* at the start the one a watch is about to adopt
  chose   \* history variable: the user's last word on an ID named a drop threshold

vars == <<gen, poll, drawn, quotes, heard, chose>>

\* What a check carries from the copy it was given; later, its answer; at the
\* end, what it tells its caller.
NoPoll == [stage |-> "idle"]
Asked(w) == [stage |-> "asked", id |-> w.id, key |-> PollKey(w), snap |-> w.cur]

Init ==
  /\ gen \in InitGens
  /\ poll = [p \in Pollers |-> NoPoll]
  /\ drawn = IdsOf(gen)
  /\ quotes = 0
  /\ heard = [id \in Ids |-> IF id \in IdsOf(gen) THEN WatchOf(gen, id).pend ELSE NoCur]
  /\ chose = [id \in Ids |-> \E i \in DOMAIN gen.watches :
                gen.watches[i].id = id /\ (gen.watches[i].pct > 0 \/ gen.watches[i].abs > 0)]

-----------------------------------------------------------------------------
(* The checker is handed a copy of a watch and captures its poll identity.  *)
Begin(p) ==
  /\ poll[p].stage = "idle"
  /\ \E i \in DOMAIN gen.watches : poll' = [poll EXCEPT ![p] = Asked(gen.watches[i])]
  /\ UNCHANGED <<gen, drawn, quotes, heard, chose>>

\* Mutant: a provider's silence about the currency is believed.
UsableUnlessGarbage(snap, spelling) ==
  LET cur == Upper[spelling] IN cur # NoCur => ValidCode(cur)

(***************************************************************************)
(* What a check refuses before it opens a transaction: a text that is not  *)
(* a currency, or no currency on a watch whose copy already has one.       *)
(***************************************************************************)
Usable(snap, spelling) ==
  LET cur == Upper[spelling]
  IN /\ cur # NoCur => ValidCode(cur)
     /\ cur = NoCur => spelling = NoCur /\ snap = NoCur

Answer(p) ==
  /\ poll[p].stage = "asked"
  /\ \E price \in Prices, spelling \in Spellings :
       /\ Usable(poll[p].snap, spelling)
       /\ poll' = [poll EXCEPT ![p] =
                     [stage |-> "answered", id |-> poll[p].id, key |-> poll[p].key,
                      price |-> price, cur |-> Upper[spelling]]]
  /\ UNCHANGED <<gen, drawn, quotes, heard, chose>>

(* An error, a timeout, no price, or an unusable quote: nothing is stored.  *)
GiveUp(p) ==
  /\ poll[p].stage = "asked"
  /\ poll' = [poll EXCEPT ![p] = NoPoll]
  /\ UNCHANGED <<gen, drawn, quotes, heard, chose>>

Outcome(p) ==
  RecordIn(gen, [op |-> "record", id |-> poll[p].id, key |-> poll[p].key,
                 price |-> poll[p].price, cur |-> poll[p].cur])

(***************************************************************************)
(* MutateAndRecordPrice: the watch is gone (error), the question is stale  *)
(* (nothing written, nothing fired), or the quote is folded into it.       *)
(***************************************************************************)
Discard(p) ==
  /\ poll[p].stage = "answered"
  /\ Outcome(p).verdict # "save"
  /\ poll' = [poll EXCEPT ![p] = NoPoll]
  /\ UNCHANGED <<gen, drawn, quotes, heard, chose>>

FoldIn(p) ==
  /\ poll[p].stage = "answered" /\ quotes < MaxQuotes
  /\ Outcome(p).verdict = "save"
  /\ gen' = Outcome(p).gen
  /\ poll' = [poll EXCEPT ![p] =
                [stage |-> "folded", id |-> poll[p].id, price |-> poll[p].price,
                 cur |-> poll[p].cur, told |-> Outcome(p).out]]
  /\ quotes' = quotes + 1
  /\ heard' = [heard EXCEPT ![poll[p].id] = poll[p].cur]
  /\ UNCHANGED <<drawn, chose>>

\* The caller has its result; a drop's webhook is on its way.
Report(p) ==
  /\ poll[p].stage = "folded"
  /\ poll' = [poll EXCEPT ![p] = NoPoll]
  /\ UNCHANGED <<gen, drawn, quotes, heard, chose>>

\* The checking process dies, or its context ends, at any point.
Die(p) ==
  /\ poll[p].stage # "idle"
  /\ poll' = [poll EXCEPT ![p] = NoPoll]
  /\ UNCHANGED <<gen, drawn, quotes, heard, chose>>

-----------------------------------------------------------------------------
\* The ID a wish lands on: the watched target's, or a fresh one.
Landing(wish) ==
  LET same == Positions(gen, LAMBDA w : DedupeKey(w) = wish.target)
  IN IF same = {} THEN Ids \ drawn ELSE {gen.watches[Min(same)].id}

(* The user watches a target, new or already watched.                       *)
Rewatch ==
  \E wish \in Wishes : \E id \in Landing(wish) :
    /\ gen' = AddTo(gen, [op |-> "add", id |-> id, wish |-> wish]).gen
    /\ drawn' = drawn \union {id}
    /\ chose' = [chose EXCEPT ![id] = @ \/ wish.pct > 0 \/ wish.abs > 0]
    /\ UNCHANGED <<poll, quotes, heard>>

(* The user edits fields of a watch; naming a drop limb is a last word.     *)
Edit ==
  \E i \in DOMAIN gen.watches, u \in Edits :
    LET id == gen.watches[i].id
        e  == UpdateIn(gen, [op |-> "update", id |-> id, set |-> u])
    IN /\ e.verdict = "save"
       /\ gen' = e.gen
       /\ chose' = [chose EXCEPT ![id] =
                      IF DOMAIN u \intersect {"pct", "abs"} = {} THEN @
                      ELSE WatchOf(gen', id).pct > 0 \/ WatchOf(gen', id).abs > 0]
       /\ UNCHANGED <<poll, drawn, quotes, heard>>

Remove ==
  \E i \in DOMAIN gen.watches :
    /\ gen' = RemoveFrom(gen, [op |-> "remove", id |-> gen.watches[i].id]).gen
    /\ UNCHANGED <<poll, drawn, quotes, heard, chose>>

Check(p) == Begin(p) \/ Answer(p) \/ GiveUp(p) \/ Discard(p) \/ FoldIn(p) \/ Report(p) \/ Die(p)

Next == (\E p \in Pollers : Check(p)) \/ Rewatch \/ Edit \/ Remove

Spec == Init /\ [][Next]_vars

-----------------------------------------------------------------------------
(***************************************************************************)
(* SeriesComparable: what is retained for a watch can be compared.  Its    *)
(* points are in its currency, the newest is its last price, and no point  *)
(* lies below its lowest price -- through currency switches by polls and   *)
(* by re-watches, with other polls in flight.                              *)
(***************************************************************************)
SeriesComparable ==
  \A i \in DOMAIN gen.watches : Comparable(gen.history, gen.watches[i])

(***************************************************************************)
(* AlertMemoryCoherent: the high-water mark a drop is measured from is not *)
(* below the last price, and the price last alerted at lies under it and   *)
(* not under the lowest price -- which fails as soon as a magnitude of one *)
(* currency outlives a switch to another.                                  *)
(***************************************************************************)
AlertMemoryCoherent == \A i \in DOMAIN gen.watches : Coherent(gen.watches[i])

\* A step in which a check folded its answer into a watch: the watch before
\* and after, and what the caller is told.
Folds(p)  == poll[p].stage = "answered" /\ poll'[p].stage = "folded"
Before(p) == WatchOf(gen, poll[p].id)
After(p)  == WatchOf(gen', poll[p].id)
Told(p)   == poll'[p].told

(***************************************************************************)
(* SwitchJustified: "A single poll in a different currency is not evidence *)
(* of a currency change" (watch.go:94-95).  A poll moves a watch from a    *)
(* currency only if it was asked in that currency, and, when there was an  *)
(* observation to lose, only if the quote folded before it said the same.  *)
(* Room watches are left out: FoldRoom believes the first quote.           *)
(***************************************************************************)
SwitchJustified ==
  [][\A p \in Pollers :
       Folds(p) /\ After(p).cur # Before(p).cur /\ ~IsRoom(Before(p)) =>
         /\ poll[p].key = PollKey(Before(p))
         /\ HasPrior(Before(p)) => heard[poll[p].id] = poll'[p].cur]_vars

(***************************************************************************)
(* ThresholdsFollowCurrency: a poll takes a user's threshold away only     *)
(* when it adopts another currency in the same step, and then it says so.  *)
(***************************************************************************)
ThresholdsFollowCurrency ==
  [][\A p \in Pollers :
       Folds(p) /\ (After(p).below # Before(p).below \/ After(p).abs # Before(p).abs) =>
         After(p).cur # Before(p).cur /\ Told(p).lost]_vars

(***************************************************************************)
(* DropsComparable: a drop that a check reports -- and posts to a webhook  *)
(* -- is measured from the newest retained point, in the quote's currency, *)
(* whatever other checks committed while this one was in flight.           *)
(***************************************************************************)
DropsComparable ==
  [][\A p \in Pollers :
       LET mine   == PointsOf(gen.history, poll[p].id)
           newest == gen.history[Max(mine)]
       IN Folds(p) /\ Told(p).drop # 0 /\ mine # {} =>
            newest.price = poll'[p].price - Told(p).drop /\ newest.cur = poll'[p].cur]_vars

(***************************************************************************)
(* NoUnchosenPolicy: a user who chose a drop threshold is never alerted by *)
(* the built-in 10% default instead, also after a currency switch has      *)
(* force-cleared that threshold.                                           *)
(***************************************************************************)
NoUnchosenPolicy ==
  [][\A p \in Pollers :
       Folds(p) /\ Told(p).alert /\ After(p).pct = 0 /\ After(p).abs = 0 =>
         ~chose[poll[p].id]]_vars

(* ThresholdsRespected: a poll leaves the user's thresholds to the user: it *)
(* takes one away only with the currency it was in, and puts none in its    *)
(* place.                                                                   *)
ThresholdsRespected == ThresholdsFollowCurrency /\ NoUnchosenPolicy

(***************************************************************************)
(* CurrencyKept: a watch that knows its currency never forgets it, though  *)
(* the check that folds into it decided on a copy that may not have known. *)
(***************************************************************************)
CurrencyKept ==
  [][\A i \in DOMAIN gen.watches, j \in DOMAIN gen'.watches :
       gen.watches[i].id = gen'.watches[j].id /\ gen.watches[i].cur # NoCur
         => gen'.watches[j].cur # NoCur]_vars

(***************************************************************************)
(* RemovedStaysRemoved: no check in flight brings back a watch that the    *)
(* user removed.                                                           *)
(***************************************************************************)
RemovedStaysRemoved ==
  [][\A id \in drawn : id \notin IdsOf(gen) => id \notin IdsOf(gen')]_vars

(* NothingUndone: no check in flight undoes what was settled meanwhile.     *)
NothingUndone == CurrencyKept /\ RemovedStaysRemoved
=============================================================================
