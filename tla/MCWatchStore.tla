----------------------------- MODULE MCWatchStore -----------------------------
(* Small directories and requests for model-checking WatchStore.            *)
EXTENDS WatchStore

MCKeyOrder == [k \in RouteKeys |-> 0]
MCTargets == {"lon", "rom"}
MCCodes == {"EUR", "USD"}
MCSpellings == {"EUR", "USD", "eur", "usd", "", "E R"}
MCUpper == [s \in MCSpellings |->
              CASE s = "eur" -> "EUR" [] s = "usd" -> "USD" [] OTHER -> s]

Wish(t, c, b) == [target |-> t, cur |-> c, below |-> b, pct |-> 0, abs |-> 0]
AddReq(i, t, c, b) == [op |-> "add", id |-> i, wish |-> Wish(t, c, b)]
Quote(i, t, c, price) ==
  [op |-> "record", id |-> i, key |-> <<t, c>>, price |-> price, cur |-> c]

MCLoading == [op |-> "load"]

\* Watch w0 is stored from the start, unless the directory is empty; its target is
\* re-watched in two currencies, edited, polled, removed, and added twice at once.
MCRequests == {
  AddReq("a", "lon", "eur", 0), AddReq("b", "lon", "usd", 90), AddReq("c", "lon", "E R", 0),
  [op |-> "remove", id |-> "w0"],
  [op |-> "update", id |-> "w0", set |-> [below |-> 70]],
  Quote("w0", "lon", "EUR", 80)}

\* One operation of each write path.
MCOneEach == {AddReq("a", "lon", "usd", 90), Quote("w0", "lon", "EUR", 80)}

Priced100(id, t, c) ==
  [NewWatch(id, Wish(t, c, 60)) EXCEPT !.cur = c, !.last = 100, !.low = 90, !.base = 100]
W0(c) == Priced100("w0", "lon", c)
W1(c) == Priced100("w1", "rom", c)
Pt(i, price, c) == [id |-> i, price |-> price, cur |-> c]

\* A legacy pair as old binaries left it: lower-case currency, an orphan series,
\* a point in a former currency, more points than either cap.
LegacyBook == [watches |-> <<W0("eur"), W1("EUR")>>,
               history |-> <<Pt("w0", 90, "eur"), Pt("gone", 50, "usd"), Pt("w1", 90, "EUR"),
                             Pt("w0", 95, "usd"), Pt("w0", 95, "eur"),
                             Pt("w1", 100, "EUR"), Pt("w0", 100, "EUR")>>]
\* One that was filled before Add looked for the target: w0's is watched twice.
TwiceBook == [LegacyBook EXCEPT !.watches = Append(@, Priced100("w9", "lon", "usd")),
                                !.history = Append(@, Pt("w9", 70, "usd"))]
DbBook == [watches |-> <<W0("EUR"), W1("EUR")>>,
           history |-> <<Pt("w0", 90, "EUR"), Pt("w1", 100, "EUR"), Pt("w0", 100, "EUR")>>]

MCLegacies == {[present |-> FALSE, gen |-> Empty]}
                \union {[present |-> TRUE, gen |-> g] : g \in {LegacyBook, TwiceBook}}

\* Whether a call returns does not depend on the points of the pair.
MCOldDirectory == {[present |-> TRUE, gen |-> [LegacyBook EXCEPT !.history = <<>>]]}

MCAnyDb == {[kind |-> k, gen |-> Empty] : k \in {"none", "bare"}}
             \union {[kind |-> k, gen |-> DbBook] : k \in {"published", "torn", "alien"}}
MCUnconverted == {[kind |-> k, gen |-> Empty] : k \in {"none", "bare"}}
=============================================================================
