----------------------------- MODULE MCWatchPolls -----------------------------
(* Small stores, wishes and quotes for model-checking WatchPolls.           *)
EXTENDS WatchPolls, TLC

MCKeyOrder == [k \in RouteKeys |-> 0]
MCTargets == {"lon", "loft"}
MCCodes == {"EUR", "USD"}
MCSpellings == {"EUR", "usd", "USD", "", "E R"}
MCUpper == [s \in MCSpellings |-> IF s = "usd" THEN "USD" ELSE s]

Wish(t, c, b, a) == [target |-> t, cur |-> c, below |-> b, pct |-> 0, abs |-> a]

\* A flight that alerts on a fall of 15, as stored by its first poll.
Flight == [NewWatch("w0", Wish("lon", "EUR", 90, 15)) EXCEPT
             !.last = 100, !.low = 100, !.base = 100]
Room   == [NewWatch("w0", Wish("loft", "EUR", 90, 0)) EXCEPT !.last = 100, !.low = 100]
Holding(w) == [watches |-> <<w>>,
               history |-> <<[id |-> "w0", price |-> 100, cur |-> w.cur]>>]

\* A flight that one poll has already found in another currency.
Wavering == [Flight EXCEPT !.pend = "USD", !.polls = 1]

\* A flight that no poll has priced yet, watched without a currency.
Unpriced == [watches |-> <<NewWatch("w0", Wish("lon", "", 90, 0))>>, history |-> <<>>]

MCWatched == {Holding(Flight), Holding(Wavering), Holding(Room), Unpriced}
MCWishes == {Wish("lon", "USD", 80, 0), Wish("lon", "", 0, 15), Wish("loft", "USD", 80, 0)}
\* The checks are alike: no property or action tells one from another.
MCAlike == Permutations(Pollers)

MCEdits == {[below |-> 85], [pct |-> 0]}
=============================================================================
