--------------------------- MODULE WatchPollsProofs ---------------------------
(***************************************************************************)
(* What checks in flight leave of a watch and of its points, for any       *)
(* number of checks, watches and quotes, and for any caps and currencies.  *)
(***************************************************************************)
EXTENDS WatchPolls, WatchGenerationProofs

-----------------------------------------------------------------------------
(* What the bookkeeping does to the alert memory of a record.               *)

(* A new watch remembers nothing.                                           *)
LEMMA NewWatchForgets ==
  ASSUME NEW id \in Ids, NEW wish \in Wished
  PROVE  LET v == NewWatch(id, wish)
         IN /\ Coherent(v) /\ Kept(v) /\ ~v.cleared /\ v.base = 0 /\ v.low = 0
            /\ v.pend = NoCur /\ v.polls = 0 /\ v.pct = wish.pct /\ v.abs = wish.abs
  BY DEF NewWatch, Coherent, Kept, Wished

(***************************************************************************)
(* A re-watch keeps the memory, or forgets all of it with the currency;    *)
(* a threshold that was chosen stays, is renewed, or leaves a mark.        *)
(***************************************************************************)
LEMMA IntentMemory ==
  ASSUME NEW w \in Watches, NEW wish \in Wished, Coherent(w), Kept(w)
  PROVE  LET v == ApplyIntent(w, wish)
         IN /\ Coherent(v) /\ Kept(v) /\ v.pend = w.pend /\ v.polls = w.polls
            /\ CurrencyMoves(w, wish) => v.cur # NoCur
            /\ w.pct > 0 \/ w.abs > 0 \/ w.cleared \/ wish.pct > 0 \/ wish.abs > 0
                 => v.pct > 0 \/ v.abs > 0 \/ v.cleared
<1> DEFINE v == ApplyIntent(w, wish)
<1>t. v.target = w.target
  BY ApplyIntentIs
<1>1. CASE CurrencyMoves(w, wish)
  <2>1. /\ v.pct = (IF wish.pct > 0 THEN wish.pct ELSE w.pct)
        /\ v.abs = (IF wish.abs > 0 THEN wish.abs ELSE 0)
        /\ v.base = 0 /\ v.alerted = 0 /\ v.pend = w.pend /\ v.polls = w.polls
        /\ v.cur = Upper[wish.cur]
        /\ v.cleared <=> /\ w.cleared \/ (w.abs > 0 /\ w.pct <= 0)
                         /\ wish.pct <= 0 /\ wish.abs <= 0
    <3> DEFINE reset == Forgotten(w, wish)
    <3>1. /\ reset \in Watches /\ reset.cur = Upper[wish.cur]
          /\ reset.pct = w.pct /\ reset.abs = 0 /\ reset.base = 0 /\ reset.alerted = 0
          /\ reset.pend = w.pend /\ reset.polls = w.polls
          /\ reset.cleared <=> w.cleared \/ (w.abs > 0 /\ w.pct <= 0)
      BY ForgottenIs
    <3>2. v = Renewed(reset, wish)
      BY <1>1, ApplyIntentSplits
    <3> HIDE DEF reset, v
    <3> QED
      BY <3>1, <3>2, RenewedIs
  <2> HIDE DEF v
  <2> QED
    BY <1>1, <1>t, <2>1 DEF v, Coherent, Kept, IsRoom, Watches, Wished, CurrencyMoves
<1>2. CASE ~CurrencyMoves(w, wish)
  <2>1. /\ v.pct = (IF wish.pct > 0 THEN wish.pct ELSE w.pct)
        /\ v.abs = (IF wish.abs > 0 THEN wish.abs ELSE w.abs)
        /\ v.base = w.base /\ v.alerted = w.alerted
        /\ v.pend = w.pend /\ v.polls = w.polls
        /\ v.last = w.last /\ v.low = w.low
        /\ v.cleared <=> w.cleared /\ wish.pct <= 0 /\ wish.abs <= 0
    BY <1>2, ApplyIntentSplits, RenewedIs
  <2> HIDE DEF v
  <2> QED
    BY <1>2, <2>1, <1>t DEF v, Coherent, Kept, IsRoom, Watches, Wished
<1> QED
  BY <1>1, <1>2

(* An edit keeps the memory; naming a limb is a last word.                  *)
LEMMA UpdateMemory ==
  ASSUME NEW w \in Watches, Coherent(w), Kept(w), NEW u, DOMAIN u \subseteq UpdateFields,
         \A f \in DOMAIN u : u[f] \in Nat
  PROVE  LET v == ApplyUpdate(w, u)
         IN /\ Coherent(v) /\ Kept(v) /\ v.pend = w.pend /\ v.polls = w.polls
            /\ DOMAIN u \intersect {"pct", "abs"} = {} =>
                 v.pct = w.pct /\ v.abs = w.abs /\ v.cleared = w.cleared
<1> DEFINE v == ApplyUpdate(w, u)
<1>1. /\ v.base = w.base /\ v.alerted = w.alerted /\ v.last = w.last /\ v.low = w.low
      /\ v.pend = w.pend /\ v.polls = w.polls /\ v.target = w.target
      /\ v.cleared => w.cleared /\ v.pct = w.pct /\ v.abs = w.abs
      /\ DOMAIN u \intersect {"pct", "abs"} = {} =>
           v.pct = w.pct /\ v.abs = w.abs /\ v.cleared = w.cleared
  BY DEF ApplyUpdate, Watches, UpdateFields
<1> HIDE DEF v
<1> QED
  BY <1>1 DEF v, Coherent, Kept, IsRoom

(***************************************************************************)
(* A quote folded into a flight or a hotel, once it is believed.           *)
(***************************************************************************)
LEMMA FlightFold ==
  ASSUME NEW w \in Watches, NEW price \in Nat \ {0}, NEW cur \in Spellings,
         ~IsRoom(w), ~Unconfirmed(w, cur)
  PROVE  LET f == Fold(w, price, cur)
             s == AlertState(w, cur)
             t == Threshold(w, cur)
             e == IF Suspended(w, cur) THEN s ELSE Evaluate(s, price, t)
         IN /\ f.rec.last = price /\ f.rec.cur = cur /\ f.rec.low = Lowest(w, price, cur)
            /\ f.rec.below = (IF Mismatch(w, cur) THEN 0 ELSE w.below)
            /\ f.rec.pct = w.pct /\ f.rec.abs = t.abs /\ f.rec.cleared = Cleared(w, cur)
            /\ f.rec.base = e.base /\ f.rec.alerted = e.alerted
            /\ f.rec.pend = (IF Changed(w, cur) THEN cur ELSE NoCur)
            /\ f.out = Signals(w, price, cur, ~Suspended(w, cur) /\ AlertFires(s, price, t))
<1> DEFINE f == Fold(w, price, cur)
           s == AlertState(w, cur)
           t == Threshold(w, cur)
           e == IF Suspended(w, cur) THEN s ELSE Evaluate(s, price, t)
           v == Pended(w, cur)
           o == Observed(v, price, cur)
<1>1. /\ v.low = w.low /\ v.cur = w.cur /\ v.last = w.last /\ v.below = w.below
      /\ v.pct = w.pct /\ v.abs = w.abs
      /\ v.pend = (IF Changed(w, cur) THEN cur ELSE NoCur)
  BY DEF Pended, Watches
<1>2. v \in Watches
  <2>1. Dissent(w, cur) \in Nat
    BY DEF Dissent, Watches
  <2> QED
    BY <2>1, CurrencyAssumption DEF Pended, Watches
<1> HIDE DEF v
<1>3. /\ Lowest(v, price, cur) = Lowest(w, price, cur)
      /\ Mismatch(v, cur) = Mismatch(w, cur) /\ Threshold(v, cur) = Threshold(w, cur)
  BY <1>1 DEF Lowest, Changed, Mismatch, HasPrior, Threshold
<1>4. /\ o.last = price /\ o.cur = cur /\ o.low = Lowest(w, price, cur)
      /\ o.below = (IF Mismatch(w, cur) THEN 0 ELSE w.below)
      /\ o.pct = w.pct /\ o.abs = t.abs /\ o.pend = v.pend
  BY <1>1, <1>2, <1>3, ObservedIs
<1>5. o \in Watches
  BY <1>2, ObservedIs
<1>6. /\ f.rec = [o EXCEPT !.cleared = Cleared(w, cur), !.base = e.base, !.alerted = e.alerted]
      /\ f.out = Signals(w, price, cur, ~Suspended(w, cur) /\ AlertFires(s, price, t))
  BY Zenon DEF Fold, FoldFlight, v
<1> HIDE DEF o, s, t, e, f
<1>7. /\ f.rec.last = o.last /\ f.rec.cur = o.cur /\ f.rec.low = o.low
      /\ f.rec.below = o.below /\ f.rec.pct = o.pct /\ f.rec.abs = o.abs
      /\ f.rec.pend = o.pend /\ f.rec.cleared = Cleared(w, cur)
      /\ f.rec.base = e.base /\ f.rec.alerted = e.alerted
  BY <1>5, <1>6 DEF Watches
<1> QED
  BY <1>1, <1>4, <1>6, <1>7 DEF f, e, s, t

(* A quote folded into a room is believed at once, and alerts nobody.       *)
LEMMA RoomFold ==
  ASSUME NEW w \in Watches, NEW price \in Nat \ {0}, NEW cur \in Spellings, IsRoom(w), Kept(w)
  PROVE  LET f == Fold(w, price, cur)
         IN /\ f.rec.last = price /\ f.rec.cur = cur /\ f.rec.low = Lowest(w, price, cur)
            /\ f.rec.below = (IF Mismatch(w, cur) THEN 0 ELSE w.below)
            /\ f.rec.pct = w.pct /\ f.rec.abs = Threshold(w, cur).abs
            /\ f.rec.cleared = w.cleared
            /\ f.rec.base = 0 /\ f.rec.alerted = AlertState(w, cur).alerted
            /\ f.rec.pend = NoCur
<1> DEFINE f == Fold(w, price, cur)
<1>1. f.rec = Observed(w, price, cur)
  BY DEF Fold, FoldRoom
<1> HIDE DEF f
<1>2. w.base = 0 /\ w.pend = NoCur
  BY DEF Kept
<1>3. AlertState(w, cur).base = 0
  BY <1>2 DEF AlertState
<1> QED
  BY <1>1, <1>2, <1>3, ObservedIs DEF f

(* A quote that is set aside only counts the dissent.                       *)
LEMMA SetAside ==
  ASSUME NEW w \in Watches, NEW price \in Nat \ {0}, NEW cur \in Spellings,
         ~IsRoom(w), Unconfirmed(w, cur)
  PROVE  LET f == Fold(w, price, cur)
         IN /\ f.rec = [w EXCEPT !.pend = cur, !.polls = Dissent(w, cur)]
            /\ f.out = Suspicious(w) /\ Changed(w, cur)
  BY DEF Fold, FoldFlight, Pended, Unconfirmed

(***************************************************************************)
(* The drop detector keeps the mark over the last price, and the alerted   *)
(* price between the lowest and the mark (pricealert.Evaluate).            *)
(***************************************************************************)
LEMMA EvaluateKeeps ==
  ASSUME NEW base \in Nat, NEW alerted \in Nat, NEW low \in Nat,
         NEW price \in Nat \ {0}, NEW t,
         base > 0 => low > 0,
         alerted > 0 => low <= alerted /\ alerted < base
  PROVE  LET s == [base |-> base, alerted |-> alerted]
             e == Evaluate(s, price, t)
             newlow == IF low = 0 \/ price < low THEN price ELSE low
         IN /\ e.base \in Nat /\ e.alerted \in Nat
            /\ e.base > 0 => newlow > 0 /\ price <= e.base
            /\ e.alerted > 0 => newlow <= e.alerted /\ e.alerted < e.base
<1> DEFINE s == [base |-> base, alerted |-> alerted]
           e == Evaluate(s, price, t)
           newlow == IF low = 0 \/ price < low THEN price ELSE low
<1>1. CASE base <= 0 \/ price >= base
  <2>1. s.base = base /\ (s.base <= 0 \/ price >= s.base)
    BY <1>1
  <2>2. e = [base |-> price, alerted |-> 0]
    <3> HIDE DEF s
    <3>1. e = CASE s.base <= 0 \/ price >= s.base -> [base |-> price, alerted |-> 0]
                [] AlertFires(s, price, t)        -> [s EXCEPT !.alerted = price]
                [] OTHER                          -> s
      BY Zenon DEF Evaluate
    <3>2. ~AlertFires(s, price, t)
      BY <2>1 DEF AlertFires
    <3> QED
      BY <2>1, <3>1, <3>2
  <2>3. e.base = price /\ e.alerted = 0
    BY <2>2
  <2> HIDE DEF e
  <2> QED
    BY <2>3 DEF e
<1>2. CASE ~(base <= 0 \/ price >= base) /\ AlertFires(s, price, t)
  <2>1. e.base = base /\ e.alerted = price
    BY <1>2 DEF Evaluate
  <2> HIDE DEF e
  <2> QED
    BY <1>2, <2>1 DEF e
<1>3. CASE ~(base <= 0 \/ price >= base) /\ ~AlertFires(s, price, t)
  <2>1. e.base = base /\ e.alerted = alerted
    BY <1>3 DEF Evaluate
  <2> HIDE DEF e
  <2> QED
    BY <1>3, <2>1 DEF e
<1> QED
  BY <1>1, <1>2, <1>3

(***************************************************************************)
(* A folded quote keeps the alert memory coherent.  The mark survives only *)
(* while the currency does; a watch without a threshold has none to begin  *)
(* with, so that skipping the detector keeps it so.                        *)
(***************************************************************************)
LEMMA FoldMemory ==
  ASSUME NEW w \in Watches, NEW price \in Nat \ {0}, NEW cur \in Spellings,
         Coherent(w), Kept(w)
  PROVE  LET v == Fold(w, price, cur).rec IN Coherent(v) /\ Kept(v)
<1> DEFINE f == Fold(w, price, cur)
           v == f.rec
           s == AlertState(w, cur)
           t == Threshold(w, cur)
           e == IF Suspended(w, cur) THEN s ELSE Evaluate(s, price, t)
<1>t. v.target = w.target
  BY FoldIs
<1>w. /\ w.base \in Nat /\ w.alerted \in Nat /\ w.low \in Nat /\ w.last \in Nat
      /\ w.pct \in Nat /\ w.abs \in Nat
  BY DEF Watches
<1>1. CASE ~IsRoom(w) /\ Unconfirmed(w, cur)
  <2>1. v = [w EXCEPT !.pend = cur, !.polls = Dissent(w, cur)]
    BY <1>1, SetAside
  <2> HIDE DEF v
  <2>2. /\ v.base = w.base /\ v.alerted = w.alerted /\ v.low = w.low /\ v.last = w.last
        /\ v.cleared = w.cleared /\ v.pct = w.pct /\ v.abs = w.abs
    BY <2>1 DEF Watches
  <2> QED
    BY <1>t, <1>1, <2>2 DEF v, Coherent, Kept, IsRoom
<1>2. CASE IsRoom(w)
  <2>1. /\ v.base = 0 /\ v.pend = NoCur /\ v.last = price
        /\ v.alerted = s.alerted /\ v.cleared = w.cleared /\ v.pct = w.pct /\ v.abs = t.abs
    BY <1>2, RoomFold
  <2>2. w.base = 0 /\ (w.cleared => w.pct = 0 /\ w.abs = 0)
    BY <1>2 DEF Kept
  <2>3. ~(w.alerted > 0)
    BY <1>w, <2>2 DEF Coherent
  <2>4. s.alerted = 0 /\ (w.cleared => t.abs = 0)
    BY <1>w, <2>2, <2>3 DEF AlertState, Threshold
  <2> HIDE DEF v, s, t
  <2> QED
    BY <1>t, <2>1, <2>2, <2>4 DEF v, Coherent, Kept
<1>3. CASE ~IsRoom(w) /\ ~Unconfirmed(w, cur)
  <2>1. /\ v.last = price /\ v.low = Lowest(w, price, cur)
        /\ v.pct = w.pct /\ v.abs = t.abs /\ v.cleared = Cleared(w, cur)
        /\ v.base = e.base /\ v.alerted = e.alerted
    BY <1>3, FlightFold
  <2> DEFINE low == IF Changed(w, cur) THEN 0 ELSE w.low
  <2>2. /\ s = [base |-> s.base, alerted |-> s.alerted]
        /\ s.base \in Nat /\ s.alerted \in Nat /\ low \in Nat
        /\ s.base > 0 => low > 0
        /\ s.alerted > 0 => low <= s.alerted /\ s.alerted < s.base
    BY <1>w DEF AlertState, Coherent, Kept
  <2>3. v.low = IF low = 0 \/ price < low THEN price ELSE low
    BY <1>w, <2>1 DEF Lowest
  <2>4. v.cleared => Suspended(w, cur) /\ v.pct = 0 /\ v.abs = 0 /\ s.base = 0
    <3>1. CASE w.cleared
      <4>1. w.pct = 0 /\ w.abs = 0 /\ w.base = 0
        BY <3>1 DEF Kept
      <4> QED
        BY <2>1, <3>1, <4>1 DEF Suspended, Cleared, Threshold, AlertState
    <3>2. CASE ~w.cleared /\ v.cleared
      <4>1. Mismatch(w, cur) /\ w.abs > 0 /\ w.pct <= 0
        BY <2>1, <3>2 DEF Cleared
      <4>2. t.pct = w.pct /\ t.abs = 0 /\ w.pct = 0
        BY <1>w, <4>1 DEF Threshold
      <4>3. s.base = 0
        <5>1. CASE HasPrior(w)
          BY <4>1, <5>1 DEF AlertState, Changed
        <5>2. CASE ~HasPrior(w)
          <6>1. w.base = 0
            BY <1>w, <5>2 DEF HasPrior, Kept
          <6> QED
            BY <6>1 DEF AlertState
        <5> QED
          BY <5>1, <5>2
      <4> QED
        BY <2>1, <3>2, <4>2, <4>3 DEF Suspended
    <3> QED
      BY <3>1, <3>2
  <2> HIDE DEF low, s, t
  <2>5. CASE Suspended(w, cur)
    <3>1. v.cleared
      BY <2>1, <2>5 DEF Suspended
    <3>2. v.base = 0 /\ v.alerted = s.alerted /\ s.base = 0
      BY <2>1, <2>4, <2>5, <3>1
    <3>3. ~(s.alerted > 0)
      BY <2>2, <3>2
    <3> HIDE DEF v, e
    <3> QED
      BY <1>t, <1>3, <2>4, <3>1, <3>2, <3>3 DEF v, Coherent, Kept, IsRoom
  <2>6. CASE ~Suspended(w, cur)
    <3>1. e = Evaluate([base |-> s.base, alerted |-> s.alerted], price, t)
      BY <2>2, <2>6
    <3> DEFINE b == s.base
               a == s.alerted
               newlow == IF low = 0 \/ price < low THEN price ELSE low
    <3>2. b \in Nat /\ a \in Nat /\ low \in Nat /\ (b > 0 => low > 0)
          /\ (a > 0 => low <= a /\ a < b)
      BY <2>2
    <3>3. e = Evaluate([base |-> b, alerted |-> a], price, t)
      BY <3>1
    <3>4. v.base = e.base /\ v.alerted = e.alerted /\ v.last = price /\ v.low = newlow
      BY <2>1, <2>3
    <3> HIDE DEF a, b, e, v
    <3>5. /\ e.base \in Nat /\ e.alerted \in Nat
          /\ e.base > 0 => newlow > 0 /\ price <= e.base
          /\ e.alerted > 0 => newlow <= e.alerted /\ e.alerted < e.base
      BY <3>2, <3>3, EvaluateKeeps
    <3> QED
      BY <1>t, <1>3, <2>4, <2>6, <3>4, <3>5 DEF v, Coherent, Kept, IsRoom
  <2> QED
    BY <2>5, <2>6
<1> QED
  BY <1>1, <1>2, <1>3

-----------------------------------------------------------------------------
(* What the fold of a quote says of the watch it was asked about.           *)

\* A quote that was set aside, and one that was believed.
Doubted(w, cur, f) ==
  /\ ~IsRoom(w) /\ Changed(w, cur)
  /\ f.rec = [w EXCEPT !.pend = cur, !.polls = Dissent(w, cur)]
  /\ f.out = Suspicious(w)

Believed(w, price, cur, f) ==
  /\ f.rec.last = price /\ f.rec.cur = cur /\ f.rec.low = Lowest(w, price, cur)
  /\ f.rec.below = (IF Mismatch(w, cur) THEN 0 ELSE w.below)
  /\ f.rec.pct = w.pct /\ f.rec.abs = Threshold(w, cur).abs
  /\ f.rec.pend = (IF Changed(w, cur) /\ ~IsRoom(w) THEN cur ELSE NoCur)
  /\ ~IsRoom(w) => f.rec.cleared = Cleared(w, cur) /\ ~Unconfirmed(w, cur)
  /\ f.out = Signals(w, price, cur, f.out.alert)
  /\ f.out.alert => ~IsRoom(w) /\ ~Suspended(w, cur)

(* A fold is one or the other.                                              *)
LEMMA FoldSays ==
  ASSUME NEW w \in Watches, NEW price \in Nat \ {0}, NEW cur \in Spellings, Kept(w)
  PROVE  LET f == Fold(w, price, cur)
         IN Doubted(w, cur, f) \/ Believed(w, price, cur, f)
<1> DEFINE f == Fold(w, price, cur)
<1>1. CASE IsRoom(w)
  <2>1. /\ f.rec.last = price /\ f.rec.cur = cur /\ f.rec.low = Lowest(w, price, cur)
        /\ f.rec.below = (IF Mismatch(w, cur) THEN 0 ELSE w.below)
        /\ f.rec.pct = w.pct /\ f.rec.abs = Threshold(w, cur).abs
        /\ f.rec.pend = NoCur
    BY <1>1, RoomFold
  <2>2. f.out = Signals(w, price, cur, FALSE) /\ f.out.alert = FALSE
    BY <1>1 DEF Fold, FoldRoom, Signals
  <2> HIDE DEF f
  <2> QED
    BY <1>1, <2>1, <2>2 DEF Believed, f
<1>2. CASE ~IsRoom(w) /\ Unconfirmed(w, cur)
  <2>1. /\ f.rec = [w EXCEPT !.pend = cur, !.polls = Dissent(w, cur)]
        /\ f.out = Suspicious(w) /\ Changed(w, cur)
    BY <1>2, SetAside
  <2> HIDE DEF f
  <2> QED
    BY <1>2, <2>1 DEF Doubted, f
<1>3. CASE ~IsRoom(w) /\ ~Unconfirmed(w, cur)
  <2> DEFINE fires == AlertFires(AlertState(w, cur), price, Threshold(w, cur))
             alert == ~Suspended(w, cur) /\ fires
  <2>1. /\ f.rec.last = price /\ f.rec.cur = cur /\ f.rec.low = Lowest(w, price, cur)
        /\ f.rec.below = (IF Mismatch(w, cur) THEN 0 ELSE w.below)
        /\ f.rec.pct = w.pct /\ f.rec.abs = Threshold(w, cur).abs
        /\ f.rec.cleared = Cleared(w, cur)
        /\ f.rec.pend = (IF Changed(w, cur) THEN cur ELSE NoCur)
        /\ f.out = Signals(w, price, cur, alert)
    BY <1>3, FlightFold
  <2> HIDE DEF f, fires
  <2>2. f.out.alert = alert
    BY <2>1 DEF Signals
  <2>3. f.out.alert => ~Suspended(w, cur)
    BY <2>2
  <2>4. f.out = Signals(w, price, cur, f.out.alert)
    BY <2>1, <2>2
  <2> HIDE DEF alert
  <2> QED
    BY <1>3, <2>1, <2>3, <2>4 DEF Believed, f
<1> QED
  BY <1>1, <1>2, <1>3

(* A quote that has a currency whenever the watch has one is comparable     *)
(* with what was observed, or it is a change of currency.                   *)
LEMMA ChangeOrSame ==
  ASSUME NEW w, NEW cur, cur = NoCur => w.cur = NoCur, HasPrior(w), ~Changed(w, cur)
  PROVE  cur = w.cur
  BY DEF Changed, Mismatch

(***************************************************************************)
(* The series of a watch after a quote: it is the believed quote's, or, if *)
(* the quote was set aside, what it was.                                   *)
(***************************************************************************)
LEMMA FoldComparable ==
  ASSUME NEW w \in Watches, NEW price \in Nat \ {0}, NEW cur \in Spellings,
         cur = NoCur => w.cur = NoCur, Kept(w), NEW h \in Seq(Points), Comparable(h, w),
         NEW r \in Seq(Points),
         LET f == Fold(w, price, cur)
             pt == [id |-> w.id, price |-> price, cur |-> cur]
         IN /\ ~f.out.point => r = h
            /\ f.out.point =>
                 /\ PointsOf(r, w.id) # {} => r[Max(PointsOf(r, w.id))] = pt
                 /\ \A i \in PointsOf(r, w.id) :
                      r[i] = pt \/ (~f.out.purge /\ \E j \in PointsOf(h, w.id) : r[i] = h[j])
  PROVE  Comparable(r, Fold(w, price, cur).rec)
<1> DEFINE f  == Fold(w, price, cur)
           v  == f.rec
           pt == [id |-> w.id, price |-> price, cur |-> cur]
<1>1. v.id = w.id
  BY FoldIs
<1>2. Doubted(w, cur, f) \/ Believed(w, price, cur, f)
  BY FoldSays
<1>3. /\ ~f.out.point => r = h
      /\ f.out.point =>
           /\ PointsOf(r, w.id) # {} => r[Max(PointsOf(r, w.id))] = pt
           /\ \A i \in PointsOf(r, w.id) :
                r[i] = pt \/ (~f.out.purge /\ \E j \in PointsOf(h, w.id) : r[i] = h[j])
  OBVIOUS
<1>4. pt.price = price /\ pt.cur = cur
  OBVIOUS
<1>w. w.low \in Nat /\ w.last \in Nat
  BY DEF Watches
<1>p. \A j \in PointsOf(h, w.id) : h[j].price \in Nat
  <2>1. \A j \in DOMAIN h : h[j] \in Points
    OBVIOUS
  <2> QED
    BY <2>1 DEF PointsOf, Points
<1> HIDE DEF f, pt
<1>5. CASE Doubted(w, cur, f)
  <2>1. v.cur = w.cur /\ v.last = w.last /\ v.low = w.low /\ ~f.out.point
    BY <1>5 DEF Doubted, Suspicious, Watches
  <2> HIDE DEF v
  <2> QED
    BY <1>1, <1>3, <2>1 DEF Comparable, v, f
<1>6. CASE Believed(w, price, cur, f)
  <2>1. v.cur = cur /\ v.last = price /\ v.low = Lowest(w, price, cur)
    BY <1>6 DEF Believed
  <2>2. f.out.point /\ f.out.purge = Changed(w, cur)
    BY <1>6 DEF Believed, Signals
  <2>3. /\ v.low > 0 /\ v.low <= price
        /\ ~Changed(w, cur) /\ w.low > 0 => v.low <= w.low
    BY <1>w, <2>1 DEF Lowest
  <2>4. v.low \in Nat
    BY <1>w, <2>1 DEF Lowest
  <2> HIDE DEF v
  <2>5. ASSUME NEW i \in PointsOf(r, w.id)
        PROVE  r[i].cur = cur /\ v.low <= r[i].price
    <3>1. CASE r[i] = pt
      BY <1>4, <2>3, <3>1
    <3>2. CASE r[i] # pt
      <4>1. PICK j \in PointsOf(h, w.id) : r[i] = h[j]
        BY <1>3, <2>2, <3>2
      <4>2. ~Changed(w, cur)
        BY <1>3, <2>2, <3>2
      <4>3. w.low > 0 /\ h[j].cur = w.cur /\ w.low <= h[j].price
        BY <4>1 DEF Comparable
      <4>4. cur = w.cur
        BY <4>2, <4>3, ChangeOrSame DEF HasPrior
      <4>5. h[j].price \in Nat
        BY <1>p
      <4> QED
        BY <1>w, <2>3, <2>4, <4>1, <4>2, <4>3, <4>4, <4>5
    <3> QED
      BY <3>1, <3>2
  <2>6. PointsOf(r, w.id) # {} => r[Max(PointsOf(r, w.id))].price = price
    BY <1>3, <1>4, <2>2
  <2> QED
    BY <1>1, <2>1, <2>3, <2>5, <2>6 DEF Comparable, v, f
<1> QED
  BY <1>2, <1>5, <1>6

(* What of a series stays comparable when only older points were given up.  *)
LEMMA ComparableKept ==
  ASSUME NEW w, NEW h, NEW r, SeriesKept(h, r, w.id), Comparable(h, w)
  PROVE  Comparable(r, w)
  BY DEF SeriesKept, Comparable

-----------------------------------------------------------------------------
(***************************************************************************)
(* The invariant.  A check in flight knows what it was asked for and what  *)
(* the provider said: an answer without a currency goes with a question    *)
(* without one.                                                            *)
(***************************************************************************)
InFlight(q) ==
  /\ q.stage \in {"idle", "asked", "answered", "folded"}
  /\ q.stage = "asked" => q.id \in drawn /\ (q.snap = NoCur => q.key[2] = NoCur)
  /\ q.stage = "answered" =>
       /\ q.id \in drawn /\ q.price \in Nat \ {0}
       /\ q.cur \in Spellings /\ Upper[q.cur] = q.cur
       /\ q.cur = NoCur => q.key[2] = NoCur

(***************************************************************************)
(* What is stored of a watch, with what the model remembers of it: a       *)
(* pending currency is the last quote's, and a drop threshold that was     *)
(* chosen is there or was force-cleared.                                   *)
(***************************************************************************)
Settled(h, w) == Comparable(h, w) /\ Coherent(w) /\ Kept(w)

Remembered(last, chosen, w) ==
  /\ w.polls > 0 /\ w.pend # NoCur => last[w.id] = w.pend
  /\ ~IsRoom(w) /\ chosen[w.id] => w.pct > 0 \/ w.abs > 0 \/ w.cleared

PollInv ==
  /\ Sound(gen) /\ OneIdEach(gen)
  /\ IdsOf(gen) \subseteq drawn /\ drawn \subseteq Ids
  /\ poll = [p \in Pollers |-> poll[p]] /\ \A p \in Pollers : InFlight(poll[p])
  /\ heard = [id \in Ids |-> heard[id]]
  /\ chose \in [Ids -> BOOLEAN] /\ \A id \in Ids \ drawn : ~chose[id]
  /\ \A id \in IdsOf(gen) :
       Settled(gen.history, WatchOf(gen, id)) /\ Remembered(heard, chose, WatchOf(gen, id))

(* At the start no check is in flight and nobody chose anything.            *)
LEMMA PollInit ==
  ASSUME Init
  PROVE  PollInv
<1>1. Sound(gen) /\ OneIdEach(gen) /\ gen \in Generations
  BY StartAssumption DEF Init, Sound, Loadable
<1>2. IdsOf(gen) \subseteq drawn /\ drawn \subseteq Ids
  BY <1>1, WatchOfIs DEF Init
<1>3. poll = [p \in Pollers |-> poll[p]] /\ \A p \in Pollers : InFlight(poll[p])
  BY DEF Init, NoPoll, InFlight
<1>4. heard = [id \in Ids |-> heard[id]]
  BY DEF Init
<1>5. chose \in [Ids -> BOOLEAN] /\ \A id \in Ids \ drawn : ~chose[id]
  BY DEF Init, IdsOf
<1>6. ASSUME NEW id \in IdsOf(gen)
      PROVE  Settled(gen.history, WatchOf(gen, id)) /\ Remembered(heard, chose, WatchOf(gen, id))
  <2>1. PICK i \in DOMAIN gen.watches : gen.watches[i].id = id
    BY DEF IdsOf
  <2>2. WatchOf(gen, id) = gen.watches[i] /\ id \in Ids
    BY <1>1, <2>1, AtPosition
  <2> DEFINE w == gen.watches[i]
  <2>3. Comparable(gen.history, w) /\ Coherent(w) /\ Kept(w)
    BY StartAssumption DEF Init
  <2>h. heard[id] = w.pend /\ w.id = id
    BY <2>1, <2>2 DEF Init
  <2>4. chose[id] => w.pct > 0 \/ w.abs > 0
    <3>1. \A j \in DOMAIN gen.watches : gen.watches[j].id = id => j = i
      BY <1>1, <2>1 DEF OneIdEach
    <3>2. chose[id] = \E j \in DOMAIN gen.watches :
            gen.watches[j].id = id /\ (gen.watches[j].pct > 0 \/ gen.watches[j].abs > 0)
      BY <2>2 DEF Init
    <3> QED
      BY <3>1, <3>2
  <2> QED
    BY <2>1, <2>2, <2>3, <2>h, <2>4 DEF Settled, Remembered
<1> QED
  BY <1>1, <1>2, <1>3, <1>4, <1>5, <1>6 DEF PollInv

(* A step of a check that commits nothing.                                  *)
LEMMA CheckKeeps ==
  ASSUME PollInv, NEW p \in Pollers, NEW q, InFlight(q), poll' = [poll EXCEPT ![p] = q],
         UNCHANGED <<gen, drawn, heard, chose>>
  PROVE  PollInv'
<1>1. poll' = [x \in Pollers |-> poll'[x]] /\ \A x \in Pollers : InFlight(poll'[x])
  BY DEF PollInv
<1> QED
  BY <1>1 DEF PollInv, InFlight

(* A commit that turns one watch into v, or adds v.                         *)
LEMMA TurnKeeps ==
  ASSUME PollInv, NEW v, Turned(gen, gen', v), Sound(gen'), v.id \in Ids,
         drawn' = drawn \union {v.id},
         poll' = [p \in Pollers |-> poll'[p]], \A p \in Pollers : InFlight(poll'[p]),
         heard' = [id \in Ids |-> heard'[id]], chose' \in [Ids -> BOOLEAN],
         \A x \in Ids \ {v.id} : heard'[x] = heard[x] /\ chose'[x] = chose[x],
         Settled(gen'.history, v), Remembered(heard', chose', v)
  PROVE  PollInv'
<1>1. /\ gen' \in Generations /\ OneIdEach(gen')
      /\ IdsOf(gen') = IdsOf(gen) \union {v.id} /\ WatchOf(gen', v.id) = v
      /\ \A x \in IdsOf(gen) \ {v.id} :
           WatchOf(gen', x) = WatchOf(gen, x) /\ SeriesKept(gen.history, gen'.history, x)
  BY DEF Turned
<1>2. IdsOf(gen') \subseteq drawn' /\ drawn' \subseteq Ids /\ drawn \subseteq drawn'
  BY <1>1 DEF PollInv
<1>3. \A p \in Pollers : InFlight(poll[p])' 
  BY <1>2 DEF InFlight
<1>4. \A id \in Ids \ drawn' : ~chose'[id]
  BY DEF PollInv
<1>5. ASSUME NEW x \in IdsOf(gen')
      PROVE  /\ Settled(gen'.history, WatchOf(gen', x))
             /\ Remembered(heard', chose', WatchOf(gen', x))
  <2>1. CASE x = v.id
    BY <1>1, <2>1
  <2>2. CASE x # v.id
    <3> DEFINE w == WatchOf(gen, x)
    <3>1. x \in IdsOf(gen) /\ WatchOf(gen', x) = w /\ SeriesKept(gen.history, gen'.history, x)
      BY <1>1, <2>2
    <3>2. w.id = x /\ x \in Ids
      BY <3>1, WatchOfIs DEF PollInv, Sound, Loadable
    <3>3. Settled(gen.history, w) /\ Remembered(heard, chose, w)
      BY <3>1 DEF PollInv
    <3>4. heard'[x] = heard[x] /\ chose'[x] = chose[x]
      BY <2>2, <3>2
    <3> HIDE DEF w
    <3>5. Settled(gen'.history, w)
      BY <3>1, <3>2, <3>3, ComparableKept DEF Settled
    <3>6. Remembered(heard', chose', w)
      BY <3>2, <3>3, <3>4 DEF Remembered
    <3> QED
      BY <3>1, <3>5, <3>6
  <2> QED
    BY <2>1, <2>2
<1> QED
  BY <1>1, <1>2, <1>3, <1>4, <1>5 DEF PollInv

(* What a check that folds its answer in meets, and what it leaves behind.  *)
LEMMA FoldFacts ==
  ASSUME PollInv, NEW p \in Pollers, FoldIn(p)
  PROVE  LET q == poll[p]
             w == WatchOf(gen, q.id)
             f == Fold(w, q.price, q.cur)
         IN /\ q.id \in IdsOf(gen) /\ q.id \in Ids /\ w \in Watches /\ w.id = q.id
            /\ Settled(gen.history, w) /\ Remembered(heard, chose, w)
            /\ q.price \in Nat \ {0} /\ q.cur \in Spellings /\ Upper[q.cur] = q.cur
            /\ q.cur = NoCur => w.cur = NoCur
            /\ q.key = PollKey(w)
            /\ Turned(gen, gen', f.rec) /\ WatchOf(gen', q.id) = f.rec
            /\ f.rec.id = q.id /\ Sound(gen') /\ Comparable(gen'.history, f.rec)
            /\ poll'[p] = [stage |-> "folded", id |-> q.id, price |-> q.price,
                           cur |-> q.cur, told |-> f.out]
<1> DEFINE q == poll[p]
           w == WatchOf(gen, q.id)
           f == Fold(w, q.price, q.cur)
           r == [op |-> "record", id |-> q.id, key |-> q.key, price |-> q.price, cur |-> q.cur]
<1>1. /\ q.stage = "answered" /\ Outcome(p).verdict = "save" /\ gen' = Outcome(p).gen
      /\ poll'[p] = [stage |-> "folded", id |-> q.id, price |-> q.price,
                     cur |-> q.cur, told |-> Outcome(p).out]
  BY DEF FoldIn, PollInv
<1>2. Outcome(p) = RecordIn(gen, r)
  BY DEF Outcome
<1>3. /\ q.price \in Nat \ {0} /\ q.cur \in Spellings /\ Upper[q.cur] = q.cur
      /\ q.cur = NoCur => q.key[2] = NoCur
  BY <1>1 DEF PollInv, InFlight
<1>4. Sound(gen) /\ Normal(gen) /\ gen \in Generations /\ OneIdEach(gen)
  BY SoundNormal DEF PollInv, Sound, Loadable
<1>5. q.id \in IdsOf(gen)
  <2>1. r.id = q.id /\ RecordIn(gen, r).verdict = "save"
    BY <1>1, <1>2
  <2> HIDE DEF r
  <2>2. ASSUME r.id \notin IdsOf(gen) PROVE FALSE
    <3>1. RecordIn(gen, r).verdict = "error"
      BY <2>2 DEF RecordIn, Fail
    <3> QED
      BY <2>1, <3>1
  <2> QED
    BY <2>1, <2>2
<1>6. w \in Watches /\ w.id = q.id /\ Upper[w.cur] = w.cur /\ q.id \in Ids
  BY <1>4, <1>5, NormalWatch, WatchOfIs
<1>7. Settled(gen.history, w) /\ Remembered(heard, chose, w)
  BY <1>5 DEF PollInv
<1>8. /\ r.op = "record" /\ r.id = q.id /\ r.key = q.key /\ r.price = q.price /\ r.cur = q.cur
      /\ Askable(r) /\ r.id \in IdsOf(gen) /\ RecordIn(gen, r).verdict = "save"
  BY <1>1, <1>2, <1>3, <1>5 DEF Askable
<1> HIDE DEF r
<1>9. Sound(gen')
  BY <1>1, <1>2, <1>4, <1>8, RecordKeeps
<1> DEFINE wr == WatchOf(gen, r.id)
           fr == Fold(wr, r.price, r.cur)
<1>r. Recorded(gen, r, fr, RecordIn(gen, r))
  BY <1>3, <1>4, <1>8, RecordDoes
<1>10. /\ PollKey(wr) = r.key /\ RecordIn(gen, r).out = fr.out /\ fr.rec.id = r.id
       /\ Turned(gen, RecordIn(gen, r).gen, fr.rec)
       /\ ~fr.out.point => RecordIn(gen, r).gen.history = gen.history
       /\ LET h == RecordIn(gen, r).gen.history
          IN fr.out.point =>
               /\ PointsOf(h, r.id) # {} => h[Max(PointsOf(h, r.id))] = Point(r)
               /\ \A i \in PointsOf(h, r.id) :
                    \/ h[i] = Point(r)
                    \/ /\ ~fr.out.purge
                       /\ \E j \in PointsOf(gen.history, r.id) : h[i] = gen.history[j]
  BY <1>r DEF Recorded
<1>11. wr = w /\ fr = f /\ Point(r) = [id |-> w.id, price |-> q.price, cur |-> q.cur]
  BY <1>6, <1>8 DEF Point
<1> HIDE DEF wr, fr, f, w
<1>12. /\ PollKey(w) = q.key /\ RecordIn(gen, r).out = f.out /\ f.rec.id = q.id
       /\ Turned(gen, gen', f.rec)
       /\ ~f.out.point => gen'.history = gen.history
       /\ f.out.point =>
            /\ PointsOf(gen'.history, w.id) # {} =>
                 gen'.history[Max(PointsOf(gen'.history, w.id))]
                   = [id |-> w.id, price |-> q.price, cur |-> q.cur]
            /\ \A i \in PointsOf(gen'.history, w.id) :
                 \/ gen'.history[i] = [id |-> w.id, price |-> q.price, cur |-> q.cur]
                 \/ /\ ~f.out.purge
                    /\ \E j \in PointsOf(gen.history, w.id) : gen'.history[i] = gen.history[j]
  BY <1>1, <1>2, <1>6, <1>8, <1>10, <1>11
<1>13. q.cur = NoCur => w.cur = NoCur
  BY <1>3, <1>6, <1>12 DEF PollKey
<1>14. gen.history \in Seq(Points) /\ gen'.history \in Seq(Points)
  BY <1>4, <1>9 DEF Sound, Loadable, Generations
<1>15. Comparable(gen'.history, f.rec)
  <2>1. Comparable(gen.history, w) /\ Kept(w)
    BY <1>7 DEF Settled
  <2> QED
    BY <1>3, <1>6, <1>12, <1>13, <1>14, <2>1, FoldComparable DEF f
<1>16. WatchOf(gen', q.id) = f.rec
  BY <1>12 DEF Turned
<1>17. Outcome(p).out = f.out
  BY <1>2, <1>12
<1> QED
  BY <1>1, <1>3, <1>5, <1>6, <1>7, <1>9, <1>12, <1>13, <1>15, <1>16, <1>17 DEF f, w

(* A check that comes back, however late, keeps what the bookkeeping means. *)
LEMMA FoldKeeps ==
  ASSUME PollInv, NEW p \in Pollers, FoldIn(p)
  PROVE  PollInv'
<1> DEFINE q == poll[p]
           w == WatchOf(gen, q.id)
           f == Fold(w, q.price, q.cur)
           v == f.rec
<1>1. /\ q.id \in IdsOf(gen) /\ q.id \in Ids /\ w \in Watches /\ w.id = q.id
      /\ Settled(gen.history, w) /\ Remembered(heard, chose, w)
      /\ q.price \in Nat \ {0} /\ q.cur \in Spellings
      /\ Turned(gen, gen', v) /\ v.id = q.id /\ Sound(gen') /\ Comparable(gen'.history, v)
  BY FoldFacts
<1>2. Coherent(v) /\ Kept(v)
  <2>1. Coherent(w) /\ Kept(w)
    BY <1>1 DEF Settled
  <2> HIDE DEF w
  <2> QED
    BY <1>1, <2>1, FoldMemory
<1>3. Doubted(w, q.cur, f) \/ Believed(w, q.price, q.cur, f)
  <2>1. Kept(w)
    BY <1>1 DEF Settled
  <2> HIDE DEF w
  <2> QED
    BY <1>1, <2>1, FoldSays
<1>4. v.target = w.target
  <2> HIDE DEF w
  <2> QED
    BY <1>1, FoldIs
<1>5. /\ drawn' = drawn \union {v.id} /\ chose' = chose
      /\ heard' = [heard EXCEPT ![q.id] = q.cur]
  BY <1>1 DEF FoldIn, PollInv
<1>6. heard'[q.id] = q.cur /\ heard' = [id \in Ids |-> heard'[id]]
      /\ \A x \in Ids \ {q.id} : heard'[x] = heard[x]
  BY <1>1, <1>5 DEF PollInv
<1>7. poll' = [x \in Pollers |-> poll'[x]] /\ \A x \in Pollers : InFlight(poll'[x])
  <2>1. poll'[p].stage = "folded" /\ poll' = [poll EXCEPT ![p] = poll'[p]]
    BY DEF FoldIn, PollInv
  <2>2. InFlight(poll'[p])
    BY <2>1 DEF InFlight
  <2> QED
    BY <2>1, <2>2 DEF PollInv
<1>8. Remembered(heard', chose', v)
  <2>1. v.pend # NoCur => heard'[v.id] = v.pend
    <3>1. v.pend \in {NoCur, q.cur}
      BY <1>1, <1>3 DEF Doubted, Believed, Watches
    <3> QED
      BY <1>1, <1>6, <3>1
  <2>2. ~IsRoom(v) /\ chose[v.id] => v.pct > 0 \/ v.abs > 0 \/ v.cleared
    <3>1. ~IsRoom(w) /\ chose[w.id] => w.pct > 0 \/ w.abs > 0 \/ w.cleared
      BY <1>1 DEF Remembered
    <3>2. IsRoom(v) = IsRoom(w)
      BY <1>4 DEF IsRoom
    <3>3. CASE Doubted(w, q.cur, f)
      <4>1. v.pct = w.pct /\ v.abs = w.abs /\ v.cleared = w.cleared
        BY <1>1, <3>3 DEF Doubted, Watches
      <4> QED
        BY <1>1, <3>1, <3>2, <4>1
    <3>4. CASE Believed(w, q.price, q.cur, f)
      <4>1. /\ v.pct = w.pct /\ v.abs = Threshold(w, q.cur).abs
            /\ ~IsRoom(w) => v.cleared = Cleared(w, q.cur)
        BY <3>4 DEF Believed
      <4>2. w.pct \in Nat /\ w.abs \in Nat
        BY <1>1 DEF Watches
      <4> HIDE DEF v, w, q
      <4>3. ~IsRoom(w) /\ (w.pct > 0 \/ w.abs > 0 \/ w.cleared)
              => v.pct > 0 \/ v.abs > 0 \/ v.cleared
        <5>1. Threshold(w, q.cur).abs = IF Mismatch(w, q.cur) THEN 0 ELSE w.abs
          BY DEF Threshold
        <5>2. ~IsRoom(w) /\ (w.cleared \/ (Mismatch(w, q.cur) /\ w.abs > 0 /\ w.pct <= 0))
                => v.cleared
          BY <4>1, Zenon DEF Cleared
        <5> QED
          BY <4>1, <4>2, <5>1, <5>2
      <4> QED
        BY <1>1, <3>1, <3>2, <4>3
    <3> QED
      BY <1>3, <3>3, <3>4
  <2> QED
    BY <1>5, <2>1, <2>2 DEF Remembered
<1>9. Settled(gen'.history, v)
  BY <1>1, <1>2 DEF Settled
<1>10. chose' \in [Ids -> BOOLEAN] /\ \A x \in Ids \ {v.id} : chose'[x] = chose[x]
  BY <1>5 DEF PollInv
<1> HIDE DEF v
<1> QED
  BY <1>1, <1>5, <1>6, <1>7, <1>8, <1>9, <1>10, TurnKeeps

\* What no step undoes: a removal, and the knowledge of a currency.
Upheld ==
  /\ IdsOf(gen') \intersect drawn \subseteq IdsOf(gen)
  /\ \A id \in IdsOf(gen) \intersect IdsOf(gen') :
       WatchOf(gen, id).cur # NoCur => WatchOf(gen', id).cur # NoCur

(* A series kept as it was, with a record whose prices stayed.              *)
LEMMA SamePrices ==
  ASSUME NEW h, NEW w, NEW v, Comparable(h, w), v.id = w.id,
         v.cur = w.cur, v.last = w.last, v.low = w.low
  PROVE  Comparable(h, v)
  BY DEF Comparable

(* A wish for a target keeps it, and undoes nothing.                        *)
LEMMA RewatchKeeps ==
  ASSUME PollInv, Rewatch
  PROVE  PollInv' /\ Upheld
<1>0. PICK wish \in Wishes : \E id \in Landing(wish) :
        /\ gen' = AddTo(gen, [op |-> "add", id |-> id, wish |-> wish]).gen
        /\ drawn' = drawn \union {id}
        /\ chose' = [chose EXCEPT ![id] = @ \/ wish.pct > 0 \/ wish.abs > 0]
        /\ UNCHANGED <<poll, quotes, heard>>
  BY DEF Rewatch
<1>1. PICK id \in Landing(wish) :
        /\ gen' = AddTo(gen, [op |-> "add", id |-> id, wish |-> wish]).gen
        /\ drawn' = drawn \union {id}
        /\ chose' = [chose EXCEPT ![id] = @ \/ wish.pct > 0 \/ wish.abs > 0]
        /\ UNCHANGED <<poll, quotes, heard>>
  BY <1>0
<1> DEFINE r    == [op |-> "add", id |-> id, wish |-> wish]
           same == Landed(gen, wish)
           old  == gen.watches[Min(same)]
<1>2. Sound(gen) /\ Normal(gen) /\ gen \in Generations /\ OneIdEach(gen) /\ Owned(gen)
  BY SoundNormal DEF PollInv, Sound, Loadable
<1>3. wish \in Wished
  BY PollAssumption DEF Wished
<1>4. id \in IF same = {} THEN Ids \ drawn ELSE {old.id}
  BY DEF Landing, Landed
<1>5. r.id = id /\ r.wish = wish /\ r.op = "add" /\ gen' = AddTo(gen, r).gen
  BY <1>1
<1> HIDE DEF r
<1>6. /\ same # {} => /\ old \in Watches /\ old.id \in IdsOf(gen) /\ WatchOf(gen, old.id) = old
                      /\ Turned(gen, gen', ApplyIntent(old, wish))
                      /\ CurrencyMoves(old, wish) => PointsOf(gen'.history, old.id) = {}
                      /\ ~CurrencyMoves(old, wish) => gen'.history = gen.history
  BY <1>2, <1>3, <1>5, AddRenews
<1>7. IdsOf(gen) \subseteq Ids
  BY <1>2, WatchOfIs
<1>8. id \in Ids
  BY <1>4, <1>6, <1>7
<1>9. Sound(gen')
  <2>1. Askable(r)
    BY <1>3, <1>5, <1>8 DEF Askable, Wished
  <2> QED
    BY <1>2, <1>5, <2>1, SoundUnused, AddKeeps
<1>10. /\ poll' = [p \in Pollers |-> poll'[p]] /\ \A p \in Pollers : InFlight(poll'[p])
       /\ heard' = [x \in Ids |-> heard'[x]] /\ heard' = heard
  BY <1>1 DEF PollInv
<1>11. /\ chose' \in [Ids -> BOOLEAN] /\ \A x \in Ids \ {id} : chose'[x] = chose[x]
       /\ chose'[id] <=> chose[id] \/ wish.pct > 0 \/ wish.abs > 0
  BY <1>1, <1>8 DEF PollInv
<1>12. CASE same = {}
  <2> DEFINE v == NewWatch(id, wish)
  <2>1. id \notin drawn /\ id \notin IdsOf(gen)
    BY <1>4, <1>12 DEF PollInv
  <2>2. Turned(gen, gen', v) /\ gen'.history = gen.history
    BY <1>2, <1>3, <1>5, <1>8, <1>12, <2>1, AddMakes
  <2>3. /\ Coherent(v) /\ Kept(v) /\ v.polls = 0 /\ v.pct = wish.pct /\ v.abs = wish.abs
    BY <1>3, <1>8, NewWatchForgets
  <2>4. v.id = id
    BY DEF NewWatch
  <2> HIDE DEF v
  <2>5. PointsOf(gen'.history, id) = {}
    <3>1. \A k \in DOMAIN gen.history : gen.history[k].id # id
      BY <1>2, <1>8, <2>1, OwnedOnly
    <3> QED
      BY <2>2, <3>1 DEF PointsOf
  <2>6. Settled(gen'.history, v)
    BY <2>3, <2>4, <2>5 DEF Settled, Comparable
  <2>7. ~chose[id]
    BY <1>8, <2>1 DEF PollInv
  <2>8. Remembered(heard', chose', v)
    BY <1>11, <2>3, <2>4, <2>7 DEF Remembered
  <2>9. PollInv'
    BY <1>1, <1>8, <1>9, <1>10, <1>11, <2>2, <2>4, <2>6, <2>8, TurnKeeps
  <2>10. Upheld
    BY <2>1, <2>2, <2>4 DEF Turned, Upheld
  <2> QED
    BY <2>9, <2>10
<1>13. CASE same # {}
  <2> DEFINE v == ApplyIntent(old, wish)
  <2> HIDE DEF old, same
  <2>1. /\ id = old.id /\ old \in Watches /\ id \in IdsOf(gen) /\ WatchOf(gen, id) = old
        /\ Turned(gen, gen', v)
        /\ CurrencyMoves(old, wish) => PointsOf(gen'.history, id) = {}
        /\ ~CurrencyMoves(old, wish) => gen'.history = gen.history
    BY <1>4, <1>6, <1>13
  <2>2. Settled(gen.history, old) /\ Remembered(heard, chose, old)
    BY <2>1 DEF PollInv
  <2>3. /\ v.id = id /\ v.target = old.target
        /\ ~CurrencyMoves(old, wish) => v.cur = old.cur /\ v.last = old.last /\ v.low = old.low
    BY <1>3, <2>1, ApplyIntentIs
  <2>4. /\ Coherent(v) /\ Kept(v) /\ v.pend = old.pend /\ v.polls = old.polls
        /\ CurrencyMoves(old, wish) => v.cur # NoCur
        /\ old.pct > 0 \/ old.abs > 0 \/ old.cleared \/ wish.pct > 0 \/ wish.abs > 0
             => v.pct > 0 \/ v.abs > 0 \/ v.cleared
    BY <1>3, <2>1, <2>2, IntentMemory DEF Settled
  <2> HIDE DEF v
  <2>5. Comparable(gen'.history, v)
    <3>1. CASE CurrencyMoves(old, wish)
      BY <2>1, <2>3, <3>1 DEF Comparable
    <3>2. CASE ~CurrencyMoves(old, wish)
      BY <2>1, <2>2, <2>3, <3>2, SamePrices DEF Settled
    <3> QED
      BY <3>1, <3>2
  <2>6. Remembered(heard', chose', v)
    BY <1>10, <1>11, <2>1, <2>2, <2>3, <2>4 DEF Remembered, IsRoom
  <2>7. Settled(gen'.history, v)
    BY <2>4, <2>5 DEF Settled
  <2>8. PollInv'
    BY <1>1, <1>8, <1>9, <1>10, <1>11, <2>1, <2>3, <2>6, <2>7, TurnKeeps
  <2>9. Upheld
    BY <2>1, <2>3, <2>4 DEF Turned, Upheld
  <2> QED
    BY <2>8, <2>9
<1> QED
  BY <1>12, <1>13

(* An edit of thresholds keeps it, and undoes nothing.                      *)
LEMMA EditKeeps ==
  ASSUME PollInv, Edit
  PROVE  PollInv' /\ Upheld
<1>0. PICK i \in DOMAIN gen.watches : \E u \in Edits :
        LET id == gen.watches[i].id
            e  == UpdateIn(gen, [op |-> "update", id |-> id, set |-> u])
        IN /\ e.verdict = "save"
           /\ gen' = e.gen
           /\ chose' = [chose EXCEPT ![id] =
                          IF DOMAIN u \intersect {"pct", "abs"} = {} THEN @
                          ELSE WatchOf(gen', id).pct > 0 \/ WatchOf(gen', id).abs > 0]
           /\ UNCHANGED <<poll, drawn, quotes, heard>>
  BY DEF Edit
<1> DEFINE id == gen.watches[i].id
           w  == WatchOf(gen, id)
<1>1. PICK u \in Edits :
        LET e == UpdateIn(gen, [op |-> "update", id |-> id, set |-> u])
        IN /\ e.verdict = "save"
           /\ gen' = e.gen
           /\ chose' = [chose EXCEPT ![id] =
                          IF DOMAIN u \intersect {"pct", "abs"} = {} THEN @
                          ELSE WatchOf(gen', id).pct > 0 \/ WatchOf(gen', id).abs > 0]
           /\ UNCHANGED <<poll, drawn, quotes, heard>>
  BY <1>0
<1> DEFINE r == [op |-> "update", id |-> id, set |-> u]
           v == ApplyUpdate(w, u)
<1>2. Sound(gen) /\ Normal(gen) /\ gen \in Generations /\ OneIdEach(gen)
  BY SoundNormal DEF PollInv, Sound, Loadable
<1>3. id \in IdsOf(gen) /\ id \in Ids /\ w \in Watches /\ w.id = id
  BY <1>2, AtPosition
<1>4. gen' = PutWatch(gen, v)
  BY <1>1, <1>3, Zenon DEF UpdateIn, Save, Fail
<1>5. DOMAIN u \subseteq UpdateFields /\ \A f \in DOMAIN u : u[f] \in Nat
  BY PollAssumption
<1>6. r.op = "update" /\ r.id = id /\ r.set = u
  OBVIOUS
<1> HIDE DEF r, w, id
<1>7. Sound(gen')
  <2>1. Askable(r)
    BY <1>5, <1>6 DEF Askable
  <2> QED
    BY <1>2, <1>3, <1>4, <1>6, <2>1, UpdateKeeps DEF w
<1>8. /\ v \in Watches /\ v.id = id /\ v.target = w.target
      /\ v.cur = w.cur /\ v.last = w.last /\ v.low = w.low
  BY <1>3, <1>5, ApplyUpdateIs
<1>9. Settled(gen.history, w) /\ Remembered(heard, chose, w)
  BY <1>3 DEF PollInv, w
<1>10. /\ Coherent(v) /\ Kept(v) /\ v.pend = w.pend /\ v.polls = w.polls
       /\ DOMAIN u \intersect {"pct", "abs"} = {} =>
            v.pct = w.pct /\ v.abs = w.abs /\ v.cleared = w.cleared
  BY <1>3, <1>5, <1>9, UpdateMemory DEF Settled
<1> HIDE DEF v
<1>11. Turned(gen, gen', v) /\ gen'.history = gen.history
  BY <1>2, <1>3, <1>4, <1>8, UpdateDoes
<1>12. WatchOf(gen', id) = v
  BY <1>8, <1>11 DEF Turned
<1>13. /\ chose' = [chose EXCEPT ![id] =
                      IF DOMAIN u \intersect {"pct", "abs"} = {} THEN @
                      ELSE v.pct > 0 \/ v.abs > 0]
       /\ UNCHANGED <<poll, drawn, heard>>
  BY <1>1, <1>12
<1>14. /\ chose' \in [Ids -> BOOLEAN] /\ \A x \in Ids \ {id} : chose'[x] = chose[x]
       /\ chose'[id] = IF DOMAIN u \intersect {"pct", "abs"} = {} THEN chose[id]
                       ELSE v.pct > 0 \/ v.abs > 0
  BY <1>3, <1>13 DEF PollInv
<1>15. Settled(gen'.history, v)
  BY <1>3, <1>8, <1>9, <1>10, <1>11, SamePrices DEF Settled
<1>16. Remembered(heard', chose', v)
  BY <1>3, <1>8, <1>9, <1>10, <1>13, <1>14 DEF Remembered, IsRoom
<1>17. /\ poll' = [p \in Pollers |-> poll'[p]] /\ \A p \in Pollers : InFlight(poll'[p])
       /\ heard' = [x \in Ids |-> heard'[x]] /\ heard' = heard
       /\ drawn' = drawn \union {id}
  BY <1>3, <1>13 DEF PollInv
<1>18. PollInv'
  BY <1>3, <1>7, <1>8, <1>11, <1>14, <1>15, <1>16, <1>17, TurnKeeps
<1>19. Upheld
  BY <1>3, <1>8, <1>11, <1>12 DEF Turned, Upheld, w
<1> QED
  BY <1>18, <1>19

(* A removal keeps it, and undoes nothing.                                  *)
LEMMA RemoveHolds ==
  ASSUME PollInv, Remove
  PROVE  PollInv' /\ Upheld
<1>1. PICK i \in DOMAIN gen.watches :
        /\ gen' = RemoveFrom(gen, [op |-> "remove", id |-> gen.watches[i].id]).gen
        /\ UNCHANGED <<poll, drawn, quotes, heard, chose>>
  BY DEF Remove
<1> DEFINE r == [op |-> "remove", id |-> gen.watches[i].id]
<1>2. /\ Sound(gen) /\ Normal(gen) /\ gen \in Generations /\ OneIdEach(gen)
  BY SoundNormal DEF PollInv, Sound, Loadable
<1>3. r.id \in IdsOf(gen) /\ gen' = RemoveFrom(gen, r).gen
  BY <1>1 DEF IdsOf
<1> HIDE DEF r
<1>4. /\ gen' \in Generations /\ OneIdEach(gen') /\ IdsOf(gen') = IdsOf(gen) \ {r.id}
      /\ \A x \in IdsOf(gen') :
           WatchOf(gen', x) = WatchOf(gen, x) /\ SeriesKept(gen.history, gen'.history, x)
  BY <1>2, <1>3, RemoveDoes
<1>5. Sound(gen')
  BY <1>2, <1>3, RemoveKeeps
<1>6. ASSUME NEW x \in IdsOf(gen')
      PROVE  /\ Settled(gen'.history, WatchOf(gen', x))
             /\ Remembered(heard', chose', WatchOf(gen', x))
  <2> DEFINE w == WatchOf(gen, x)
  <2>1. /\ x \in IdsOf(gen) /\ WatchOf(gen', x) = w /\ SeriesKept(gen.history, gen'.history, x)
    BY <1>4
  <2>2. w.id = x
    BY <1>2, <2>1, WatchOfIs
  <2>3. Settled(gen.history, w) /\ Remembered(heard, chose, w)
    BY <2>1 DEF PollInv
  <2> HIDE DEF w
  <2>4. Settled(gen'.history, w)
    BY <2>1, <2>2, <2>3, ComparableKept DEF Settled
  <2> QED
    BY <1>1, <2>1, <2>3, <2>4
<1>7. PollInv'
  <2>1. \A p \in Pollers : InFlight(poll[p])'
    BY <1>1 DEF PollInv, InFlight
  <2> QED
    BY <1>1, <1>4, <1>5, <1>6, <2>1 DEF PollInv
<1>8. Upheld
  BY <1>4 DEF Upheld
<1> QED
  BY <1>7, <1>8

(* A late check neither brings a watch back nor forgets a currency.         *)
LEMMA FoldUpholds ==
  ASSUME PollInv, NEW p \in Pollers, FoldIn(p)
  PROVE  Upheld
<1> DEFINE q == poll[p]
           w == WatchOf(gen, q.id)
           f == Fold(w, q.price, q.cur)
           v == f.rec
<1>1. /\ q.id \in IdsOf(gen) /\ w \in Watches /\ w.id = q.id /\ Settled(gen.history, w)
      /\ q.price \in Nat \ {0} /\ q.cur \in Spellings
      /\ q.cur = NoCur => w.cur = NoCur
      /\ Turned(gen, gen', v) /\ WatchOf(gen', q.id) = v /\ v.id = q.id
  BY FoldFacts
<1>2. v.cur \in {w.cur, q.cur}
  <2> HIDE DEF w
  <2> QED
    BY <1>1, FoldIs
<1> HIDE DEF v
<1>3. \A x \in IdsOf(gen) : WatchOf(gen, x).cur # NoCur => WatchOf(gen', x).cur # NoCur
  BY <1>1, <1>2 DEF Turned
<1> QED
  BY <1>1, <1>3 DEF Turned, Upheld

(* Every step keeps the invariant, and undoes nothing.                      *)
LEMMA PollStep ==
  ASSUME PollInv, [Next]_vars
  PROVE  PollInv' /\ Upheld
<1>1. ASSUME UNCHANGED <<gen, drawn>> PROVE Upheld
  BY <1>1 DEF Upheld
<1>2. ASSUME NEW p \in Pollers, Check(p)
      PROVE  PollInv' /\ Upheld
  <2>1. CASE Begin(p)
    <3>1. PICK i \in DOMAIN gen.watches : poll' = [poll EXCEPT ![p] = Asked(gen.watches[i])]
      BY <2>1 DEF Begin
    <3> DEFINE w == gen.watches[i]
    <3>2. w.id \in drawn /\ Upper[w.cur] = w.cur
      BY DEF PollInv, Sound, CanonicalTexts, IdsOf
    <3>3. InFlight(Asked(w))
      BY <3>2 DEF InFlight, Asked, PollKey
    <3>4. UNCHANGED <<gen, drawn, heard, chose>>
      BY <2>1 DEF Begin
    <3> QED
      BY <1>1, <3>1, <3>3, <3>4, CheckKeeps
  <2>2. CASE Answer(p)
    <3>1. PICK price \in Prices, spelling \in Spellings :
            /\ Usable(poll[p].snap, spelling)
            /\ poll' = [poll EXCEPT ![p] =
                          [stage |-> "answered", id |-> poll[p].id, key |-> poll[p].key,
                           price |-> price, cur |-> Upper[spelling]]]
      BY <2>2 DEF Answer
    <3> DEFINE q == [stage |-> "answered", id |-> poll[p].id, key |-> poll[p].key,
                     price |-> price, cur |-> Upper[spelling]]
    <3>2. price \in Nat \ {0} /\ Upper[spelling] \in Spellings
          /\ Upper[Upper[spelling]] = Upper[spelling]
      BY PollAssumption, Uppered
    <3>3. poll[p].id \in drawn /\ (Upper[spelling] = NoCur => poll[p].key[2] = NoCur)
      BY <2>2, <3>1 DEF Answer, Usable, PollInv, InFlight
    <3>4. InFlight(q)
      BY <3>2, <3>3 DEF InFlight
    <3>5. UNCHANGED <<gen, drawn, heard, chose>>
      BY <2>2 DEF Answer
    <3> QED
      BY <1>1, <3>1, <3>4, <3>5, CheckKeeps
  <2>3. CASE GiveUp(p) \/ Discard(p) \/ Report(p) \/ Die(p)
    <3>1. poll' = [poll EXCEPT ![p] = NoPoll] /\ UNCHANGED <<gen, drawn, heard, chose>>
      BY <2>3 DEF GiveUp, Discard, Report, Die
    <3>2. InFlight(NoPoll)
      BY DEF InFlight, NoPoll
    <3> QED
      BY <1>1, <3>1, <3>2, CheckKeeps
  <2>4. CASE FoldIn(p)
    BY <2>4, FoldKeeps, FoldUpholds
  <2> QED
    BY <1>2, <2>1, <2>2, <2>3, <2>4 DEF Check
<1>3. CASE UNCHANGED vars
  <2>1. UNCHANGED <<gen, poll, drawn, heard, chose>>
    BY <1>3 DEF vars
  <2> QED
    BY <1>1, <2>1 DEF PollInv, InFlight
<1> QED
  BY <1>2, <1>3, RewatchKeeps, EditKeeps, RemoveHolds DEF Next

(* A step from "answered" to "folded" is the fold of that answer.           *)
LEMMA OnlyFoldFolds ==
  ASSUME PollInv, [Next]_vars, NEW p \in Pollers,
         poll[p].stage = "answered", poll'[p].stage = "folded"
  PROVE  FoldIn(p)
<1>f. poll = [x \in Pollers |-> poll[x]]
  BY DEF PollInv
<1>1. ASSUME NEW x \in Pollers, Check(x), x # p
      PROVE  FALSE
  <2>1. \E q : poll' = [poll EXCEPT ![x] = q]
    BY <1>1, Zenon DEF Check, Begin, Answer, GiveUp, Discard, FoldIn, Report, Die
  <2>2. poll'[p] = poll[p]
    BY <1>f, <1>1, <2>1
  <2> QED
    BY <2>2
<1>2. CASE Begin(p) \/ Answer(p) \/ Report(p)
  BY <1>2 DEF Begin, Answer, Report
<1>3. CASE GiveUp(p) \/ Discard(p) \/ Die(p)
  <2>1. poll'[p] = NoPoll
    BY <1>f, <1>3 DEF GiveUp, Discard, Die
  <2> QED
    BY <2>1 DEF NoPoll
<1>4. CASE UNCHANGED poll
  BY <1>4
<1> QED
  BY <1>1, <1>2, <1>3, <1>4 DEF Next, Check, Rewatch, Edit, Remove, vars

-----------------------------------------------------------------------------
(***************************************************************************)
(* The bookkeeping of checks in flight keeps what it means to keep.        *)
(***************************************************************************)
THEOREM PollInvariant == Spec => []PollInv
<1>1. Init => PollInv
  BY PollInit
<1>2. PollInv /\ [Next]_vars => PollInv'
  BY PollStep
<1> QED
  BY <1>1, <1>2, PTL DEF Spec

(***************************************************************************)
(* Points of one watch are in its currency, end in its last price and do   *)
(* not undercut its lowest one, whatever checks were in flight.            *)
(***************************************************************************)
THEOREM AlwaysComparable == Spec => []SeriesComparable
<1>1. PollInv => SeriesComparable
  <2> SUFFICES ASSUME PollInv, NEW i \in DOMAIN gen.watches
               PROVE  Comparable(gen.history, gen.watches[i])
    BY DEF SeriesComparable
  <2>1. LET id == gen.watches[i].id
        IN id \in IdsOf(gen) /\ WatchOf(gen, id) = gen.watches[i]
    BY AtPosition DEF PollInv, Sound, Loadable
  <2> QED
    BY <2>1 DEF PollInv, Settled
<1> QED
  BY <1>1, PollInvariant, PTL

(***************************************************************************)
(* The high-water mark is not below the last price, and the last alert     *)
(* lies between the lowest price and the mark (pricealert.Evaluate).       *)
(***************************************************************************)
THEOREM AlwaysCoherent == Spec => []AlertMemoryCoherent
<1>1. PollInv => AlertMemoryCoherent
  <2> SUFFICES ASSUME PollInv, NEW i \in DOMAIN gen.watches
               PROVE  Coherent(gen.watches[i])
    BY DEF AlertMemoryCoherent
  <2>1. LET id == gen.watches[i].id
        IN id \in IdsOf(gen) /\ WatchOf(gen, id) = gen.watches[i]
    BY AtPosition DEF PollInv, Sound, Loadable
  <2> QED
    BY <2>1 DEF PollInv, Settled
<1> QED
  BY <1>1, PollInvariant, PTL

(***************************************************************************)
(* A flight or a hotel leaves a currency only for the one that the quote   *)
(* before this one was in, too.                                            *)
(***************************************************************************)
LEMMA SwitchStep ==
  ASSUME PollInv, NEW p \in Pollers, FoldIn(p)
  PROVE  LET w == WatchOf(gen, poll[p].id)
             v == WatchOf(gen', poll[p].id)
         IN v.cur # w.cur /\ ~IsRoom(w) =>
              /\ poll[p].key = PollKey(w)
              /\ HasPrior(w) => heard[poll[p].id] = poll'[p].cur
<1> DEFINE q == poll[p]
           w == WatchOf(gen, q.id)
           f == Fold(w, q.price, q.cur)
           v == WatchOf(gen', q.id)
<1>1. /\ w \in Watches /\ w.id = q.id /\ Settled(gen.history, w) /\ Remembered(heard, chose, w)
      /\ q.price \in Nat \ {0} /\ q.cur \in Spellings
      /\ q.cur = NoCur => w.cur = NoCur
      /\ q.key = PollKey(w) /\ v = f.rec
      /\ poll'[p] = [stage |-> "folded", id |-> q.id, price |-> q.price,
                     cur |-> q.cur, told |-> f.out]
  BY FoldFacts
<1>2. Doubted(w, q.cur, f) \/ Believed(w, q.price, q.cur, f)
  <2>1. Kept(w)
    BY <1>1 DEF Settled
  <2> HIDE DEF w
  <2> QED
    BY <1>1, <2>1, FoldSays
<1>3. poll'[p].cur = q.cur
  BY <1>1
<1> HIDE DEF f, v
<1>4. CASE Doubted(w, q.cur, f)
  <2>1. v.cur = w.cur
    BY <1>1, <1>4 DEF Doubted, Watches
  <2> QED
    BY <2>1 DEF v
<1>5. CASE Believed(w, q.price, q.cur, f)
  <2> SUFFICES ASSUME v.cur # w.cur, ~IsRoom(w), HasPrior(w)
               PROVE  heard[w.id] = q.cur
    BY <1>1, <1>3 DEF v
  <2>1. v.cur = q.cur /\ ~Unconfirmed(w, q.cur)
    BY <1>1, <1>5 DEF Believed
  <2>2. Changed(w, q.cur)
    BY <1>1, <2>1, ChangeOrSame
  <2>3. ~(Dissent(w, q.cur) < 2)
    BY <2>1, <2>2 DEF Unconfirmed, ConfirmPolls
  <2>4. w.polls \in Nat
    BY <1>1 DEF Watches
  <2> HIDE DEF w, q
  <2>5. w.pend = q.cur /\ w.polls > 0
    BY <2>3, <2>4 DEF Dissent
  <2>6. q.cur # NoCur
    BY <2>2 DEF Changed, Mismatch
  <2> QED
    BY <1>1, <2>5, <2>6 DEF Remembered
<1> QED
  BY <1>2, <1>4, <1>5

(* A poll moves a watch to another currency only if it was asked in the     *)
(* present one and, where an observation is at stake, the quote before said *)
(* the same (mutateAndRecordPrice).                                         *)
THEOREM SwitchesJustified == Spec => SwitchJustified
<1>1. ASSUME PollInv, [Next]_vars, NEW p \in Pollers,
             Folds(p), After(p).cur # Before(p).cur, ~IsRoom(Before(p))
      PROVE  /\ poll[p].key = PollKey(Before(p))
             /\ HasPrior(Before(p)) => heard[poll[p].id] = poll'[p].cur
  <2>1. FoldIn(p)
    BY <1>1, OnlyFoldFolds DEF Folds
  <2> QED
    BY <1>1, <2>1, SwitchStep DEF Before, After
<1>2. PollInv /\ [Next]_vars =>
        \A p \in Pollers :
          Folds(p) /\ After(p).cur # Before(p).cur /\ ~IsRoom(Before(p)) =>
            /\ poll[p].key = PollKey(Before(p))
            /\ HasPrior(Before(p)) => heard[poll[p].id] = poll'[p].cur
  BY <1>1
<1> QED
  BY <1>2, PollInvariant, PTL DEF Spec, SwitchJustified

(***************************************************************************)
(* A threshold goes only with the currency it was in, and not silently.    *)
(***************************************************************************)
LEMMA ThresholdStep ==
  ASSUME PollInv, NEW p \in Pollers, FoldIn(p)
  PROVE  LET w == WatchOf(gen, poll[p].id)
             v == WatchOf(gen', poll[p].id)
         IN v.below # w.below \/ v.abs # w.abs => v.cur # w.cur /\ poll'[p].told.lost
<1> DEFINE q == poll[p]
           w == WatchOf(gen, q.id)
           f == Fold(w, q.price, q.cur)
           v == WatchOf(gen', q.id)
<1>1. /\ w \in Watches /\ Settled(gen.history, w)
      /\ q.price \in Nat \ {0} /\ q.cur \in Spellings /\ v = f.rec
      /\ poll'[p] = [stage |-> "folded", id |-> q.id, price |-> q.price,
                     cur |-> q.cur, told |-> f.out]
  BY FoldFacts
<1>2. poll'[p].told = f.out
  BY <1>1
<1>3. Doubted(w, q.cur, f) \/ Believed(w, q.price, q.cur, f)
  <2>1. Kept(w)
    BY <1>1 DEF Settled
  <2> HIDE DEF w
  <2> QED
    BY <1>1, <2>1, FoldSays
<1> HIDE DEF f, v, w, q
<1>4. CASE Doubted(w, q.cur, f)
  BY <1>1, <1>4 DEF Doubted, Watches, v, w, q
<1>5. CASE Believed(w, q.price, q.cur, f)
  <2>1. /\ v.cur = q.cur /\ v.abs = Threshold(w, q.cur).abs
        /\ v.below = (IF Mismatch(w, q.cur) THEN 0 ELSE w.below)
        /\ f.out.lost = Lost(w, q.cur)
    BY <1>1, <1>5 DEF Believed, Signals
  <2>2. v.abs = IF Mismatch(w, q.cur) THEN 0 ELSE w.abs
    BY <2>1 DEF Threshold
  <2>3. w.below \in Nat /\ w.abs \in Nat
    BY <1>1 DEF Watches
  <2>4. v.below # w.below \/ v.abs # w.abs =>
          Mismatch(w, q.cur) /\ (w.below > 0 \/ w.abs > 0)
    BY <2>1, <2>2, <2>3
  <2>5. Mismatch(w, q.cur) => v.cur # w.cur
    BY <2>1 DEF Mismatch
  <2>6. v.below # w.below \/ v.abs # w.abs => v.cur # w.cur /\ f.out.lost
    BY <2>1, <2>4, <2>5 DEF Lost
  <2> QED
    BY <1>2, <2>6 DEF v, w, q
<1> QED
  BY <1>3, <1>4, <1>5

(* A poll takes a threshold away only with the currency it was in, and      *)
(* tells.                                                                   *)
THEOREM ThresholdsFollow == Spec => ThresholdsFollowCurrency
<1>1. ASSUME PollInv, [Next]_vars, NEW p \in Pollers,
             Folds(p), After(p).below # Before(p).below \/ After(p).abs # Before(p).abs
      PROVE  After(p).cur # Before(p).cur /\ Told(p).lost
  <2>1. FoldIn(p)
    BY <1>1, OnlyFoldFolds DEF Folds
  <2> QED
    BY <1>1, <2>1, ThresholdStep DEF Before, After, Told
<1>2. PollInv /\ [Next]_vars =>
        \A p \in Pollers :
          Folds(p) /\ (After(p).below # Before(p).below \/ After(p).abs # Before(p).abs) =>
            After(p).cur # Before(p).cur /\ Told(p).lost
  BY <1>1
<1> QED
  BY <1>2, PollInvariant, PTL DEF Spec, ThresholdsFollowCurrency

(***************************************************************************)
(* A reported drop is the distance from the newest retained point, in its  *)
(* currency: a quote that is no change is in the currency of the series.   *)
(***************************************************************************)
LEMMA DropStep ==
  ASSUME PollInv, NEW p \in Pollers, FoldIn(p)
  PROVE  LET mine   == PointsOf(gen.history, poll[p].id)
             newest == gen.history[Max(mine)]
         IN poll'[p].told.drop # 0 /\ mine # {} =>
              newest.price = poll'[p].price - poll'[p].told.drop /\ newest.cur = poll'[p].cur
<1> DEFINE q      == poll[p]
           w      == WatchOf(gen, q.id)
           f      == Fold(w, q.price, q.cur)
           mine   == PointsOf(gen.history, q.id)
           newest == gen.history[Max(mine)]
<1>1. /\ w \in Watches /\ w.id = q.id /\ Settled(gen.history, w)
      /\ q.price \in Nat \ {0} /\ q.cur \in Spellings
      /\ q.cur = NoCur => w.cur = NoCur
      /\ poll'[p] = [stage |-> "folded", id |-> q.id, price |-> q.price,
                     cur |-> q.cur, told |-> f.out]
  BY FoldFacts
<1>2. poll'[p].told = f.out /\ poll'[p].price = q.price /\ poll'[p].cur = q.cur
  BY <1>1
<1>3. Doubted(w, q.cur, f) \/ Believed(w, q.price, q.cur, f)
  <2>1. Kept(w)
    BY <1>1 DEF Settled
  <2> HIDE DEF w
  <2> QED
    BY <1>1, <2>1, FoldSays
<1>4. mine # {} => w.low > 0 /\ newest.price = w.last /\ newest.cur = w.cur
  <2>1. gen.history \in Seq(Points)
    BY DEF PollInv, Sound, Loadable, Generations
  <2>2. mine # {} => Max(mine) \in mine
    BY <2>1, SeriesMax
  <2> QED
    BY <1>1, <2>2 DEF Settled, Comparable
<1> HIDE DEF f, w, mine, newest, q
<1>5. SUFFICES ASSUME f.out.drop # 0, mine # {}
               PROVE  newest.price = q.price - f.out.drop /\ newest.cur = q.cur
  BY <1>2 DEF mine, newest, q
<1>6. Believed(w, q.price, q.cur, f)
  BY <1>3, <1>5 DEF Doubted, Suspicious
<1>7. f.out.drop = Drop(w, q.price, q.cur)
  BY <1>6 DEF Believed, Signals
<1>8. w.last \in Nat /\ w.low \in Nat /\ q.price \in Nat
  BY <1>1 DEF Watches
<1>9. ~Changed(w, q.cur) /\ f.out.drop = q.price - w.last
  BY <1>5, <1>7 DEF Drop
<1>10. q.cur = w.cur
  BY <1>1, <1>4, <1>5, <1>9, ChangeOrSame DEF HasPrior
<1> QED
  BY <1>4, <1>5, <1>8, <1>9, <1>10

(* A drop that a check reports is measured from the newest retained point,  *)
(* in the same currency, whatever was committed in between.                 *)
THEOREM DropsAreComparable == Spec => DropsComparable
<1>1. ASSUME PollInv, [Next]_vars, NEW p \in Pollers,
             LET mine == PointsOf(gen.history, poll[p].id)
             IN Folds(p) /\ Told(p).drop # 0 /\ mine # {}
      PROVE  LET mine   == PointsOf(gen.history, poll[p].id)
                 newest == gen.history[Max(mine)]
             IN newest.price = poll'[p].price - Told(p).drop /\ newest.cur = poll'[p].cur
  <2>1. FoldIn(p)
    BY <1>1, OnlyFoldFolds DEF Folds
  <2> QED
    BY <1>1, <2>1, DropStep DEF Told
<1>2. PollInv /\ [Next]_vars =>
        \A p \in Pollers :
          LET mine   == PointsOf(gen.history, poll[p].id)
              newest == gen.history[Max(mine)]
          IN Folds(p) /\ Told(p).drop # 0 /\ mine # {} =>
               newest.price = poll'[p].price - Told(p).drop /\ newest.cur = poll'[p].cur
  BY <1>1
<1> QED
  BY <1>2, PollInvariant, PTL DEF Spec, DropsComparable

(***************************************************************************)
(* An alert under no threshold is the default's, and the user chose none:  *)
(* a chosen one that a switch force-cleared has left its mark.             *)
(***************************************************************************)
LEMMA PolicyStep ==
  ASSUME PollInv, PollInv', NEW p \in Pollers, FoldIn(p)
  PROVE  LET v == WatchOf(gen', poll[p].id)
         IN poll'[p].told.alert /\ v.pct = 0 /\ v.abs = 0 => ~chose[poll[p].id]
<1> DEFINE q == poll[p]
           w == WatchOf(gen, q.id)
           f == Fold(w, q.price, q.cur)
           v == WatchOf(gen', q.id)
<1>1. /\ q.id \in Ids /\ w \in Watches /\ w.id = q.id /\ Settled(gen.history, w)
      /\ q.price \in Nat \ {0} /\ q.cur \in Spellings
      /\ Turned(gen, gen', f.rec) /\ f.rec.id = q.id /\ v = f.rec
      /\ poll'[p] = [stage |-> "folded", id |-> q.id, price |-> q.price,
                     cur |-> q.cur, told |-> f.out]
  BY FoldFacts
<1>2. poll'[p].told = f.out
  BY <1>1
<1>3. Doubted(w, q.cur, f) \/ Believed(w, q.price, q.cur, f)
  <2>1. Kept(w)
    BY <1>1 DEF Settled
  <2> HIDE DEF w
  <2> QED
    BY <1>1, <2>1, FoldSays
<1>4. f.rec.target = w.target
  <2> HIDE DEF w
  <2> QED
    BY <1>1, FoldIs
<1>5. v.id = q.id /\ Remembered(heard', chose', v) /\ chose' = chose
  <2>1. q.id \in IdsOf(gen')
    BY <1>1 DEF Turned
  <2> QED
    BY <1>1, <2>1 DEF PollInv, FoldIn
<1> HIDE DEF f, v, w, q
<1>6. SUFFICES ASSUME f.out.alert, v.pct = 0, v.abs = 0 PROVE ~chose[q.id]
  BY <1>2 DEF v, q
<1>7. Believed(w, q.price, q.cur, f)
  BY <1>3, <1>6 DEF Doubted, Suspicious
<1>8. /\ v.pct = w.pct /\ v.abs = Threshold(w, q.cur).abs
      /\ ~IsRoom(w) /\ ~Suspended(w, q.cur) /\ v.cleared = Cleared(w, q.cur)
  BY <1>1, <1>6, <1>7 DEF Believed
<1>9. Threshold(w, q.cur).pct = 0 /\ Threshold(w, q.cur).abs = 0
  BY <1>6, <1>8 DEF Threshold
<1>10. ~v.cleared
  BY <1>8, <1>9 DEF Suspended
<1>11. ~IsRoom(v)
  BY <1>1, <1>4, <1>8 DEF IsRoom
<1> QED
  BY <1>5, <1>6, <1>10, <1>11 DEF Remembered

(* The built-in drop threshold never stands in for one that the user chose. *)
THEOREM NoPolicyUnchosen == Spec => NoUnchosenPolicy
<1>1. ASSUME PollInv, [Next]_vars, NEW p \in Pollers,
             Folds(p), Told(p).alert, After(p).pct = 0, After(p).abs = 0
      PROVE  ~chose[poll[p].id]
  <2>1. FoldIn(p)
    BY <1>1, OnlyFoldFolds DEF Folds
  <2>2. PollInv'
    BY <1>1, PollStep
  <2> QED
    BY <1>1, <2>1, <2>2, PolicyStep DEF After, Told
<1>2. PollInv /\ [Next]_vars =>
        \A p \in Pollers :
          Folds(p) /\ Told(p).alert /\ After(p).pct = 0 /\ After(p).abs = 0 =>
            ~chose[poll[p].id]
  BY <1>1
<1> QED
  BY <1>2, PollInvariant, PTL DEF Spec, NoUnchosenPolicy

(* Both: a poll leaves the user's thresholds to the user.                   *)
THEOREM ThresholdsKept == Spec => ThresholdsRespected
  BY ThresholdsFollow, NoPolicyUnchosen DEF ThresholdsRespected

(***************************************************************************)
(* No check in flight brings back a removed watch or forgets a currency.   *)
(***************************************************************************)
THEOREM NothingIsUndone == Spec => NothingUndone
<1>1. ASSUME PollInv, [Next]_vars, NEW i \in DOMAIN gen.watches, NEW j \in DOMAIN gen'.watches,
             gen.watches[i].id = gen'.watches[j].id, gen.watches[i].cur # NoCur
      PROVE  gen'.watches[j].cur # NoCur
  <2>1. PollInv' /\ Upheld
    BY <1>1, PollStep
  <2> DEFINE id == gen.watches[i].id
  <2>2. id \in IdsOf(gen) /\ WatchOf(gen, id) = gen.watches[i]
    BY <1>1, AtPosition DEF PollInv, Sound, Loadable
  <2>3. gen' \in Generations /\ OneIdEach(gen')
    BY <2>1 DEF PollInv, Sound, Loadable
  <2>4. LET x == gen'.watches[j].id
        IN x \in IdsOf(gen') /\ WatchOf(gen', x) = gen'.watches[j]
    BY <2>3, AtPosition
  <2> QED
    BY <1>1, <2>1, <2>2, <2>4 DEF Upheld
<1>2. PollInv /\ [Next]_vars =>
        \A i \in DOMAIN gen.watches, j \in DOMAIN gen'.watches :
          gen.watches[i].id = gen'.watches[j].id /\ gen.watches[i].cur # NoCur
            => gen'.watches[j].cur # NoCur
  BY <1>1
<1>3. PollInv /\ [Next]_vars => \A id \in drawn : id \notin IdsOf(gen) => id \notin IdsOf(gen')
  <2>1. PollInv /\ [Next]_vars => Upheld
    BY PollStep
  <2> QED
    BY <2>1 DEF Upheld
<1> QED
  BY <1>2, <1>3, PollInvariant, PTL DEF Spec, NothingUndone, CurrencyKept, RemovedStaysRemoved
=============================================================================
