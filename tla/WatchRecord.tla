----------------------------- MODULE WatchRecord -----------------------------
(***************************************************************************)
(* The stored watch record of internal/watch and the pure bookkeeping that *)
(* every store transaction applies to it: a re-watch (applyIntent), a      *)
(* field edit (WatchUpdate.apply) and the fold of one provider quote       *)
(* (the MutateAndRecordPrice callbacks of check.go and check_room.go),     *)
(* with the alert detector of internal/pricealert.                         *)
(*                                                                         *)
(* Prices are natural numbers and 0 means "none", as in the code.  Only    *)
(* the fields that decide something are kept; CheapestDate, MatchedRoom,   *)
(* the timestamps, the webhook address and last-minute mode are left out.  *)
(***************************************************************************)
EXTENDS Integers, Sequences

CONSTANTS
  Ids,          \* the IDs of watches, drawn or found in a file
  Targets,      \* polled targets: everything targetKey joins except currency
  RoomTargets,  \* those whose Type is "room"
  Codes,        \* three-letter currency codes in canonical form
  Spellings,    \* every currency text a caller, a provider or a file may hold
  Upper         \* strings.ToUpper(strings.TrimSpace(s)), as a function

NoCur == ""

ASSUME CurrencyAssumption ==
  /\ Codes \subseteq Spellings
  /\ NoCur \in Spellings /\ NoCur \notin Codes
  /\ Upper \in [Spellings -> Spellings]
  /\ \A c \in Codes \union {NoCur} : Upper[c] = c
  /\ \A s \in Spellings : Upper[Upper[s]] = Upper[s]

ASSUME TargetAssumption == RoomTargets \subseteq Targets

(* IsValidCurrencyFormat of a text that is already in canonical case.       *)
ValidCode(c) == c \in Codes

ConfirmPolls == 2          \* currencyChangeConfirmPolls
DefaultDropPct == 10       \* pricealert.DefaultDropPercent

Watches ==
  [id : Ids, target : Targets, cur : Spellings, last : Nat, low : Nat,
   below : Nat, pct : Nat, abs : Nat, base : Nat, alerted : Nat,
   cleared : BOOLEAN, pend : Spellings, polls : Nat]

(***************************************************************************)
(* A watch as Add creates it from the caller's wish.                       *)
(***************************************************************************)
NewWatch(id, wish) ==
  [id |-> id, target |-> wish.target, cur |-> Upper[wish.cur],
   last |-> 0, low |-> 0, below |-> wish.below,
   pct |-> wish.pct, abs |-> wish.abs,
   base |-> 0, alerted |-> 0, cleared |-> FALSE,
   pend |-> NoCur, polls |-> 0]

IsRoom(w) == w.target \in RoomTargets

(* The identity of the provider request and of the user's intent.           *)
PollKey(w) == <<w.target, Upper[w.cur]>>
DedupeKey(w) == w.target

HasPrior(w) == w.last > 0 \/ w.low > 0

CurOf(w) == Upper[w.cur]

(***************************************************************************)
(* Re-watching an existing target: zero values never overwrite, and a      *)
(* change of currency resets everything denominated in the old one.        *)
(***************************************************************************)
CurrencyMoves(w, wish) == Upper[wish.cur] # NoCur /\ Upper[wish.cur] # w.cur

ApplyIntent(w, wish) ==
  LET moved == CurrencyMoves(w, wish)
      reset == IF moved
               THEN [w EXCEPT !.cur = Upper[wish.cur], !.last = 0, !.low = 0,
                              !.base = 0, !.alerted = 0, !.below = 0, !.abs = 0,
                              !.cleared = w.cleared \/ (w.abs > 0 /\ w.pct <= 0)]
               ELSE w
  IN [reset EXCEPT
        !.below   = IF wish.below > 0 THEN wish.below ELSE @,
        !.pct     = IF wish.pct > 0 THEN wish.pct ELSE @,
        !.abs     = IF wish.abs > 0 THEN wish.abs ELSE @,
        !.cleared = @ /\ wish.pct <= 0 /\ wish.abs <= 0]

(***************************************************************************)
(* WatchUpdate.apply: the fields an update names (a nil pointer is a field *)
(* outside its domain), and naming an alert limb reconfirms the currency.  *)
(***************************************************************************)
UpdateFields == {"below", "pct", "abs"}

ApplyUpdate(w, u) ==
  [w EXCEPT !.below   = IF "below" \in DOMAIN u THEN u.below ELSE @,
            !.pct     = IF "pct" \in DOMAIN u THEN u.pct ELSE @,
            !.abs     = IF "abs" \in DOMAIN u THEN u.abs ELSE @,
            !.cleared = @ /\ DOMAIN u \intersect {"pct", "abs"} = {}]

(***************************************************************************)
(* pricealert.Evaluate on a state s = [base, alerted] and a threshold      *)
(* t = [pct, abs]: the baseline follows the running high-water mark, and a *)
(* fall past the threshold alerts only strictly below the last alert.      *)
(***************************************************************************)
EffectivePct(t) == IF t.pct <= 0 /\ t.abs <= 0 THEN DefaultDropPct ELSE t.pct

MeetsThreshold(s, price, t) ==
  \/ EffectivePct(t) > 0 /\ (s.base - price) * 100 >= EffectivePct(t) * s.base
  \/ t.abs > 0 /\ s.base - price >= t.abs

AlertFires(s, price, t) ==
  /\ s.base > 0 /\ price < s.base
  /\ MeetsThreshold(s, price, t)
  /\ s.alerted <= 0 \/ price < s.alerted

Evaluate(s, price, t) ==
  CASE s.base <= 0 \/ price >= s.base -> [base |-> price, alerted |-> 0]
    [] AlertFires(s, price, t)        -> [s EXCEPT !.alerted = price]
    [] OTHER                          -> s

(***************************************************************************)
(* The fold of a quote into the committed record.  Every decision reads    *)
(* the record w as reloaded inside the transaction.                        *)
(***************************************************************************)
Mismatch(w, cur) ==
  /\ cur # NoCur
  /\ \/ w.cur # NoCur /\ w.cur # cur
     \/ w.cur = NoCur /\ HasPrior(w)

Changed(w, cur) == Mismatch(w, cur) /\ HasPrior(w)

\* Consecutive polls that disagree on the currency (flights and hotels only).
Dissent(w, cur) == IF w.pend = cur THEN w.polls + 1 ELSE 1

\* Mutant: the first dissent already takes the target.
PendedEager(w, cur) ==
  IF Changed(w, cur)
  THEN [w EXCEPT !.pend = cur, !.polls = Dissent(w, cur), !.below = 0]
  ELSE [w EXCEPT !.pend = NoCur, !.polls = 0]

Pended(w, cur) ==
  IF Changed(w, cur)
  THEN [w EXCEPT !.pend = cur, !.polls = Dissent(w, cur)]
  ELSE [w EXCEPT !.pend = NoCur, !.polls = 0]

Unconfirmed(w, cur) == Changed(w, cur) /\ Dissent(w, cur) < ConfirmPolls

\* A new currency drops the thresholds and the state denominated in the old one.
Threshold(w, cur) == [pct |-> w.pct, abs |-> IF Mismatch(w, cur) THEN 0 ELSE w.abs]

\* Mutant: the high-water mark outlives the currency.
AlertStateKept(w, cur) == [base |-> w.base, alerted |-> w.alerted]

AlertState(w, cur) == IF Changed(w, cur) THEN [base |-> 0, alerted |-> 0]
                      ELSE [base |-> w.base, alerted |-> w.alerted]

\* Mutant: nothing remembers that the sole threshold was force-cleared.
ClearedNever(w, cur) == w.cleared

Cleared(w, cur) == w.cleared \/ (Mismatch(w, cur) /\ w.abs > 0 /\ w.pct <= 0)
Lowest(w, price, cur) ==
  IF Changed(w, cur) \/ w.low = 0 \/ price < w.low THEN price ELSE w.low

\* Round 17: a force-cleared sole threshold suspends alerting altogether.
Suspended(w, cur) ==
  Cleared(w, cur) /\ Threshold(w, cur).pct <= 0 /\ Threshold(w, cur).abs <= 0

Observed(w, price, cur) ==
  [w EXCEPT !.last = price, !.cur = cur, !.low = Lowest(w, price, cur),
            !.below = IF Mismatch(w, cur) THEN 0 ELSE @,
            !.abs = Threshold(w, cur).abs,
            !.base = AlertState(w, cur).base,
            !.alerted = AlertState(w, cur).alerted]

\* Mutant: the fall is measured from a price in the former currency.
DropUnmasked(w, price, cur) == IF w.last > 0 THEN price - w.last ELSE 0

\* What a poll tells its caller.
Drop(w, price, cur) == IF w.last > 0 /\ ~Changed(w, cur) THEN price - w.last ELSE 0
Goal(w, price, cur) == ~Mismatch(w, cur) /\ w.below > 0 /\ price <= w.below

\* Mutant: a loss is reported only when observations were lost with it.
LostIfChanged(w, cur) == Changed(w, cur) /\ (w.below > 0 \/ w.abs > 0)

Lost(w, cur) == Mismatch(w, cur) /\ (w.below > 0 \/ w.abs > 0)
Signals(w, price, cur, alert) ==
  [purge |-> Changed(w, cur), point |-> TRUE,
   drop  |-> Drop(w, price, cur), goal |-> Goal(w, price, cur),
   lost  |-> Lost(w, cur), alert |-> alert]
Suspicious(w) ==
  [purge |-> FALSE, point |-> FALSE, drop |-> 0,
   goal |-> FALSE, lost |-> FALSE, alert |-> FALSE]

FoldFlight(w, price, cur) ==
  LET s == AlertState(w, cur)
      t == Threshold(w, cur)
      e == IF Suspended(w, cur) THEN s ELSE Evaluate(s, price, t)
  IN IF Unconfirmed(w, cur)
     THEN [rec |-> Pended(w, cur), out |-> Suspicious(w)]
     ELSE [rec |-> [Observed(Pended(w, cur), price, cur) EXCEPT
                      !.cleared = Cleared(w, cur),
                      !.base = e.base, !.alerted = e.alerted],
           out |-> Signals(w, price, cur,
                     ~Suspended(w, cur) /\ AlertFires(s, price, t))]

\* Mutant: the purge of the former currency's points is forgotten.
FoldRoomUnpurged(w, price, cur) ==
  [rec |-> Observed(w, price, cur),
   out |-> [Signals(w, price, cur, FALSE) EXCEPT !.purge = FALSE]]

\* A room adopts a currency at once, and has no drop alerts.
FoldRoom(w, price, cur) ==
  [rec |-> Observed(w, price, cur), out |-> Signals(w, price, cur, FALSE)]

Fold(w, price, cur) ==
  IF IsRoom(w) THEN FoldRoom(w, price, cur) ELSE FoldFlight(w, price, cur)
=============================================================================
