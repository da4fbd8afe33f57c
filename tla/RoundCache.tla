------------------------------ MODULE RoundCache ------------------------------
(***************************************************************************)
(* One bounded check round (CheckAllBounded, check.go): a goroutine per    *)
(* watch, at most Slots of them past the semaphore, each with a deadline   *)
(* of its own, all under the caller's context; and the single-flight cache *)
(* of the round (pollcache.go), through which watches with one poll        *)
(* identity share one provider call.                                       *)
(*                                                                         *)
(* A store holds one watch per target, so shared identities occur where    *)
(* duplicates of older binaries have not been migrated away.               *)
(***************************************************************************)
EXTENDS Naturals, FiniteSets

CONSTANTS
  Watches,   \* goroutines: positions of store.List()
  PollKeys,
  KeyOf,     \* pollKey of each watch
  Rooms,     \* room watches, for which a bounded round has no checker
  Slots,     \* BoundedOptions.Concurrency
  Prices,    \* prices a provider may answer with, 0 for "no results"
  NoWatch

ASSUME RoundAssumption ==
  /\ KeyOf \in [Watches -> PollKeys]
  /\ Slots \in Nat \ {0} /\ Rooms \subseteq Watches
  /\ IsFiniteSet(Watches) /\ NoWatch \notin Watches

Errors == {"failed", "deadline", "cancelled", "unconfigured"}

VARIABLES
  at,       \* where each goroutine is
  leader,   \* entries: the watch whose goroutine registered the key
  final,    \* e.done is closed, and what e holds then
  expired,  \* the deadline of a watch has passed
  gone,     \* the caller's context is cancelled
  result,   \* what results[i] is made from
  asked     \* history variable: provider calls made for a key

roundVars == <<at, leader, final, expired, gone, result, asked>>

NoResult == [kind |-> "none"]
Price(n) == [kind |-> "price", price |-> n]
Error(e) == [kind |-> "error", error |-> e]

RoundInit ==
  /\ at = [w \in Watches |-> "queued"]
  /\ leader = [k \in PollKeys |-> NoWatch]
  /\ final = [k \in PollKeys |-> NoResult]
  /\ expired = [w \in Watches |-> FALSE]
  /\ gone = FALSE
  /\ result = [w \in Watches |-> NoResult]
  /\ asked = [k \in PollKeys |-> 0]

\* Goroutines that hold a slot.
Inside == {w \in Watches : at[w] \in {"inside", "calling", "following", "leaving"}}

\* checkCtx of a watch is done, and with which error.
CtxErrors(w) == (IF expired[w] THEN {"deadline"} ELSE {})
                  \union (IF gone THEN {"cancelled"} ELSE {})

MoveTo(w, label) == at' = [at EXCEPT ![w] = label]

-----------------------------------------------------------------------------
(* A slot is free.                                                          *)
Enter(w) ==
  /\ at[w] = "queued" /\ Cardinality(Inside) < Slots
  /\ MoveTo(w, "inside")
  /\ UNCHANGED <<leader, final, expired, gone, result, asked>>

\* Mutant: the goroutine returns without a result.
TurnSilently(w) ==
  /\ at[w] = "queued" /\ gone
  /\ MoveTo(w, "returned")
  /\ UNCHANGED <<leader, final, expired, gone, result, asked>>

(* The caller gave up before this watch got a slot.                         *)
Turn(w) ==
  /\ at[w] = "queued" /\ gone
  /\ result' = [result EXCEPT ![w] = Error("cancelled")]
  /\ MoveTo(w, "returned")
  /\ UNCHANGED <<leader, final, expired, gone, asked>>

\* Mutant: the entry is registered only when the call has returned.
LeadUnregistered(w) ==
  /\ at[w] = "inside" /\ w \notin Rooms /\ leader[KeyOf[w]] = NoWatch
  /\ asked' = [asked EXCEPT ![KeyOf[w]] = @ + 1]
  /\ MoveTo(w, "calling")
  /\ UNCHANGED <<leader, final, expired, gone, result>>

(* "room checker not configured", rather than silence.                      *)
Refuse(w) ==
  /\ at[w] = "inside" /\ w \in Rooms
  /\ result' = [result EXCEPT ![w] = Error("unconfigured")]
  /\ MoveTo(w, "leaving")
  /\ UNCHANGED <<leader, final, expired, gone, asked>>

(* The first to ask for a key registers it and calls the provider.          *)
Lead(w) ==
  /\ at[w] = "inside" /\ w \notin Rooms /\ leader[KeyOf[w]] = NoWatch
  /\ leader' = [leader EXCEPT ![KeyOf[w]] = w]
  /\ asked' = [asked EXCEPT ![KeyOf[w]] = @ + 1]
  /\ MoveTo(w, "calling")
  /\ UNCHANGED <<final, expired, gone, result>>

\* Mutant: a watch whose target is being asked about is turned away.
FollowTurnedAway(w) ==
  /\ at[w] = "inside" /\ w \notin Rooms /\ leader[KeyOf[w]] # NoWatch
  /\ result' = [result EXCEPT ![w] = Error("failed")]
  /\ MoveTo(w, "leaving")
  /\ UNCHANGED <<leader, final, expired, gone, asked>>

Follow(w) ==
  /\ at[w] = "inside" /\ w \notin Rooms /\ leader[KeyOf[w]] # NoWatch
  /\ MoveTo(w, "following")
  /\ UNCHANGED <<leader, final, expired, gone, result, asked>>

\* What a provider call may return: a price, a failure of its own, or, once
\* its context is done, that.
Returns(w) == {Price(n) : n \in Prices} \union {Error("failed")}
                \union {Error(e) : e \in CtxErrors(w)}

\* Mutant: e.done is left open when the provider failed.
CallReturnsOpen(w) ==
  /\ at[w] = "calling"
  /\ \E r \in Returns(w) :
       /\ final' = IF r.kind = "price" THEN [final EXCEPT ![KeyOf[w]] = r] ELSE final
       /\ result' = [result EXCEPT ![w] = r]
  /\ MoveTo(w, "leaving")
  /\ UNCHANGED <<leader, expired, gone, asked>>

CallReturns(w) ==
  /\ at[w] = "calling"
  /\ \E r \in Returns(w) :
       /\ final' = [final EXCEPT ![KeyOf[w]] = r]
       /\ result' = [result EXCEPT ![w] = r]
  /\ MoveTo(w, "leaving")
  /\ UNCHANGED <<leader, expired, gone, asked>>

\* Mutant: a follower reads the entry without waiting for it.
ShareEarly(w) ==
  /\ at[w] = "following"
  /\ result' = [result EXCEPT ![w] = IF final[KeyOf[w]] = NoResult THEN Price(0)
                                     ELSE final[KeyOf[w]]]
  /\ MoveTo(w, "leaving")
  /\ UNCHANGED <<leader, final, expired, gone, asked>>

(* A follower takes what the leader left, error or price ...                *)
Share(w) ==
  /\ at[w] = "following" /\ final[KeyOf[w]] # NoResult
  /\ result' = [result EXCEPT ![w] = final[KeyOf[w]]]
  /\ MoveTo(w, "leaving")
  /\ UNCHANGED <<leader, final, expired, gone, asked>>

(* ... or its own context ends first.                                       *)
Abandon(w) ==
  /\ at[w] = "following"
  /\ \E e \in CtxErrors(w) : result' = [result EXCEPT ![w] = Error(e)]
  /\ MoveTo(w, "leaving")
  /\ UNCHANGED <<leader, final, expired, gone, asked>>

(* The answer is folded into the store (WatchPolls) and the slot given back.*)
Leave(w) ==
  /\ at[w] = "leaving"
  /\ MoveTo(w, "returned")
  /\ UNCHANGED <<leader, final, expired, gone, result, asked>>

(* The clock: a deadline runs while its watch has a slot.                   *)
Deadline(w) ==
  /\ w \in Inside /\ ~expired[w]
  /\ expired' = [expired EXCEPT ![w] = TRUE]
  /\ UNCHANGED <<at, leader, final, gone, result, asked>>

CancelCaller ==
  /\ ~gone /\ \E w \in Watches : at[w] # "returned"
  /\ gone' = TRUE
  /\ UNCHANGED <<at, leader, final, expired, result, asked>>

\* wg.Wait has returned.
Over == (\A w \in Watches : at[w] = "returned") /\ UNCHANGED roundVars

Go(w) == Enter(w) \/ Turn(w) \/ Refuse(w) \/ Lead(w) \/ Follow(w) \/ CallReturns(w)
           \/ Share(w) \/ Abandon(w) \/ Leave(w)

RoundNext == (\E w \in Watches : Go(w) \/ Deadline(w)) \/ CancelCaller \/ Over

(* A goroutine that can go on goes on; a provider call ends, because it is  *)
(* given a context that does.  A channel send takes turns, hence SF.        *)
FairRound ==
  /\ RoundInit /\ [][RoundNext]_roundVars
  /\ \A w \in Watches : WF_roundVars(Go(w)) /\ SF_roundVars(Enter(w))

RoundSpec == RoundInit /\ [][RoundNext]_roundVars

-----------------------------------------------------------------------------
(***************************************************************************)
(* RoundTypeOK: a goroutine has a result exactly when it has left the      *)
(* cache.                                                                  *)
(***************************************************************************)
Results == {Price(n) : n \in Prices} \union {Error(e) : e \in Errors}

RoundTypeOK ==
  /\ at \in [Watches -> {"queued", "inside", "calling", "following", "leaving", "returned"}]
  /\ leader \in [PollKeys -> Watches \union {NoWatch}]
  /\ final \in [PollKeys -> Results \union {NoResult}]
  /\ expired \in [Watches -> BOOLEAN] /\ gone \in BOOLEAN
  /\ asked \in [PollKeys -> Nat]
  /\ result \in [Watches -> Results \union {NoResult}]
  /\ \A w \in Watches : (result[w] # NoResult) = (at[w] \in {"leaving", "returned"})

(***************************************************************************)
(* OneCallPerTarget: "One provider call per distinct polled target for the *)
(* whole round" (check.go:163), however the goroutines interleave.         *)
(***************************************************************************)
OneCallPerTarget == \A k \in PollKeys : asked[k] <= 1

(***************************************************************************)
(* PricesAgree: watches with one poll identity never report different      *)
(* prices of one round, and a reported price is one a provider gave -- a   *)
(* follower never shows the zero of an entry that is not final.            *)
(***************************************************************************)
PricesAgree ==
  \A w \in Watches : result[w].kind = "price" => final[KeyOf[w]] = result[w]

(***************************************************************************)
(* NothingLost: a watch is reported as not checked only because its own    *)
(* deadline passed, the caller gave up, or the one call for its target     *)
(* failed -- a price that came in time reaches every follower still there. *)
(***************************************************************************)
NothingLost ==
  \A w \in Watches \ Rooms : result[w].kind = "error" =>
    expired[w] \/ gone \/ final[KeyOf[w]].kind = "error"

(***************************************************************************)
(* RoundReturns: the round returns to its caller as soon as the providers  *)
(* have answered, with no deadline needed to free it -- no goroutine waits *)
(* for ever for a slot or for a leader, also with a single slot.           *)
(***************************************************************************)
RoundReturns == <>(\A w \in Watches : at[w] = "returned")
=============================================================================
