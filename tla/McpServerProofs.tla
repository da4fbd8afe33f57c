---------------------------- MODULE McpServerProofs ----------------------------
(***************************************************************************)
(* The safety of the MCP server for any numbers of calls, streams,         *)
(* cancellations and slots.  The inductive invariant has four parts that   *)
(* do not need each other: who holds a slot, who is registered for an      *)
(* answer, which streams are told of a change, and what the WaitGroup of   *)
(* ServeStdio counts.                                                      *)
(***************************************************************************)
EXTENDS McpServer, FiniteSetTheorems, TLAPS

CallStages == {"unsent", "queued", "running", "waiting", "notifying", "replying", "replied"}
StreamStages == {"unsent", "dispatched", "registered", "acknowledged", "ready", "left"}
CancelStages == {"unsent", "dispatched", "closing", "over"}

\* The types alone.
Typed ==
  /\ transport \in {"stdio", "http"} /\ input \in {"open", "ended"} /\ serving \in BOOLEAN
  /\ handlers \in Int /\ nano \in Nanos /\ slots \in Int
  /\ at \in [Calls -> CallStages]
  /\ targets \in [Calls -> SUBSET Listens]
  /\ question \in [Calls -> Nanos \union {0}] /\ pending \in [Nanos -> Calls \union {NoCall}]
  /\ inbox \in [Calls -> Calls \union {NoCall}]
  /\ stream \in [Listens -> StreamStages]
  /\ listens \subseteq Listens /\ gone \subseteq Listens
  /\ cancel \in [Cancels -> CancelStages]
  /\ took \in [Cancels -> Listens \union {NoStream}]
  /\ updated \subseteq Listens /\ finished \subseteq Listens \union {NoStream}

SlotsHeld == slots = Cardinality(Inside) /\ slots <= Slots

\* Whoever is registered under an id waits for the answer to it.
PendingWaits ==
  \A n \in Nanos : pending[n] # NoCall =>
    at[pending[n]] = "waiting" /\ question[pending[n]] = n

WaitingAsks == \A c \in Calls : at[c] = "waiting" => question[c] # 0

\* Only streams that are, or were, ready are told of a change.
ToldReady ==
  /\ \A c \in Calls : \A l \in targets[c] : stream[l] \in {"ready", "left"}
  /\ \A l \in updated : stream[l] \in {"ready", "left"}

\* Requests whose goroutine has not ended.
BusyCalls == {c \in Calls : at[c] \notin {"unsent", "replied"}}
BusyListens ==
  {l \in Listens : \/ stream[l] \in {"dispatched", "registered", "acknowledged"}
                   \/ transport = "http" /\ stream[l] = "ready"}
BusyCancels == {k \in Cancels : cancel[k] \in {"dispatched", "closing"}}

Counted ==
  /\ IsFiniteSet(BusyCalls) /\ IsFiniteSet(BusyListens) /\ IsFiniteSet(BusyCancels)
  /\ handlers = Cardinality(BusyCalls) + Cardinality(BusyListens) + Cardinality(BusyCancels)

\* Only stdin ends, and only HTTP clients leave; the server stops at its end.
Ends ==
  /\ transport = "http" => input = "open"
  /\ input = "open" => serving
  /\ gone # {} => transport = "http"
  /\ \A l \in Listens : stream[l] = "left" => transport = "http"

-----------------------------------------------------------------------------
(* A finite set counts one more, or one less.                               *)
LEMMA OneMore ==
  ASSUME NEW S, IsFiniteSet(S), NEW x, x \notin S
  PROVE IsFiniteSet(S \union {x}) /\ Cardinality(S \union {x}) = Cardinality(S) + 1
BY FS_AddElement

(* A finite set without one of its members has one member less.             *)
LEMMA OneLess ==
  ASSUME NEW S, IsFiniteSet(S), NEW x \in S
  PROVE IsFiniteSet(S \ {x}) /\ Cardinality(S \ {x}) = Cardinality(S) - 1
BY FS_RemoveElement

(* Finitely many calls run a tool.                                          *)
LEMMA InsideFinite == IsFiniteSet(Inside) /\ Cardinality(Inside) \in Nat
<1>1. Inside \subseteq Calls
  BY DEF Inside
<1>2. IsFiniteSet(Inside)
  BY <1>1, McpAssumption, FS_Subset
<1> QED BY <1>2, FS_CardinalityType

-----------------------------------------------------------------------------
(* Types.                                                                   *)
LEMMA TypedInit == Init => Typed
<1> SUFFICES ASSUME Init PROVE Typed
  OBVIOUS
<1>1. 1 \in Nanos
  BY McpAssumption DEF Nanos
<1>2. serving \in BOOLEAN
  BY DEF Init
<1> QED BY <1>1, <1>2, McpAssumption DEF Init, Typed, CallStages, StreamStages, CancelStages

(* No action leaves the types.                                              *)
LEMMA TypedStep == Typed /\ [Next]_vars => Typed'
<1> SUFFICES ASSUME Typed, [Next]_vars PROVE Typed'
  OBVIOUS
<1>0. \A n \in Nanos : n \in Int /\ n # 0
  BY McpAssumption DEF Nanos
<1> USE <1>0, McpAssumption DEF CallStages, StreamStages, CancelStages, Step, Flow, Dispatch, Done, Release,
    callVars, askVars, streamVars, cancelVars, seen, loop
<1>1. ASSUME NEW c \in Calls,
             Call(c) \/ Enter(c) \/ GiveUpQueue(c) \/ Finish(c) \/ Told(c) \/ Reply(c)
      PROVE Typed'
  BY <1>1 DEF Call, Enter, GiveUpQueue, Finish, Told, Reply, Typed
<1>2. ASSUME NEW c \in Calls, Succeed(c) PROVE Typed'
  <2>1. {l \in listens : stream[l] = "ready"} \in SUBSET Listens
    BY DEF Typed
  <2> QED BY <1>2, <2>1 DEF Succeed, Snapshot, Typed
<1>3. ASSUME NEW c \in Calls, NEW l \in Listens, Emit(c, l) PROVE Typed'
  BY <1>3 DEF Emit, Typed
<1>4. ASSUME NEW c \in Calls, Ask(c) PROVE Typed'
  BY <1>4 DEF Ask, Typed
<1>5. ASSUME NEW c \in Calls, Hear(c) \/ NoAnswer(c) PROVE Typed'
  BY <1>5 DEF Hear, NoAnswer, Unregister, Typed
<1>6. ASSUME NEW c \in Calls, Answer(c) PROVE Typed'
  BY <1>6 DEF Answer, Deliver, Recipients, Typed
<1>7. ASSUME NEW l \in Listens,
             Listen(l) \/ OpenListen(l) \/ Acknowledge(l) \/ MarkListenReady(l)
      PROVE Typed'
  BY <1>7 DEF Listen, OpenListen, Acknowledge, MarkListenReady, Typed
<1>8. ASSUME NEW l \in Listens, CloseListen(l) \/ Disconnect(l) PROVE Typed'
  BY <1>8 DEF CloseListen, Disconnect, Typed
<1>9. ASSUME NEW k \in Cancels, Cancel(k) \/ TakeListen(k) \/ CancelNothing(k) PROVE Typed'
  BY <1>9 DEF Cancel, TakeListen, Taken, Named, CancelNothing, Typed
<1>10. ASSUME NEW k \in Cancels, FinishStream(k) PROVE Typed'
  BY <1>10 DEF FinishStream, Typed
<1>11. CASE Tick \/ EndOfInput \/ StopServing
  <2>1. CASE Tick
    BY <2>1 DEF Tick, Nanos, Typed
  <2>2. CASE EndOfInput \/ StopServing
    BY <2>2 DEF EndOfInput, StopServing, Typed
  <2> QED BY <1>11, <2>1, <2>2
<1>12. CASE UNCHANGED vars
  BY <1>12 DEF vars, Typed
<1> QED
  BY <1>1, <1>2, <1>3, <1>4, <1>5, <1>6, <1>7, <1>8, <1>9, <1>10, <1>11, <1>12
  DEF Next, CallStep, StreamStep, CancelStep

-----------------------------------------------------------------------------
(* Slots: a call has one from Enter to the deferred release.                *)
LEMMA SlotsInit == Init => SlotsHeld
<1> SUFFICES ASSUME Init PROVE SlotsHeld
  OBVIOUS
<1>1. Inside = {}
  BY DEF Init, Inside
<1> QED BY <1>1, FS_EmptySet, McpAssumption DEF Init, SlotsHeld

(* A step takes a slot for a call that comes in and frees it for one that   *)
(* goes.                                                                    *)
LEMMA SlotsStep == Typed /\ SlotsHeld /\ [Next]_vars => SlotsHeld'
<1> SUFFICES ASSUME Typed, SlotsHeld, [Next]_vars PROVE SlotsHeld'
  OBVIOUS
<1>0. slots \in Nat /\ IsFiniteSet(Inside)
  BY InsideFinite DEF SlotsHeld
<1>1. ASSUME UNCHANGED slots, Inside' = Inside PROVE SlotsHeld'
  BY <1>1 DEF SlotsHeld
<1>2. ASSUME NEW c \in Calls, Enter(c) PROVE SlotsHeld'
  <2>1. c \notin Inside /\ Inside' = Inside \union {c}
    BY <1>2 DEF Enter, Step, Inside, Typed
  <2>2. slots' = slots + 1 /\ slots < Slots
    BY <1>2 DEF Enter
  <2>3. Cardinality(Inside') = Cardinality(Inside) + 1
    BY <1>0, <2>1, OneMore
  <2> QED BY <1>0, <2>2, <2>3, McpAssumption DEF SlotsHeld
<1>3. ASSUME NEW c \in Calls, Finish(c) \/ Told(c) PROVE SlotsHeld'
  <2>1. c \in Inside /\ Inside' = Inside \ {c}
    BY <1>3 DEF Finish, Told, Step, Inside, Typed
  <2>2. slots' = slots - 1
    BY <1>3 DEF Finish, Told, Release
  <2>3. Cardinality(Inside') = Cardinality(Inside) - 1
    BY <1>0, <2>1, OneLess
  <2> QED BY <1>0, <2>2, <2>3, McpAssumption DEF SlotsHeld
<1>4. ASSUME NEW c \in Calls,
             Call(c) \/ GiveUpQueue(c) \/ Reply(c) \/ Succeed(c) \/ Ask(c) \/ Hear(c) \/ NoAnswer(c)
      PROVE SlotsHeld'
  <2>1. Inside' = Inside /\ UNCHANGED slots
    BY <1>4 DEF Call, GiveUpQueue, Reply, Succeed, Ask, Hear, NoAnswer, Step, Inside, Typed
  <2> QED BY <1>1, <2>1
<1>5. ASSUME UNCHANGED <<at, slots>> PROVE SlotsHeld'
  BY <1>1, <1>5 DEF Inside
<1>6. ASSUME NEW c \in Calls, Answer(c) \/ (\E l \in Listens : Emit(c, l)) PROVE SlotsHeld'
  BY <1>5, <1>6 DEF Answer, Emit, callVars
<1>7. ASSUME NEW l \in Listens, Listen(l) \/ StreamStep(l) \/ Disconnect(l) PROVE SlotsHeld'
  BY <1>5, <1>7 DEF Listen, StreamStep, OpenListen, Acknowledge, MarkListenReady, CloseListen,
    Disconnect, callVars
<1>8. ASSUME NEW k \in Cancels, Cancel(k) \/ CancelStep(k) PROVE SlotsHeld'
  BY <1>5, <1>8 DEF Cancel, CancelStep, TakeListen, CancelNothing, FinishStream, callVars
<1>9. CASE Tick \/ EndOfInput \/ StopServing \/ UNCHANGED vars
  BY <1>5, <1>9 DEF Tick, EndOfInput, StopServing, vars, callVars
<1> QED BY <1>2, <1>3, <1>4, <1>6, <1>7, <1>8, <1>9 DEF Next, CallStep

-----------------------------------------------------------------------------
(* Answers.  Whoever is registered waits, and asks under that very id, so   *)
(* that a delivery fills one empty channel.                                 *)
Answers == PendingWaits /\ WaitingAsks /\ AnswersRouted

(* At the start nobody is registered.                                       *)
LEMMA AnswersInit == Init => Answers
BY McpAssumption DEF Init, Answers, PendingWaits, WaitingAsks, AnswersRouted, RoomForAnswer,
  OwnAnswer, Nanos

(* Registration, delivery and removal keep waiters and ids together.        *)
LEMMA AnswersStep == Typed /\ Answers /\ [Next]_vars => Answers'
<1> SUFFICES ASSUME Typed, Answers, [Next]_vars PROVE Answers'
  OBVIOUS
<1> USE DEF Answers, PendingWaits, WaitingAsks, AnswersRouted, RoomForAnswer, OwnAnswer
<1>0. NoCall \notin Calls /\ \A n \in Nanos : n \in Int /\ n # 0
  BY McpAssumption DEF Nanos
<1>1. ASSUME UNCHANGED askVars, \A c \in Calls : at[c] = "waiting" <=> at'[c] = "waiting"
      PROVE Answers'
  BY <1>1 DEF askVars, Typed
<1>2. ASSUME NEW c \in Calls,
             Call(c) \/ Enter(c) \/ GiveUpQueue(c) \/ Finish(c) \/ Succeed(c) \/ Told(c) \/ Reply(c)
      PROVE Answers'
  <2>1. UNCHANGED askVars /\ \A d \in Calls : at[d] = "waiting" <=> at'[d] = "waiting"
    BY <1>2 DEF Call, Enter, GiveUpQueue, Finish, Succeed, Told, Reply, Step, Typed
  <2> QED BY <1>1, <2>1
<1>3. ASSUME NEW c \in Calls, Ask(c) PROVE Answers'
  <2>1. at[c] = "running" /\ question[c] = 0 /\ at' = [at EXCEPT ![c] = "waiting"]
    BY <1>3 DEF Ask, Step
  <2>2. /\ nano \in Nanos /\ UNCHANGED inbox
        /\ question' = [question EXCEPT ![c] = nano] /\ pending' = [pending EXCEPT ![nano] = c]
    BY <1>3 DEF Ask, Typed
  <2>3. inbox[c] = NoCall /\ \A n \in Nanos : pending[n] # c
    BY <1>0, <2>1
  <2>4. \A d \in Calls : inbox[d] # NoCall => inbox[d] \in Calls /\ inbox[d] # c /\ d # c
    BY <1>0, <2>1, <2>3 DEF Typed
  <2>5. PendingWaits' /\ WaitingAsks' /\ RoomForAnswer'
    BY <1>0, <2>1, <2>2, <2>3, <2>4 DEF Typed
  <2>6. OwnAnswer'
    BY <1>0, <2>1, <2>2, <2>4 DEF Typed
  <2> QED BY <2>5, <2>6
<1>4. ASSUME NEW c \in Calls, Hear(c) \/ NoAnswer(c) PROVE Answers'
  <2>1. /\ at[c] = "waiting" /\ at' = [at EXCEPT ![c] = "running"] /\ UNCHANGED question
        /\ pending' = [pending EXCEPT ![question[c]] = NoCall]
        /\ inbox' = [inbox EXCEPT ![c] = NoCall]
    BY <1>4 DEF Hear, NoAnswer, Step, Unregister
  <2>2. question[c] \in Nanos
    BY <2>1 DEF Typed
  <2>3. \A n \in Nanos : pending'[n] # NoCall => pending'[n] = pending[n] /\ pending[n] # c
    BY <1>0, <2>1, <2>2 DEF Typed
  <2>4. PendingWaits' /\ WaitingAsks' /\ RoomForAnswer'
    BY <1>0, <2>1, <2>3 DEF Typed
  <2>5. OwnAnswer'
    BY <1>0, <2>1 DEF Typed
  <2> QED BY <2>4, <2>5
<1>5. ASSUME NEW c \in Calls, Answer(c) PROVE Answers'
  <2>1. UNCHANGED <<at, question>> /\ question[c] \in Nanos
    BY <1>5 DEF Answer, Typed, callVars
  <2>2. PICK d \in Recipients(c) : Deliver(c, d)
    BY <1>5 DEF Answer
  <2>3. d \in Calls /\ d = pending[question[c]] /\ at[d] = "waiting" /\ question[d] = question[c]
    BY <1>0, <2>1, <2>2 DEF Recipients, Typed
  <2>4. /\ inbox' = [inbox EXCEPT ![d] = c]
        /\ pending' = [pending EXCEPT ![question[c]] = NoCall]
    BY <2>2 DEF Deliver
  <2>5. \A n \in Nanos : pending'[n] # NoCall => pending'[n] = pending[n] /\ pending[n] # d
    BY <1>0, <2>1, <2>3, <2>4 DEF Typed
  <2>6. PendingWaits' /\ WaitingAsks' /\ RoomForAnswer'
    BY <1>0, <2>1, <2>3, <2>4, <2>5 DEF Typed
  <2>7. OwnAnswer'
    BY <1>0, <2>1, <2>3, <2>4 DEF Typed
  <2> QED BY <2>6, <2>7
<1>6. ASSUME UNCHANGED <<at, askVars>> PROVE Answers'
  BY <1>1, <1>6
<1>7. ASSUME NEW c \in Calls, NEW l \in Listens, Emit(c, l) PROVE Answers'
  BY <1>6, <1>7 DEF Emit
<1>8. ASSUME NEW l \in Listens, Listen(l) \/ StreamStep(l) \/ Disconnect(l) PROVE Answers'
  <2>1. UNCHANGED <<at, askVars>>
    BY <1>8 DEF Listen, StreamStep, OpenListen, Acknowledge, MarkListenReady, CloseListen,
      Disconnect, callVars
  <2> QED BY <1>6, <2>1
<1>9. ASSUME NEW k \in Cancels, Cancel(k) \/ CancelStep(k) PROVE Answers'
  <2>1. UNCHANGED <<at, askVars>>
    BY <1>9 DEF Cancel, CancelStep, TakeListen, CancelNothing, FinishStream, callVars
  <2> QED BY <1>6, <2>1
<1>10. CASE Tick \/ EndOfInput \/ StopServing \/ UNCHANGED vars
  <2>1. UNCHANGED <<at, askVars>>
    BY <1>10 DEF Tick, EndOfInput, StopServing, vars, callVars
  <2> QED BY <1>6, <2>1
<1> QED BY <1>2, <1>3, <1>4, <1>5, <1>7, <1>8, <1>9, <1>10 DEF Next, CallStep

-----------------------------------------------------------------------------
(* Updates: a stream that is ready never goes back.                         *)
LEMMA ToldStep == Typed /\ ToldReady /\ [Next]_vars => ToldReady'
<1> SUFFICES ASSUME Typed, ToldReady, [Next]_vars PROVE ToldReady'
  OBVIOUS
<1>1. ASSUME UNCHANGED <<targets, updated>>,
             \A l \in Listens : stream[l] \in {"ready", "left"} => stream'[l] \in {"ready", "left"}
      PROVE ToldReady'
  BY <1>1 DEF ToldReady, Typed
<1>2. ASSUME NEW c \in Calls, Succeed(c) PROVE ToldReady'
  BY <1>2 DEF Succeed, Snapshot, streamVars, seen, ToldReady, Typed
<1>3. ASSUME NEW c \in Calls, NEW l \in Listens, Emit(c, l) PROVE ToldReady'
  BY <1>3 DEF Emit, streamVars, ToldReady, Typed
<1>4. ASSUME NEW l \in Listens, Listen(l) \/ StreamStep(l) \/ Disconnect(l) PROVE ToldReady'
  <2>1. UNCHANGED <<targets, updated>>
    BY <1>4 DEF Listen, StreamStep, OpenListen, Acknowledge, MarkListenReady, CloseListen,
      Disconnect, callVars, seen
  <2>2. \A m \in Listens : stream[m] \in {"ready", "left"} => stream'[m] \in {"ready", "left"}
    BY <1>4 DEF Listen, StreamStep, OpenListen, Acknowledge, MarkListenReady, CloseListen,
      Disconnect, Flow, Typed
  <2> QED BY <1>1, <2>1, <2>2
<1>5. ASSUME UNCHANGED <<targets, updated, stream>> PROVE ToldReady'
  BY <1>1, <1>5
<1>6. ASSUME NEW c \in Calls,
             \/ Call(c) \/ Enter(c) \/ GiveUpQueue(c) \/ Finish(c) \/ Told(c) \/ Reply(c)
             \/ Ask(c) \/ Hear(c) \/ NoAnswer(c) \/ Answer(c)
      PROVE ToldReady'
  BY <1>5, <1>6 DEF Call, Enter, GiveUpQueue, Finish, Told, Reply, Ask, Hear, NoAnswer, Answer,
    callVars, streamVars, seen
<1>7. ASSUME NEW k \in Cancels, Cancel(k) \/ CancelStep(k) PROVE ToldReady'
  BY <1>5, <1>7 DEF Cancel, CancelStep, TakeListen, CancelNothing, FinishStream,
    callVars, streamVars, seen
<1>8. CASE Tick \/ EndOfInput \/ StopServing \/ UNCHANGED vars
  BY <1>5, <1>8 DEF Tick, EndOfInput, StopServing, vars, callVars, streamVars, seen
<1> QED BY <1>2, <1>3, <1>4, <1>6, <1>7, <1>8 DEF Next, CallStep

-----------------------------------------------------------------------------
(* The WaitGroup.  A goroutine is counted from before it exists until it    *)
(* ends, and nothing is read any more once the server waits for the rest.   *)
Serves == Counted /\ Ends /\ FlushedAtReturn

(* At the start no goroutine runs and the server reads.                     *)
LEMMA ServesInit == Init => Serves
<1> SUFFICES ASSUME Init PROVE Serves
  OBVIOUS
<1>1. BusyCalls = {} /\ BusyListens = {} /\ BusyCancels = {}
  BY DEF Init, BusyCalls, BusyListens, BusyCancels
<1>2. Counted
  BY <1>1, FS_EmptySet DEF Init, Counted
<1>3. Ends /\ FlushedAtReturn
  BY DEF Init, Ends, FlushedAtReturn
<1> QED BY <1>2, <1>3 DEF Serves

(* Nobody is busy at the return.                                            *)
LEMMA NobodyLeft ==
  ASSUME Typed, Counted, handlers = 0
  PROVE BusyCalls = {} /\ BusyListens = {} /\ BusyCancels = {}
<1>1. /\ Cardinality(BusyCalls) \in Nat /\ Cardinality(BusyListens) \in Nat
      /\ Cardinality(BusyCancels) \in Nat
  BY FS_CardinalityType DEF Counted
<1>2. Cardinality(BusyCalls) = 0 /\ Cardinality(BusyListens) = 0 /\ Cardinality(BusyCancels) = 0
  BY <1>1 DEF Counted
<1> QED BY <1>2, FS_EmptySet DEF Counted

(* No step starts a goroutine uncounted or ends one that is still counted.  *)
LEMMA ServesStep == Typed /\ Serves /\ [Next]_vars => Serves'
<1> SUFFICES ASSUME Typed, Serves, [Next]_vars PROVE Serves'
  OBVIOUS
<1> USE DEF Serves, Ends
<1>1. /\ Cardinality(BusyCalls) \in Int /\ Cardinality(BusyListens) \in Int
      /\ Cardinality(BusyCancels) \in Int /\ handlers \in Int
  BY FS_CardinalityType DEF Counted, Typed
(* Steps that begin or end no goroutine.                                    *)
<1>2. ASSUME UNCHANGED handlers, BusyCalls' = BusyCalls, BusyListens' = BusyListens,
             BusyCancels' = BusyCancels
      PROVE Counted'
  BY <1>2 DEF Counted
<1>3. ASSUME NEW c \in Calls,
             \/ Enter(c) \/ GiveUpQueue(c) \/ Finish(c) \/ Succeed(c) \/ Told(c) \/ Ask(c)
             \/ Hear(c) \/ NoAnswer(c) \/ Answer(c) \/ (\E l \in Listens : Emit(c, l))
      PROVE Serves'
  <2>1. /\ UNCHANGED <<loop, streamVars, cancelVars>> /\ BusyCalls' = BusyCalls
        /\ \A d \in Calls : at[d] \in {"unsent", "replied"} => at'[d] = at[d]
    BY <1>3 DEF Enter, GiveUpQueue, Finish, Succeed, Told, Ask, Hear, NoAnswer, Answer, Emit,
      Step, BusyCalls, callVars, Typed
  <2>2. BusyListens' = BusyListens /\ BusyCancels' = BusyCancels /\ UNCHANGED handlers
    BY <2>1 DEF BusyListens, BusyCancels, loop, streamVars, cancelVars
  <2>3. Counted'
    BY <1>2, <2>1, <2>2
  <2> QED BY <2>1, <2>3 DEF FlushedAtReturn, loop, streamVars, cancelVars
<1>4. ASSUME NEW l \in Listens, OpenListen(l) \/ Acknowledge(l) \/ Disconnect(l) PROVE Serves'
  <2>1. UNCHANGED <<loop, callVars, cancelVars>> /\ BusyListens' = BusyListens
    BY <1>4 DEF OpenListen, Acknowledge, Disconnect, Flow, BusyListens, loop, Typed
  <2>2. BusyCalls' = BusyCalls /\ BusyCancels' = BusyCancels /\ UNCHANGED handlers
    BY <2>1 DEF BusyCalls, BusyCancels, loop, callVars, cancelVars
  <2>3. Counted'
    BY <1>2, <2>1, <2>2
  <2>4. Ends'
    BY <1>4, <2>1 DEF OpenListen, Acknowledge, Disconnect, Flow, loop, Typed
  <2>5. FlushedAtReturn'
    BY <1>4, <2>1 DEF FlushedAtReturn, OpenListen, Acknowledge, Disconnect, Flow, loop,
      callVars, cancelVars, Typed
  <2> QED BY <2>3, <2>4, <2>5
<1>5. ASSUME NEW k \in Cancels, TakeListen(k) PROVE Serves'
  <2>1. UNCHANGED <<loop, callVars, stream, gone>> /\ BusyCancels' = BusyCancels
    BY <1>5 DEF TakeListen, BusyCancels, Typed
  <2>2. BusyCalls' = BusyCalls /\ BusyListens' = BusyListens /\ UNCHANGED handlers
    BY <2>1 DEF BusyCalls, BusyListens, loop, callVars
  <2>3. Counted'
    BY <1>2, <2>1, <2>2
  <2>4. FlushedAtReturn'
    BY <1>5, <2>1 DEF FlushedAtReturn, TakeListen, loop, callVars, Typed
  <2> QED BY <2>1, <2>3, <2>4 DEF loop
<1>6. CASE Tick \/ EndOfInput \/ StopServing \/ UNCHANGED vars
  <2>1. UNCHANGED <<transport, handlers, callVars, streamVars, cancelVars>>
    BY <1>6 DEF Tick, EndOfInput, StopServing, vars, loop
  <2>2. BusyCalls' = BusyCalls /\ BusyListens' = BusyListens /\ BusyCancels' = BusyCancels
    BY <2>1 DEF BusyCalls, BusyListens, BusyCancels, callVars, streamVars, cancelVars
  <2>3. Counted'
    BY <1>2, <2>1, <2>2
  <2>4. Ends'
    BY <1>6, <2>1 DEF Tick, EndOfInput, StopServing, vars, loop, streamVars
  <2>5. FlushedAtReturn'
    <3>1. CASE StopServing
      <4>1. BusyCalls = {} /\ BusyListens = {} /\ BusyCancels = {}
        BY <3>1, NobodyLeft DEF StopServing
      <4>2. transport = "stdio"
        BY <3>1 DEF StopServing, Typed
      <4>3. \A c \in Calls : at[c] \in {"unsent", "replied"}
        BY <4>1 DEF BusyCalls
      <4>4. \A l \in Listens : stream[l] \in {"unsent", "ready"}
        BY <4>1, <4>2 DEF BusyListens, Typed, StreamStages
      <4>5. \A k \in Cancels : cancel[k] \in {"unsent", "over"}
        BY <4>1 DEF BusyCancels, Typed, CancelStages
      <4> QED BY <2>1, <4>3, <4>4, <4>5 DEF FlushedAtReturn, callVars, streamVars, cancelVars
    <3>2. CASE Tick \/ EndOfInput \/ UNCHANGED vars
      BY <2>1, <3>2 DEF Tick, EndOfInput, vars, loop, FlushedAtReturn, callVars, streamVars, cancelVars
    <3> QED BY <1>6, <3>1, <3>2
  <2> QED BY <2>3, <2>4, <2>5
(* Steps that begin one.                                                    *)
<1>7. ASSUME Dispatch PROVE serving /\ UNCHANGED <<transport, input, serving>> /\ handlers' = handlers + 1
  BY <1>7 DEF Dispatch
<1>8. ASSUME NEW c \in Calls, Call(c) PROVE Serves'
  <2>1. c \notin BusyCalls /\ BusyCalls' = BusyCalls \union {c}
    BY <1>8 DEF Call, Step, BusyCalls, Typed
  <2>2. BusyListens' = BusyListens /\ BusyCancels' = BusyCancels
    BY <1>7, <1>8 DEF Call, BusyListens, BusyCancels, streamVars, cancelVars
  <2>3. Counted'
    BY <1>1, <1>7, <1>8, <2>1, <2>2, OneMore DEF Call, Counted
  <2> QED BY <1>7, <1>8, <2>3 DEF Call, FlushedAtReturn, streamVars
<1>9. ASSUME NEW l \in Listens, Listen(l) PROVE Serves'
  <2>1. l \notin BusyListens /\ BusyListens' = BusyListens \union {l}
    BY <1>7, <1>9 DEF Listen, Flow, BusyListens, Typed
  <2>2. BusyCalls' = BusyCalls /\ BusyCancels' = BusyCancels
    BY <1>9 DEF Listen, BusyCalls, BusyCancels, callVars, cancelVars
  <2>3. Counted'
    <3>1. IsFiniteSet(BusyListens') /\ Cardinality(BusyListens') = Cardinality(BusyListens) + 1
      BY <2>1, OneMore DEF Counted
    <3>2. handlers' = handlers + 1
      BY <1>7, <1>9 DEF Listen
    <3> QED BY <1>1, <2>2, <3>1, <3>2 DEF Counted
  <2> QED BY <1>7, <1>9, <2>3 DEF Listen, Flow, FlushedAtReturn, Typed
<1>10. ASSUME NEW k \in Cancels, Cancel(k) PROVE Serves'
  <2>1. k \notin BusyCancels /\ BusyCancels' = BusyCancels \union {k}
    BY <1>10 DEF Cancel, BusyCancels, Typed
  <2>2. BusyCalls' = BusyCalls /\ BusyListens' = BusyListens
    BY <1>7, <1>10 DEF Cancel, BusyCalls, BusyListens, callVars, streamVars
  <2>3. Counted'
    <3>1. IsFiniteSet(BusyCancels') /\ Cardinality(BusyCancels') = Cardinality(BusyCancels) + 1
      BY <2>1, OneMore DEF Counted
    <3>2. handlers' = handlers + 1
      BY <1>7, <1>10 DEF Cancel
    <3> QED BY <1>1, <2>2, <3>1, <3>2 DEF Counted
  <2> QED BY <1>7, <1>10, <2>3 DEF Cancel, FlushedAtReturn, streamVars
(* Steps that end one: the server still serves.                             *)
<1>11. ASSUME Done PROVE UNCHANGED <<transport, input, serving>> /\ handlers' = handlers - 1
  BY <1>11 DEF Done
<1>12. ASSUME NEW c \in Calls, Reply(c) PROVE Serves'
  <2>1. c \in BusyCalls /\ BusyCalls' = BusyCalls \ {c} /\ serving
    BY <1>12 DEF Reply, Step, BusyCalls, FlushedAtReturn, Typed
  <2>2. BusyListens' = BusyListens /\ BusyCancels' = BusyCancels
    BY <1>11, <1>12 DEF Reply, BusyListens, BusyCancels, streamVars, cancelVars
  <2>3. Counted'
    <3>1. IsFiniteSet(BusyCalls') /\ Cardinality(BusyCalls') = Cardinality(BusyCalls) - 1
      BY <2>1, OneLess DEF Counted
    <3>2. handlers' = handlers - 1
      BY <1>11, <1>12 DEF Reply
    <3> QED BY <1>1, <2>2, <3>1, <3>2 DEF Counted
  <2> QED BY <1>11, <1>12, <2>1, <2>3 DEF Reply, FlushedAtReturn, streamVars
<1>13. ASSUME NEW l \in Listens, MarkListenReady(l) PROVE Serves'
  <2>1. serving /\ BusyCalls' = BusyCalls /\ BusyCancels' = BusyCancels
    BY <1>13 DEF MarkListenReady, Flow, FlushedAtReturn, BusyCalls, BusyCancels, callVars, cancelVars
  <2>2. UNCHANGED <<transport, input, serving, gone>>
    BY <1>13 DEF MarkListenReady, Done, loop
  <2>3. \A m \in Listens : stream'[m] = "left" => stream[m] = "left"
    BY <1>13 DEF MarkListenReady, Flow, Typed
  <2>4. CASE transport = "stdio"
    <3>1. l \in BusyListens /\ BusyListens' = BusyListens \ {l}
      BY <1>13, <2>2, <2>4 DEF MarkListenReady, Flow, BusyListens, Typed
    <3>2. Counted'
      BY <1>1, <1>11, <1>13, <2>1, <2>4, <3>1, OneLess DEF MarkListenReady, Counted
    <3> QED BY <2>1, <2>2, <2>3, <3>2 DEF FlushedAtReturn
  <2>5. CASE transport = "http"
    <3>1. BusyListens' = BusyListens
      BY <1>13, <2>2, <2>5 DEF MarkListenReady, Flow, BusyListens, Typed
    <3>2. Counted'
      BY <1>2, <1>13, <2>1, <2>5, <3>1 DEF MarkListenReady, loop
    <3> QED BY <2>1, <2>2, <2>3, <3>2 DEF FlushedAtReturn
  <2> QED BY <2>4, <2>5 DEF Typed
<1>14. ASSUME NEW l \in Listens, CloseListen(l) PROVE Serves'
  <2>1. transport = "http" /\ serving
    BY <1>14 DEF CloseListen
  <2>2. l \in BusyListens /\ BusyListens' = BusyListens \ {l}
    BY <1>11, <1>14, <2>1 DEF CloseListen, Flow, BusyListens, Typed
  <2>3. BusyCalls' = BusyCalls /\ BusyCancels' = BusyCancels
    BY <1>14 DEF CloseListen, BusyCalls, BusyCancels, callVars, cancelVars
  <2>4. Counted'
    <3>1. IsFiniteSet(BusyListens') /\ Cardinality(BusyListens') = Cardinality(BusyListens) - 1
      BY <2>2, OneLess DEF Counted
    <3>2. handlers' = handlers - 1
      BY <1>11, <1>14 DEF CloseListen
    <3> QED BY <1>1, <2>3, <3>1, <3>2 DEF Counted
  <2> QED BY <1>11, <1>14, <2>1, <2>4 DEF CloseListen, FlushedAtReturn
<1>15. ASSUME NEW k \in Cancels, CancelNothing(k) \/ FinishStream(k) PROVE Serves'
  <2>1. k \in BusyCancels /\ BusyCancels' = BusyCancels \ {k} /\ serving
    BY <1>15 DEF CancelNothing, FinishStream, BusyCancels, FlushedAtReturn, Typed
  <2>2. BusyCalls' = BusyCalls /\ BusyListens' = BusyListens
    BY <1>11, <1>15 DEF CancelNothing, FinishStream, BusyCalls, BusyListens, callVars, streamVars
  <2>3. Counted'
    <3>1. IsFiniteSet(BusyCancels') /\ Cardinality(BusyCancels') = Cardinality(BusyCancels) - 1
      BY <2>1, OneLess DEF Counted
    <3>2. handlers' = handlers - 1
      BY <1>11, <1>15 DEF CancelNothing, FinishStream
    <3> QED BY <1>1, <2>2, <3>1, <3>2 DEF Counted
  <2> QED BY <1>11, <1>15, <2>1, <2>3 DEF CancelNothing, FinishStream, FlushedAtReturn, streamVars
<1> QED
  BY <1>3, <1>4, <1>5, <1>6, <1>8, <1>9, <1>10, <1>12, <1>13, <1>14, <1>15
  DEF Next, CallStep, StreamStep, CancelStep

-----------------------------------------------------------------------------
IInv == Typed /\ SlotsHeld /\ Answers /\ ToldReady /\ Serves

(* The invariant of every reachable state.                                  *)
LEMMA Inductive == Spec => []IInv
<1>1. Init => IInv
  BY TypedInit, SlotsInit, AnswersInit, ServesInit DEF IInv, Init, ToldReady
<1>2. IInv /\ [Next]_vars => IInv'
  BY TypedStep, SlotsStep, AnswersStep, ToldStep, ServesStep DEF IInv
<1> QED BY <1>1, <1>2, PTL DEF Spec

(***************************************************************************)
(* A slot is held exactly by the calls that run a tool, never by more than *)
(* there are, and everything keeps its shape.                              *)
(***************************************************************************)
THEOREM ServerTyped == Spec => []TypeOK
<1>1. IInv => TypeOK
  BY DEF IInv, Typed, SlotsHeld, TypeOK, CallStages, StreamStages, CancelStages
<1> QED BY <1>1, Inductive, PTL

(* No update goes to a stream before its acknowledgement.                   *)
THEOREM AcknowledgedFirst == Spec => []UpdatesFollowAck
<1>1. IInv => UpdatesFollowAck
  BY DEF IInv, ToldReady, UpdatesFollowAck
<1> QED BY <1>1, Inductive, PTL

(***************************************************************************)
(* The read loop never blocks on the channel of a question, and an answer  *)
(* reaches a call that asked under its id.                                 *)
(***************************************************************************)
THEOREM Routed == Spec => []AnswersRouted
<1>1. IInv => AnswersRouted
  BY DEF IInv, Answers
<1> QED BY <1>1, Inductive, PTL

(***************************************************************************)
(* When ServeStdio has returned, every request it read has been handled to *)
(* the end, whatever the rest were doing when the input ended.             *)
(***************************************************************************)
THEOREM Flushed == Spec => []FlushedAtReturn
<1>1. IInv => FlushedAtReturn
  BY DEF IInv, Serves
<1> QED BY <1>1, Inductive, PTL
=============================================================================
