------------------------------- MODULE McpServer -------------------------------
(***************************************************************************)
(* The MCP server between its transport and its tools.  On stdio a read    *)
(* loop starts a goroutine per line (ServeStdio); over HTTP every request  *)
(* has one of its own (handleMCP).  Modelled are tool calls, which share   *)
(* the slots of toolSem, may put a question to the user and announce what  *)
(* they changed; subscription streams (subscriptions/listen) that hear of  *)
(* such changes; cancellation; and the end of the input.                   *)
(***************************************************************************)
EXTENDS Integers, FiniteSets

CONSTANTS
  Calls,    \* tools/call requests
  Listens,  \* subscriptions/listen requests
  Cancels,  \* notifications/cancelled
  Asking, Announcing, \* calls of a tool that may ask, that changes a resource
  Target,   \* the stream that the sender of a cancellation means
  IdOf,     \* JSON-RPC id of each listen request
  Slots,    \* maxConcurrentTools
  Transports, \* those looked at, of stdio and http
  MaxNano,  \* readings of the clock in one behaviour: the bound of the model
  NoCall, NoStream

ASSUME McpAssumption ==
  /\ IsFiniteSet(Calls) /\ NoCall \notin Calls /\ NoStream \notin Listens
  /\ Target \in [Cancels -> Listens] /\ Asking \subseteq Calls /\ Announcing \subseteq Calls
  /\ Transports \subseteq {"stdio", "http"} /\ Slots \in Nat \ {0} /\ MaxNano \in Nat \ {0}

Nanos == 1..MaxNano

VARIABLES
  transport, \* "stdio" or "http"
  input,     \* stdin: "open" or "ended"
  serving,   \* ServeStdio has not returned
  handlers,  \* requests being handled: the WaitGroup of ServeStdio
  nano,      \* time.Now().UnixNano(), which may stand still between two readings
  at,        \* where the goroutine of a call is
  slots,     \* calls inside toolSem
  question,  \* the id under which a call asks, 0 before it does
  pending,   \* pendingElicit
  inbox,     \* the channel of a call: whose question its answer answers
  stream,    \* where the goroutine of a listen request is
  listens,   \* s.listens
  gone,      \* HTTP clients that closed their stream
  targets,   \* streams that a call has still to tell of its change
  cancel,    \* where the goroutine of a cancellation is
  took,      \* the stream it took from s.listens
  updated,   \* history variable: streams that were sent an update
  finished   \* history variable: streams whose result was sent

callVars == <<at, slots, targets>>
askVars == <<question, pending, inbox>>
streamVars == <<stream, listens, gone>>
cancelVars == <<cancel, took>>
seen == <<updated, finished>>
loop == <<transport, input, serving, handlers, nano>>
vars == <<loop, callVars, askVars, streamVars, cancelVars, seen>>

Init ==
  /\ transport \in Transports
  /\ input = "open" /\ serving = TRUE /\ handlers = 0 /\ nano = 1
  /\ at = [c \in Calls |-> "unsent"] /\ slots = 0
  /\ targets = [c \in Calls |-> {}]
  /\ question = [c \in Calls |-> 0] /\ pending = [n \in Nanos |-> NoCall]
  /\ inbox = [c \in Calls |-> NoCall]
  /\ stream = [l \in Listens |-> "unsent"] /\ listens = {} /\ gone = {}
  /\ cancel = [k \in Cancels |-> "unsent"] /\ took = [k \in Cancels |-> NoStream]
  /\ updated = {} /\ finished = {}

-----------------------------------------------------------------------------
(* The transport.                                                           *)

\* Mutant: the goroutine adds itself to the WaitGroup.
DispatchUncounted == input = "open" /\ UNCHANGED <<transport, input, serving, handlers, nano>>

(* A request is read, and counted before its goroutine exists.              *)
Dispatch ==
  /\ input = "open"
  /\ handlers' = handlers + 1
  /\ UNCHANGED <<transport, input, serving, nano>>

\* The goroutine of a request ends.
Done ==
  /\ handlers' = handlers - 1
  /\ UNCHANGED <<transport, input, serving, nano>>

Tick ==
  /\ nano < MaxNano
  /\ nano' = nano + 1
  /\ UNCHANGED <<transport, input, serving, handlers, callVars, askVars, streamVars,
                 cancelVars, seen>>

EndOfInput ==
  /\ transport = "stdio" /\ input = "open"
  /\ input' = "ended"
  /\ UNCHANGED <<transport, serving, handlers, nano, callVars, askVars, streamVars,
                 cancelVars, seen>>

(* handlers.Wait() and the return of ServeStdio.                            *)
StopServing ==
  /\ input = "ended" /\ serving /\ handlers = 0
  /\ serving' = FALSE
  /\ UNCHANGED <<transport, input, handlers, nano, callVars, askVars, streamVars,
                 cancelVars, seen>>

-----------------------------------------------------------------------------
(* Tool calls: handleToolsCall and wrapHandler.                             *)

Step(c, from, to) == at[c] = from /\ at' = [at EXCEPT ![c] = to]

(* Its goroutine gets to handleToolsCall, where its deadline starts, and     *)
(* queues for a slot.                                                       *)
Call(c) ==
  /\ Step(c, "unsent", "queued") /\ Dispatch
  /\ UNCHANGED <<slots, targets, askVars, streamVars, cancelVars, seen>>

Enter(c) ==
  /\ slots < Slots /\ slots' = slots + 1
  /\ Step(c, "queued", "running")
  /\ UNCHANGED <<targets, loop, askVars, streamVars, cancelVars, seen>>

(* The deadline passes first: the call ends without a slot.                 *)
GiveUpQueue(c) ==
  /\ Step(c, "queued", "replying")
  /\ UNCHANGED <<slots, targets, loop, askVars, streamVars, cancelVars, seen>>

\* Mutant: the slot is not given back.
ReleaseNot == UNCHANGED slots

\* The deferred release of the slot.
Release == slots' = slots - 1

(* The tool had nothing to announce, failed, or ran into its deadline.      *)
Finish(c) ==
  /\ Step(c, "running", "replying") /\ Release
  /\ UNCHANGED <<targets, loop, askVars, streamVars, cancelVars, seen>>

\* Mutant: a stream counts from the moment it is registered.
SnapshotEarly(c) == targets' = [targets EXCEPT ![c] = listens]

(* fanoutResourceUpdated collects, under listenMu, the streams that are     *)
(* ready; it sends to them after the unlock.                                *)
Snapshot(c) == targets' = [targets EXCEPT ![c] = {l \in listens : stream[l] = "ready"}]

(* The tool changed a resource that every stream is subscribed to.          *)
Succeed(c) ==
  /\ c \in Announcing
  /\ Step(c, "running", "notifying")
  /\ Snapshot(c)
  /\ UNCHANGED <<slots, loop, askVars, streamVars, cancelVars, seen>>

(* One update.  Over HTTP it is written to the stream's own response, which *)
(* nobody reads once its handler has returned.                              *)
Emit(c, l) ==
  /\ at[c] = "notifying" /\ l \in targets[c]
  /\ targets' = [targets EXCEPT ![c] = @ \ {l}]
  /\ updated' = IF stream[l] = "left" THEN updated ELSE updated \union {l}
  /\ UNCHANGED <<at, slots, loop, askVars, streamVars, cancelVars, finished>>

Told(c) ==
  /\ targets[c] = {}
  /\ Step(c, "notifying", "replying") /\ Release
  /\ UNCHANGED <<targets, loop, askVars, streamVars, cancelVars, seen>>

Reply(c) ==
  /\ Step(c, "replying", "replied") /\ Done
  /\ UNCHANGED <<slots, targets, askVars, streamVars, cancelVars, seen>>

-----------------------------------------------------------------------------
(* Elicitation: the closure made by makeElicitFunc, and the read loop's     *)
(* routeClientResponse.  A tool asks at most once in the model.             *)

(* Registered under the reading of the clock, over whoever had it before,   *)
(* and then sent.  Over HTTP there is no writer to ask through.  The client *)
(* is one that can be asked, and has said so when it initialised.           *)
Ask(c) ==
  /\ c \in Asking /\ transport = "stdio" /\ question[c] = 0
  /\ Step(c, "running", "waiting")
  /\ question' = [question EXCEPT ![c] = nano]
  /\ pending' = [pending EXCEPT ![nano] = c]
  /\ UNCHANGED <<inbox, slots, targets, loop, streamVars, cancelVars, seen>>

\* The deferred delete, whoever is registered under the id by now.
Unregister(c) == pending' = [pending EXCEPT ![question[c]] = NoCall]

(* The user's answer, a refusal to answer, or what comes of another         *)
(* question of the same id ...                                              *)
Hear(c) ==
  /\ inbox[c] # NoCall
  /\ Step(c, "waiting", "running") /\ Unregister(c)
  /\ inbox' = [inbox EXCEPT ![c] = NoCall]
  /\ UNCHANGED <<question, slots, targets, loop, streamVars, cancelVars, seen>>

\* Mutant: an answer is waited for without a limit.
NoAnswerNever(c) == FALSE

(* ... or the write failed, or five minutes passed.  The deadline of the    *)
(* call is not looked at.                                                   *)
NoAnswer(c) ==
  /\ Step(c, "waiting", "running") /\ Unregister(c)
  /\ inbox' = [inbox EXCEPT ![c] = NoCall]
  /\ UNCHANGED <<question, slots, targets, loop, streamVars, cancelVars, seen>>

\* Mutant: the registration survives the delivery.
DeliverKeeping(c, d) ==
  /\ inbox' = [inbox EXCEPT ![d] = c]
  /\ UNCHANGED pending

(* The registration is removed and the answer put into the channel, which   *)
(* has room for one.                                                        *)
Deliver(c, d) ==
  /\ inbox' = [inbox EXCEPT ![d] = c]
  /\ pending' = [pending EXCEPT ![question[c]] = NoCall]

\* Mutant: the answer goes to whoever waits.
RecipientsAny(c) == {pending[n] : n \in Nanos} \ {NoCall}

Recipients(c) == {pending[question[c]]} \ {NoCall}

(* The client answers c's question, perhaps more than once.  An answer that *)
(* nobody is registered for is taken for a request without a method, and    *)
(* answered with an error.                                                  *)
Answer(c) ==
  /\ input = "open" /\ question[c] # 0
  /\ \E d \in Recipients(c) : Deliver(c, d)
  /\ UNCHANGED <<question, callVars, loop, streamVars, cancelVars, seen>>

-----------------------------------------------------------------------------
(* Subscription streams.                                                    *)

Flow(l, from, to) == stream[l] = from /\ stream' = [stream EXCEPT ![l] = to]

Listen(l) ==
  /\ Flow(l, "unsent", "dispatched") /\ Dispatch
  /\ UNCHANGED <<listens, gone, callVars, askVars, cancelVars, seen>>

OpenListen(l) ==
  /\ Flow(l, "dispatched", "registered")
  /\ listens' = listens \union {l}
  /\ UNCHANGED <<gone, loop, callVars, askVars, cancelVars, seen>>

Acknowledge(l) ==
  /\ Flow(l, "registered", "acknowledged")
  /\ UNCHANGED <<listens, gone, loop, callVars, askVars, cancelVars, seen>>

(* On stdio the handler returns now, and the stream outlives it.            *)
MarkListenReady(l) ==
  /\ Flow(l, "acknowledged", "ready")
  /\ IF transport = "stdio" THEN Done ELSE UNCHANGED loop
  /\ UNCHANGED <<listens, gone, callVars, askVars, cancelVars, seen>>

Disconnect(l) ==
  /\ transport = "http" /\ stream[l] \in {"acknowledged", "ready"} /\ l \notin gone
  /\ gone' = gone \union {l}
  /\ UNCHANGED <<stream, listens, loop, callVars, askVars, cancelVars, seen>>

(* closeListen, by pointer, and the end of the HTTP handler.                *)
CloseListen(l) ==
  /\ l \in gone
  /\ Flow(l, "ready", "left") /\ Done
  /\ listens' = listens \ {l}
  /\ UNCHANGED <<gone, callVars, askVars, cancelVars, seen>>

\* A client cancels what it has asked for before.
Cancel(k) ==
  /\ cancel[k] = "unsent" /\ stream[Target[k]] # "unsent" /\ Target[k] \notin gone
  /\ cancel' = [cancel EXCEPT ![k] = "dispatched"] /\ Dispatch
  /\ UNCHANGED <<took, callVars, askVars, streamVars, seen>>

Taken(l) == listens' = listens \ {l}

\* Mutant: only a stream that is ready can be cancelled.
NamedReady(k) == {l \in listens : stream[l] = "ready" /\ IdOf[l] = IdOf[Target[k]]}

\* Streams with the id that k names; takeListen takes the first of them.
Named(k) == {l \in listens : IdOf[l] = IdOf[Target[k]]}

(* takeListen.  Which of several streams of one id came first is left open. *)
TakeListen(k) ==
  /\ cancel[k] = "dispatched"
  /\ \E l \in Named(k) : Taken(l) /\ took' = [took EXCEPT ![k] = l]
  /\ cancel' = [cancel EXCEPT ![k] = "closing"]
  /\ UNCHANGED <<stream, gone, loop, callVars, askVars, seen>>

(* Nothing of that id is registered: there is no response.                  *)
CancelNothing(k) ==
  /\ cancel[k] = "dispatched" /\ Named(k) = {}
  /\ cancel' = [cancel EXCEPT ![k] = "over"] /\ Done
  /\ UNCHANGED <<took, callVars, askVars, streamVars, seen>>

(* The result of the listen request, written to where k came from.          *)
FinishStream(k) ==
  /\ cancel[k] = "closing"
  /\ cancel' = [cancel EXCEPT ![k] = "over"] /\ Done
  /\ finished' = finished \union {took[k]}
  /\ UNCHANGED <<took, updated, callVars, askVars, streamVars>>

-----------------------------------------------------------------------------
CallStep(c) ==
  Enter(c) \/ GiveUpQueue(c) \/ Finish(c) \/ Succeed(c) \/ Told(c)
    \/ Reply(c) \/ Hear(c) \/ NoAnswer(c) \/ (\E l \in Listens : Emit(c, l))
StreamStep(l) == OpenListen(l) \/ Acknowledge(l) \/ MarkListenReady(l) \/ CloseListen(l)
CancelStep(k) == TakeListen(k) \/ CancelNothing(k) \/ FinishStream(k)

Next ==
  \/ \E c \in Calls : Call(c) \/ CallStep(c) \/ Ask(c) \/ Answer(c)
  \/ \E l \in Listens : Listen(l) \/ StreamStep(l) \/ Disconnect(l)
  \/ \E k \in Cancels : Cancel(k) \/ CancelStep(k)
  \/ Tick \/ EndOfInput \/ StopServing

Spec == Init /\ [][Next]_vars

(* A goroutine goes on: tools are given a context with a deadline, and a    *)
(* question is given up after five minutes.  Clients owe nothing.           *)
FairSpec ==
  /\ Spec
  /\ \A c \in Calls : WF_vars(CallStep(c))
  /\ \A l \in Listens : WF_vars(StreamStep(l))
  /\ \A k \in Cancels : WF_vars(CancelStep(k))
  /\ WF_vars(StopServing)

-----------------------------------------------------------------------------
(***************************************************************************)
(* TypeOK.  A slot is held exactly by the calls that run a tool, however   *)
(* they come to an end.                                                    *)
(***************************************************************************)
Inside == {c \in Calls : at[c] \in {"running", "waiting", "notifying"}}

TypeOK ==
  /\ transport \in {"stdio", "http"} /\ input \in {"open", "ended"} /\ serving \in BOOLEAN
  /\ handlers \in Int /\ nano \in Nanos
  /\ at \in [Calls -> {"unsent", "queued", "running", "waiting",
                       "notifying", "replying", "replied"}]
  /\ slots = Cardinality(Inside) /\ slots <= Slots
  /\ targets \in [Calls -> SUBSET Listens]
  /\ question \in [Calls -> Nanos \union {0}] /\ pending \in [Nanos -> Calls \union {NoCall}]
  /\ inbox \in [Calls -> Calls \union {NoCall}]
  /\ stream \in [Listens -> {"unsent", "dispatched", "registered", "acknowledged", "ready", "left"}]
  /\ listens \subseteq Listens /\ gone \subseteq Listens
  /\ cancel \in [Cancels -> {"unsent", "dispatched", "closing", "over"}]
  /\ took \in [Cancels -> Listens \union {NoStream}]
  /\ updated \subseteq Listens /\ finished \subseteq Listens \union {NoStream}

(***************************************************************************)
(* UpdatesFollowAck: "Updates must not go out before that acknowledgement" *)
(* (protocol_2026.go:63), though a stream is in the list of streams before *)
(* it is acknowledged, and calls that announce a change run meanwhile.     *)
(***************************************************************************)
UpdatesFollowAck ==
  \A l \in updated : stream[l] \in {"acknowledged", "ready", "left"}

(***************************************************************************)
(* AnswersRouted, about routeClientResponse and the elicitation closures:  *)
(* - RoomForAnswer: the read loop never blocks on a channel, so that pings *)
(*   are answered whatever becomes of a question: whoever is registered    *)
(*   has an empty channel, also after two answers to one question and when *)
(*   two calls ask under one reading of the clock;                         *)
(* - OwnAnswer: a call hears the answer to its own question, or, in that   *)
(*   last case, to the other's -- never one of another id, and never one   *)
(*   that came for it earlier.                                             *)
(***************************************************************************)
RoomForAnswer == \A n \in Nanos : pending[n] # NoCall => inbox[pending[n]] = NoCall

OwnAnswer ==
  \A c \in Calls : inbox[c] # NoCall =>
    at[c] = "waiting" /\ question[inbox[c]] = question[c]

AnswersRouted == RoomForAnswer /\ OwnAnswer

(***************************************************************************)
(* FlushedAtReturn: "every dispatched handler has flushed its response     *)
(* before ServeStdio returns" (server_stdio.go:200), so that Shutdown and  *)
(* the end of the process cut nothing off.                                 *)
(***************************************************************************)
FlushedAtReturn ==
  ~serving =>
    /\ \A c \in Calls : at[c] \in {"unsent", "replied"}
    /\ \A l \in Listens : stream[l] \in {"unsent", "ready"}
    /\ \A k \in Cancels : cancel[k] \in {"unsent", "over"}

(***************************************************************************)
(* EveryoneServed: every call is answered and every ServeStdio whose input *)
(* has ended returns, without any help from the client: "a non-responding  *)
(* client can never leak a blocked handler goroutine" (server.go:60), and  *)
(* no call that asks keeps the only slot for ever.                         *)
(***************************************************************************)
EveryoneServed ==
  /\ \A c \in Calls : (at[c] = "queued") ~> (at[c] = "replied")
  /\ (input = "ended") ~> ~serving

(***************************************************************************)
(* CancelHonoured: a cancellation that arrives when its stream is open     *)
(* ends it with a result, whatever fan-outs and other cancellations run.   *)
(* One that overtakes its own listen request is without effect.            *)
(***************************************************************************)
CancelHonoured ==
  \A k \in Cancels :
    (cancel[k] = "dispatched" /\ Target[k] \in listens)
       ~> (Target[k] \in finished \/ Target[k] \in gone)

(***************************************************************************)
(* StreamsCloseThemselves: HTTP clients whose listen requests have one id  *)
(* "do not close each other" (server.go:122): a stream is taken from the   *)
(* list because its own client cancelled it or went away.                  *)
(***************************************************************************)
StreamsCloseThemselves ==
  [][\A l \in listens \ listens' :
       l \in gone \/ \E k \in Cancels : Target[k] = l /\ cancel[k] = "dispatched"
                                        /\ cancel'[k] = "closing"]_vars
=============================================================================
