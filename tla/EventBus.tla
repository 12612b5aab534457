------------------------------ MODULE EventBus ------------------------------
(***************************************************************************)
(* The kernel's asynchronous publish/subscribe bus                         *)
(* (internal/kernel/event_bus.go).                                         *)
(*                                                                         *)
(* Publishers (driver goroutines, and handlers that publish from inside a  *)
(* callback) fan one event out to a snapshot of the matching               *)
(* subscriptions.  Every subscription owns a bounded queue with a          *)
(* backpressure policy and a fixed set of workers.  Closing the bus or one *)
(* subscription removes it from the map, marks it closed, waits for its    *)
(* queue to empty, cancels its context and waits for its workers.          *)
(*                                                                         *)
(* A step is what one goroutine does between two points where another one  *)
(* can get in: a critical section of EventBus.mu, one atomic load or       *)
(* store, one channel operation, one select.  A timer that a select waits  *)
(* for may have fired whenever the select looks: a driver's publish        *)
(* timeout, the handler timeout a nested Publish inherits, the shutdown    *)
(* timeout of a closing call.                                              *)
(***************************************************************************)
EXTENDS Integers, Sequences, Functions

CONSTANTS
  Subs,           \* the subscriptions that may be created
  Early,          \* those made before the drivers start publishing
  Workers,        \* the worker goroutines, of all subscriptions
  SubOf,          \* the subscription each worker belongs to
  Drivers,        \* goroutines that publish from outside any handler
  Closers,        \* calls of EventBus.Close and of Subscription.Close
  DriverEvents,   \* the events drivers publish, each at most once
  HandlerEvents,  \* the events handlers publish, each at most once
  Interest,       \* the events each subscription's InterestSet matches
  Buffer,         \* queue capacity per subscription
  Policy,         \* backpressure policy per subscription
  Endless,        \* events whose handlers may never return
  None            \* "no subscription" and "no event"

Events     == DriverEvents \union HandlerEvents
Publishers == Drivers \union Workers
Policies   == {"drop_newest", "drop_oldest", "block"}

ASSUME BusAssumption ==
  /\ Early \subseteq Subs
  /\ SubOf \in [Workers -> Subs]
  /\ Interest \in [Subs -> SUBSET Events]
  /\ Buffer \in [Subs -> Nat \ {0}]
  /\ Policy \in [Subs -> Policies]
  /\ Endless \subseteq Events
  /\ DriverEvents \intersect HandlerEvents = {}
  /\ Drivers \intersect Workers = {}
  /\ Publishers \intersect Closers = {}
  /\ None \notin Subs \union Events

VARIABLES
  closed,     \* EventBus.closed
  phase,      \* where each subscription stands with respect to the bus's map
  subClosed,  \* busSubscription.closed
  cancelled,  \* busSubscription.ctx is done
  queue,      \* busSubscription.queue
  wpc, wev,   \* each worker: its control point, the event it handles
  ppc, pev,   \* each publisher: its control point, the event it publishes,
  ptodo,      \*   the snapshot's subscriptions it has not reached yet,
  pcur,       \*   the subscription it is enqueueing to
  ptries,     \*   and its attempts in enqueueDropOldest
  cpc, ctodo, \* each closing call: its control point, what it still has to
  ccur,       \*   shut down, and what it is shutting down
  sent,       \* the events each publisher handed to Publish, in order
  offered,    \* <<s, e>>: Publish matched e with s
  delivered,  \* <<s, e>>: a worker of s took e from the queue
  reported,   \* <<s, e>>: a drop, a rejection or a failure somebody was told of
  evicted,    \* <<s, e>>: e was thrown out of the queue of s by a later event
  late,       \* <<s, e>>: e entered the queue of s after s was marked closed
  stopped     \* subscriptions whose shutdown returned nil

subVars  == <<closed, phase, subClosed, cancelled>>
workVars == <<wpc, wev>>
pubVars  == <<ppc, pev, ptodo, pcur, ptries>>
closeVars == <<cpc, ctodo, ccur>>
history  == <<sent, offered, delivered, reported, evicted, late, stopped>>
vars == <<subVars, queue, workVars, pubVars, closeVars, history>>

WorkersOf(s) == {w \in Workers : SubOf[w] = s}

\* Mutant: nothing ends the wait of a handler's nested publish.
NoHandlerTimeout(x) == x \notin Workers

\* The context of a publisher or of a closing call is done.  Its timer may have
\* fired whenever a select looks.
ContextDone(x) == TRUE

\* Mutant: whether the map still holds s is not asked.
WasInMap(s) == phase[s] \in {"registered", "removed"}

InMap(s) == phase[s] = "registered"

Init ==
  /\ closed = FALSE
  /\ phase = [s \in Subs |-> IF s \in Early THEN "registered" ELSE "absent"]
  /\ subClosed = [s \in Subs |-> FALSE]
  /\ cancelled = [s \in Subs |-> FALSE]
  /\ queue = [s \in Subs |-> << >>]
  /\ wpc = [w \in Workers |-> "idle"]
  /\ wev = [w \in Workers |-> None]
  /\ ppc = [p \in Publishers |-> "idle"]
  /\ pev = [p \in Publishers |-> None]
  /\ ptodo = [p \in Publishers |-> {}]
  /\ pcur = [p \in Publishers |-> None]
  /\ ptries = [p \in Publishers |-> 0]
  /\ cpc = [c \in Closers |-> "idle"]
  /\ ctodo = [c \in Closers |-> {}]
  /\ ccur = [c \in Closers |-> None]
  /\ sent = [p \in Publishers |-> << >>]
  /\ offered = {} /\ delivered = {} /\ reported = {} /\ evicted = {}
  /\ late = {} /\ stopped = {}

-----------------------------------------------------------------------------
(* Subscribe: newBusSubscription starts the workers before the lock is     *)
(* taken, so the subscription exists before the bus decides to keep it.    *)

CreateSubscription(s) ==
  /\ phase[s] = "absent"
  /\ phase' = [phase EXCEPT ![s] = "created"]
  /\ UNCHANGED <<closed, subClosed, cancelled, queue, workVars, pubVars,
                 closeVars, history>>

MayRegister == ~closed

Register(s) ==
  /\ phase[s] = "created"
  /\ MayRegister
  /\ phase' = [phase EXCEPT ![s] = "registered"]
  /\ UNCHANGED <<closed, subClosed, cancelled, queue, workVars, pubVars,
                 closeVars, history>>

\* The bus was closed meanwhile: signalClose, and the context is left alone.
RejectSubscription(s) ==
  /\ phase[s] = "created"
  /\ ~MayRegister
  /\ phase' = [phase EXCEPT ![s] = "refused"]
  /\ subClosed' = [subClosed EXCEPT ![s] = TRUE]
  /\ UNCHANGED <<closed, cancelled, queue, workVars, pubVars, closeVars,
                 history>>

-----------------------------------------------------------------------------
(* Publish *)

MayPublish(p, e) ==
  /\ ppc[p] = "idle"
  /\ \A q \in Publishers : e \notin Range(sent[q])
  /\ \/ p \in Drivers /\ e \in DriverEvents
     \/ p \in Workers /\ wpc[p] = "busy" /\ e \in HandlerEvents

Matching(e) == {s \in Subs : InMap(s) /\ e \in Interest[s]}

\* snapshotSubscriptions under the read lock; a driver's call has a new context.
PublishBegin(p, e) ==
  /\ MayPublish(p, e)
  /\ ~closed
  /\ ppc' = [ppc EXCEPT ![p] = "fanout"]
  /\ pev' = [pev EXCEPT ![p] = e]
  /\ ptodo' = [ptodo EXCEPT ![p] = Matching(e)]
  /\ sent' = [sent EXCEPT ![p] = Append(@, e)]
  /\ offered' = offered \union (Matching(e) \X {e})
  /\ UNCHANGED <<subVars, queue, workVars, pcur, ptries, closeVars, delivered,
                 reported, evicted, late, stopped>>

\* "bus closed": the event reaches nobody and the caller gets the error.
PublishRefused(p, e) ==
  /\ MayPublish(p, e)
  /\ closed
  /\ sent' = [sent EXCEPT ![p] = Append(@, e)]
  /\ UNCHANGED <<subVars, queue, workVars, pubVars, closeVars, offered,
                 delivered, reported, evicted, late, stopped>>

\* Mutants: the loop visits s again; a failed enqueue is swallowed.
VisitAgain(p, s) == UNCHANGED ptodo
TellNobody(s, e) == UNCHANGED reported

\* The loop over the snapshot goes on to another subscription.
GoOnFrom(p, s) == ptodo' = [ptodo EXCEPT ![p] = @ \ {s}]

\* The copy is not enqueued and somebody learns it: the error sink or the caller.
Tell(s, e) == reported' = reported \union {<<s, e>>}

\* enqueue's first test fails: ErrSubscriptionClosed goes to the error sink.
EnqueueClosed(p, s) ==
  /\ ppc[p] = "fanout"
  /\ s \in ptodo[p]
  /\ subClosed[s]
  /\ GoOnFrom(p, s)
  /\ Tell(s, pev[p])
  /\ UNCHANGED <<subVars, queue, workVars, ppc, pev, pcur, ptries, closeVars,
                 sent, offered, delivered, evicted, late, stopped>>

FirstAttempt == 0

EnqueueOpen(p, s) ==
  /\ ppc[p] = "fanout"
  /\ s \in ptodo[p]
  /\ ~subClosed[s]
  /\ ppc' = [ppc EXCEPT ![p] = "send"]
  /\ GoOnFrom(p, s)
  /\ pcur' = [pcur EXCEPT ![p] = s]
  /\ ptries' = [ptries EXCEPT ![p] = FirstAttempt]
  /\ UNCHANGED <<subVars, queue, workVars, pev, closeVars, history>>

Full(s) == Len(queue[s]) >= Buffer[s]

\* enqueueBlock's test of publishOriginSubscriptionID.
SelfBlock(p, s) == Policy[s] = "block" /\ p \in Workers /\ SubOf[p] = s

\* attemptLimit is cap(queue) + 1.
Exhausted(p, s) == Policy[s] = "drop_oldest" /\ ptries[p] > Buffer[s]

\* enqueueDropNewest finds the queue full, enqueueDropOldest is out of attempts,
\* or enqueueBlock is called by a handler of the same subscription.
Refusing(p, s) ==
  \/ Policy[s] = "drop_newest" /\ Full(s)
  \/ Exhausted(p, s)
  \/ SelfBlock(p, s)

\* The publisher leaves enqueue and goes on with the next subscription.
LeaveEnqueue(p) ==
  /\ ppc' = [ppc EXCEPT ![p] = "fanout"]
  /\ pcur' = [pcur EXCEPT ![p] = None]

\* Mutant: the event enters at the head.
EnqueueFirst(s, e) == queue' = [queue EXCEPT ![s] = <<e>> \o @]

Enqueue(s, e) == queue' = [queue EXCEPT ![s] = Append(@, e)]

\* The send case of the select is taken.
SendAccept(p) ==
  LET s == pcur[p] IN
  /\ ppc[p] = "send"
  /\ ~Refusing(p, s)
  /\ ~Full(s)
  /\ Enqueue(s, pev[p])
  /\ late' = IF subClosed[s] THEN late \union {<<s, pev[p]>>} ELSE late
  /\ LeaveEnqueue(p)
  /\ UNCHANGED <<subVars, workVars, pev, ptodo, ptries, closeVars, sent,
                 offered, delivered, reported, evicted, stopped>>

\* The receive case of enqueueDropOldest's select is taken.
SendEvict(p) ==
  LET s == pcur[p] IN
  /\ ppc[p] = "send"
  /\ Policy[s] = "drop_oldest"
  /\ ~Exhausted(p, s)
  /\ queue[s] # << >>
  /\ evicted' = evicted \union {<<s, Head(queue[s])>>}
  /\ queue' = [queue EXCEPT ![s] = Tail(@)]
  /\ ptries' = [ptries EXCEPT ![p] = @ + 1]
  /\ UNCHANGED <<subVars, workVars, ppc, pev, ptodo, pcur, closeVars, sent,
                 offered, delivered, reported, late, stopped>>

\* ErrEventDropped goes to the error sink.
SendDrop(p) ==
  LET s == pcur[p] IN
  /\ ppc[p] = "send"
  /\ Refusing(p, s)
  /\ Tell(s, pev[p])
  /\ LeaveEnqueue(p)
  /\ UNCHANGED <<subVars, queue, workVars, pev, ptodo, ptries, closeVars,
                 sent, offered, delivered, evicted, late, stopped>>

\* enqueueBlock sees the caller's context done (publish or handler timeout, or the
\* handler's subscription was cancelled); the error is Publish's result.
SendCancelled(p) ==
  LET s == pcur[p] IN
  /\ ppc[p] = "send"
  /\ Policy[s] = "block" /\ ~SelfBlock(p, s)
  /\ Tell(s, pev[p])
  /\ LeaveEnqueue(p)
  /\ ContextDone(p)
  /\ UNCHANGED <<subVars, queue, workVars, pev, ptodo, ptries, closeVars,
                 sent, offered, delivered, evicted, late, stopped>>

PublishEnd(p) ==
  /\ ppc[p] = "fanout"
  /\ ptodo[p] = {}
  /\ ppc' = [ppc EXCEPT ![p] = "idle"]
  /\ pev' = [pev EXCEPT ![p] = None]
  /\ UNCHANGED <<subVars, queue, workVars, ptodo, pcur, ptries, closeVars,
                 history>>

-----------------------------------------------------------------------------
(* Workers: runWorker and handleEvent *)

\* The queue case of the select; the handler runs under a new context.
Take(w) ==
  LET s == SubOf[w] IN
  /\ wpc[w] = "idle"
  /\ queue[s] # << >>
  /\ wpc' = [wpc EXCEPT ![w] = "busy"]
  /\ wev' = [wev EXCEPT ![w] = Head(queue[s])]
  /\ queue' = [queue EXCEPT ![s] = Tail(@)]
  /\ delivered' = delivered \union {<<s, Head(queue[s])>>}
  /\ UNCHANGED <<subVars, pubVars, closeVars, sent, offered, reported, evicted,
                 late, stopped>>

\* Mutant: a panic ends the worker.
AfterPanic == "exited"

AfterHandler == "idle"

\* The handler returns, fails or panics: runSafely makes it one outcome here.
HandlerReturns(w) ==
  /\ wpc[w] = "busy"
  /\ ppc[w] = "idle"
  /\ wpc' = [wpc EXCEPT ![w] = AfterHandler]
  /\ wev' = [wev EXCEPT ![w] = None]
  /\ UNCHANGED <<subVars, queue, pubVars, closeVars, history>>

\* The ctx.Done case of the select.
WorkerExit(w) ==
  /\ wpc[w] = "idle"
  /\ cancelled[SubOf[w]]
  /\ wpc' = [wpc EXCEPT ![w] = "exited"]
  /\ UNCHANGED <<subVars, queue, wev, pubVars, closeVars, history>>

-----------------------------------------------------------------------------
(* EventBus.Close, Subscription.Close and busSubscription.shutdown *)

CloseBus(c) ==
  /\ cpc[c] = "idle"
  /\ ~closed
  /\ closed' = TRUE
  /\ phase' = [s \in Subs |-> IF InMap(s) THEN "removed" ELSE phase[s]]
  /\ ctodo' = [ctodo EXCEPT ![c] = {s \in Subs : InMap(s)}]
  /\ cpc' = [cpc EXCEPT ![c] = "next"]
  /\ UNCHANGED <<subClosed, cancelled, queue, workVars, pubVars, ccur,
                 history>>

\* Close of a closed bus returns nil at once, whoever is still shutting it down.
CloseBusAgain(c) ==
  /\ cpc[c] = "idle"
  /\ closed
  /\ cpc' = [cpc EXCEPT ![c] = "returned"]
  /\ UNCHANGED <<subVars, queue, workVars, pubVars, ctodo, ccur, history>>

\* Subscription.Close of a subscription the map does not hold changes nothing.
Unsubscribe(c, s) ==
  /\ cpc[c] = "idle"
  /\ InMap(s)
  /\ phase' = [phase EXCEPT ![s] = "removed"]
  /\ ctodo' = [ctodo EXCEPT ![c] = {s}]
  /\ cpc' = [cpc EXCEPT ![c] = "next"]
  /\ UNCHANGED <<closed, subClosed, cancelled, queue, workVars, pubVars, ccur,
                 history>>

\* shutdown: signalClose.
ShutdownBegin(c, s) ==
  /\ cpc[c] = "next"
  /\ s \in ctodo[c]
  /\ ctodo' = [ctodo EXCEPT ![c] = @ \ {s}]
  /\ ccur' = [ccur EXCEPT ![c] = s]
  /\ subClosed' = [subClosed EXCEPT ![s] = TRUE]
  /\ cpc' = [cpc EXCEPT ![c] = "check"]
  /\ UNCHANGED <<closed, phase, cancelled, queue, workVars, pubVars, history>>

\* Mutant: shutdown does not wait for the queue.
DrainedAnyway(s) == TRUE

Drained(s) == queue[s] = << >>

\* waitForQueueDrain looks at the length of the queue, at once and every tick.
CheckQueue(c) ==
  /\ \/ cpc[c] = "check"
     \/ cpc[c] = "drain" /\ Drained(ccur[c])
  /\ cpc' = [cpc EXCEPT
       ![c] = IF Drained(ccur[c]) THEN "cancel" ELSE "drain"]
  /\ UNCHANGED <<subVars, queue, workVars, pubVars, ctodo, ccur, history>>

\* The context ends while the queue is being waited for: cancel and give up.
DrainTimeout(c) ==
  /\ cpc[c] = "drain"
  /\ ContextDone(c)
  /\ cancelled' = [cancelled EXCEPT ![ccur[c]] = TRUE]
  /\ cpc' = [cpc EXCEPT ![c] = "next"]
  /\ ccur' = [ccur EXCEPT ![c] = None]
  /\ UNCHANGED <<closed, phase, subClosed, queue, workVars, pubVars, ctodo,
                 history>>

CancelWorkers(c) ==
  /\ cpc[c] = "cancel"
  /\ cancelled' = [cancelled EXCEPT ![ccur[c]] = TRUE]
  /\ cpc' = [cpc EXCEPT ![c] = "wait"]
  /\ UNCHANGED <<closed, phase, subClosed, queue, workVars, pubVars, ctodo,
                 ccur, history>>

\* Mutant: done is closed by the first worker to return.
FirstWorkerGone(s) == \E w \in WorkersOf(s) : wpc[w] = "exited"

WorkersGone(s) == \A w \in WorkersOf(s) : wpc[w] = "exited"

\* done is closed once every worker has returned: shutdown returns nil.
WaitDone(c) ==
  /\ cpc[c] = "wait"
  /\ WorkersGone(ccur[c])
  /\ stopped' = stopped \union {ccur[c]}
  /\ cpc' = [cpc EXCEPT ![c] = "next"]
  /\ ccur' = [ccur EXCEPT ![c] = None]
  /\ UNCHANGED <<subVars, queue, workVars, pubVars, ctodo, sent, offered,
                 delivered, reported, evicted, late>>

WaitTimeout(c) ==
  /\ cpc[c] = "wait"
  /\ ContextDone(c)
  /\ cpc' = [cpc EXCEPT ![c] = "next"]
  /\ ccur' = [ccur EXCEPT ![c] = None]
  /\ UNCHANGED <<subVars, queue, workVars, pubVars, ctodo, history>>

CloseReturns(c) ==
  /\ cpc[c] = "next"
  /\ ctodo[c] = {}
  /\ cpc' = [cpc EXCEPT ![c] = "returned"]
  /\ UNCHANGED <<subVars, queue, workVars, pubVars, ctodo, ccur, history>>

-----------------------------------------------------------------------------
SubscribeStep(s) ==
  CreateSubscription(s) \/ Register(s) \/ RejectSubscription(s)

PublishStep(p) ==
  \/ \E s \in Subs : EnqueueClosed(p, s) \/ EnqueueOpen(p, s)
  \/ SendAccept(p) \/ SendEvict(p) \/ SendDrop(p) \/ SendCancelled(p)
  \/ PublishEnd(p)

CloseStep(c) ==
  \/ \E s \in Subs : ShutdownBegin(c, s)
  \/ CheckQueue(c) \/ DrainTimeout(c) \/ CancelWorkers(c)
  \/ WaitDone(c) \/ WaitTimeout(c) \/ CloseReturns(c)

Next ==
  \/ \E s \in Subs : SubscribeStep(s)
  \/ \E p \in Publishers :
       \/ \E e \in Events : PublishBegin(p, e) \/ PublishRefused(p, e)
       \/ PublishStep(p)
  \/ \E w \in Workers :
       Take(w) \/ HandlerReturns(w) \/ WorkerExit(w)
  \/ \E c \in Closers :
       \/ CloseBus(c) \/ CloseBusAgain(c)
       \/ \E s \in Subs : Unsubscribe(c, s)
       \/ CloseStep(c)

Spec == Init /\ [][Next]_vars

(***************************************************************************)
(* Fairness.  The Go scheduler runs every goroutine that can run; timers   *)
(* fire.  A select picks uniformly among its ready cases, so a worker      *)
(* whose context stays done cannot keep choosing the queue: that case is   *)
(* strongly fair.  That a handler returns (its context has a deadline, so  *)
(* it should) is an assumption about the modules, made of all events but   *)
(* the Endless ones.  Nothing obliges anybody to subscribe, publish or     *)
(* close.                                                                  *)
(***************************************************************************)
SchedulerFairness ==
  /\ \A s \in Subs : WF_vars(Register(s) \/ RejectSubscription(s))
  /\ \A p \in Publishers : WF_vars(PublishStep(p))
  /\ \A w \in Workers : WF_vars(Take(w)) /\ SF_vars(WorkerExit(w))
  /\ \A c \in Closers : WF_vars(CloseStep(c))

HandlersReturn ==
  \A w \in Workers : WF_vars(wev[w] \notin Endless /\ HandlerReturns(w))

FairSpec == Spec /\ SchedulerFairness /\ HandlersReturn
-----------------------------------------------------------------------------
(* Where the copy <<s, e>> of an event is. *)

Queued(s) == Range(queue[s])

\* Still in the hands of the publisher that snapshotted s.
Pending(p) ==
  (ptodo[p] \union (IF ppc[p] = "send" THEN {pcur[p]} ELSE {})) \X {pev[p]}

Settled == delivered \union reported \union evicted

CopyState(c) ==
  IF \E p \in Publishers : c \in Pending(p) THEN "offered"
  ELSE IF c[2] \in Queued(c[1]) THEN "queued"
  ELSE IF c \in delivered THEN "taken"
  ELSE IF c \in reported THEN "told"
  ELSE IF c \in evicted THEN "evicted"
  ELSE "none"

Delivery == INSTANCE EventDelivery WITH
  Receivers <- Subs,
  copy <- [c \in Subs \X Events |-> CopyState(c)]

\* Every copy goes through the life EventDelivery allows.
DeliverySpec == Delivery!Spec

(* Properties *)

TypeOK ==
  /\ closed \in BOOLEAN
  /\ phase \in [Subs -> {"absent", "created", "registered", "removed", "refused"}]
  /\ subClosed \in [Subs -> BOOLEAN]
  /\ cancelled \in [Subs -> BOOLEAN]
  /\ queue \in [Subs -> Seq(Events)]
  /\ wpc \in [Workers -> {"idle", "busy", "exited"}]
  /\ wev \in [Workers -> Events \union {None}]
  /\ ppc \in [Publishers -> {"idle", "fanout", "send"}]
  /\ pev \in [Publishers -> Events \union {None}]
  /\ ptodo \in [Publishers -> SUBSET Subs]
  /\ pcur \in [Publishers -> Subs \union {None}]
  /\ ptries \in [Publishers -> Nat]
  /\ cpc \in [Closers -> {"idle", "next", "check", "drain", "cancel", "wait",
                          "returned"}]
  /\ ctodo \in [Closers -> SUBSET Subs]
  /\ ccur \in [Closers -> Subs \union {None}]
  /\ sent \in [Publishers -> Seq(Events)]
  /\ offered \subseteq Subs \X Events /\ delivered \subseteq Subs \X Events
  /\ reported \subseteq Subs \X Events /\ evicted \subseteq Subs \X Events
  /\ late \subseteq Subs \X Events
  /\ stopped \subseteq Subs

\* Every copy Publish matched is in exactly one place: with its publisher, in the
\* queue (once), taken by a worker, reported to somebody, or evicted.
CopiesConserved ==
  /\ offered = (UNION {Pending(p) : p \in Publishers})
               \union (UNION {{s} \X Queued(s) : s \in Subs}) \union Settled
  /\ \A s \in Subs : IsInjective(queue[s])
  /\ \A s \in Subs : ({s} \X Queued(s)) \intersect Settled = {}
  /\ \A p \in Publishers :
       /\ Pending(p) \intersect Settled = {}
       /\ \A s \in Subs : Pending(p) \intersect ({s} \X Queued(s)) = {}
  /\ delivered \intersect reported = {} /\ delivered \intersect evicted = {}
  /\ reported \intersect evicted = {}

\* A subscription sees one publisher's events in the order they were published:
\* when a later one has been taken, no earlier one is still on its way.
PublisherOrder ==
  \A p \in Publishers, s \in Subs :
    \A i, j \in DOMAIN sent[p] :
      /\ i < j
      /\ <<s, sent[p][j]>> \in delivered
      /\ <<s, sent[p][i]>> \in offered
      => <<s, sent[p][i]>> \in Settled

\* The life of a subscription: what the map holds is open; what is cancelled was
\* closed before; after the bus is closed the map is empty for good, whatever
\* Subscribe was doing at the time.
LifecycleInv ==
  \A s \in Subs :
    /\ phase[s] \in {"absent", "created", "registered"} =>
         ~subClosed[s] /\ ~cancelled[s]
    /\ cancelled[s] => subClosed[s] /\ phase[s] = "removed"
    /\ closed => phase[s] # "registered"

\* What a goroutine works on while it is at a control point.
ControlInv ==
  /\ \A p \in Publishers :
       /\ ppc[p] # "idle" => pev[p] \in Events
       /\ ppc[p] = "send" => pcur[p] \in Subs
       /\ ppc[p] = "idle" => ptodo[p] = {}
  /\ \A w \in Workers : wpc[w] = "busy" <=> wev[w] \in Events
  /\ \A c \in Closers :
       /\ cpc[c] = "idle" => ctodo[c] = {}
       /\ cpc[c] \in {"check", "drain", "cancel", "wait"} <=> ccur[c] \in Subs

\* What a closing call has taken off the map stays off it, and what it is shutting
\* down is marked closed.
ClosingInv ==
  \A c \in Closers :
    /\ \A s \in ctodo[c] : phase[s] = "removed"
    /\ ccur[c] \in Subs => phase[ccur[c]] = "removed" /\ subClosed[ccur[c]]

\* Once waitForQueueDrain saw an empty queue, what is in it was enqueued later.
DrainedInv ==
  /\ \A c \in Closers :
       cpc[c] \in {"cancel", "wait"} =>
         {ccur[c]} \X Queued(ccur[c]) \subseteq late
  /\ \A s \in stopped : subClosed[s]

\* Two closing calls never shut down the same subscription.
OneShutdown ==
  \A c, d \in Closers, s \in Subs :
    /\ s \in ctodo[c] \/ ccur[c] = s
    /\ s \in ctodo[d] \/ ccur[d] = s
    => c = d

\* Once shutdown returned nil the subscription's goroutines are gone: no handler
\* of the closed subscription is running or will run.
StoppedIsQuiet ==
  \A s \in stopped : \A w \in WorkersOf(s) : wpc[w] = "exited"

\* ... and what is left in its queue was enqueued by a Publish that overtook the
\* close: everything accepted before it was handled, evicted or rejected.
CleanStopLeavesOnlyLate ==
  \A s \in stopped : {s} \X Queued(s) \subseteq late

\* The inductive invariant behind the safety properties above.
IInv ==
  /\ TypeOK /\ ControlInv /\ ClosingInv /\ DrainedInv
  /\ LifecycleInv /\ OneShutdown /\ StoppedIsQuiet /\ CleanStopLeavesOnlyLate

\* Under "drop_oldest" an event is thrown out only to make room in a full queue.
EvictsOnlyWhenFull ==
  [][\A s \in Subs :
       (\E e \in Events : <<s, e>> \in evicted' \ evicted) => Full(s)]_vars

\* Publish returns, even when handlers publish to each other's full "block" queues
\* and some never return: the publish and handler timeouts break the circle.
PublishReturns ==
  \A p \in Publishers : ppc[p] # "idle" ~> ppc[p] = "idle"

\* A queued event is taken or evicted as long as nobody closes the subscription,
\* unless the handlers of all its workers never return.
QueuedIsTaken ==
  \A s \in Subs, e \in Events :
    e \in Queued(s) ~>
      \/ e \notin Queued(s) \/ subClosed[s]
      \/ \A w \in WorkersOf(s) : wev[w] \in Endless

\* The workers of a subscription the closed bus refused go away.
RefusedWorkersExit ==
  \A w \in Workers : phase[SubOf[w]] = "refused" ~> wpc[w] = "exited"
=============================================================================
