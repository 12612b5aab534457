------------------------------- MODULE Kernel -------------------------------
(***************************************************************************)
(* The life of a kernel (internal/kernel/kernel.go, runtime.go and the     *)
(* registration half of command_sink.go): modules are registered, or       *)
(* rolled back when a step of their registration fails; Run starts them,   *)
(* runs the drivers, and on cancellation or a driver's failure takes       *)
(* everything down again, each step bounded by a timeout.                  *)
(*                                                                         *)
(* Registrations may overlap one another and a Run: RegisterModule never   *)
(* looks whether one goes on (cmd/bot/app.go registers everything before   *)
(* its Run).  Run works on copies of the module order, taken when it       *)
(* starts the modules and again when it shuts them down.  A subscription   *)
(* is reduced to one queued event and one worker (EventBus has the         *)
(* detail).  Timers that bound a wait may have fired whenever the wait     *)
(* looks.  A hook is one step: what it does is the module's business.      *)
(***************************************************************************)
EXTENDS Integers, Sequences, SequencesExt, FiniteSets, Functions

CONSTANTS
  Mods,         \* the modules handed to RegisterModule
  NameOf,       \* their names; two modules may have the same one
  CommandsOf,   \* the commands each one declares
  Requires,     \* the services its capabilities require
  Provides,     \* the services its OnRegister registers
  Failing,      \* modules whose OnRegister or subscriptions may fail
  Subs, Owner,  \* subscriptions and the module each one belongs to
  Declared,     \* those bound from ModuleSpec.Handlers, not by OnRegister
  Services,     \* all service names
  Drivers,      \* the registered platform drivers
  Runs,         \* calls of Kernel.Run
  None

Names    == {NameOf[m] : m \in Mods}
Commands == UNION {CommandsOf[m] : m \in Mods}

ASSUME KernelAssumption ==
  /\ CommandsOf \in [Mods -> SUBSET Commands]
  /\ Requires \in [Mods -> SUBSET Services]
  /\ Provides \in [Mods -> SUBSET Services]
  /\ Failing \subseteq Mods
  /\ Owner \in [Subs -> Mods]
  /\ Declared \subseteq Subs
  /\ None \notin Names \union Mods \union Subs
  /\ Mods \intersect Runs = {}

VARIABLES
  regPc,     \* how far each RegisterModule call is
  order,     \* Kernel.moduleOrder; its range is Kernel.modules
  commands,  \* Kernel.commands: the name of the module that owns each command
  services,  \* the service registry: the module that registered each service
  tracked,   \* moduleRecord.subscriptions
  left,      \* subscriptions a rollback or a Run has taken and is still to close
  closing,   \* the one whose Close it waits for
  sub,       \* each subscription: "none", "open", "out" of the bus or "closed"
  queued,    \* subscriptions with an event in the queue
  busy,      \* subscriptions whose handler runs
  late,      \* subscriptions whose close ended in a timeout
  busClosed, \* EventBus.closed
  ctxDone,   \* the context given to Run is cancelled
  running,   \* Kernel.running
  up,        \* modules between OnStart and OnShutdown
  ready,     \* ghost: modules whose registration was over when a Run began
  run        \* each Run call, see NewRun

regVars == <<regPc, order, commands, services>>
subVars == <<tracked, left, closing, sub, queued, busy, late, busClosed>>
vars == <<regVars, subVars, ctxDone, running, up, ready, run>>

SubsOf(m) == {s \in Subs : Owner[s] = m}
Claimed   == Range(order)
Closers   == Mods \union Runs  \* a module's rollback, a Run's shutdown

\* pc: the control point, plan: its copy of the order, at: the position its
\* current loop is at, errCh: the one slot of startDrivers' channel, runErr: what the select received, shutErr:
\* whether shutdownAll met an error, drv: the driver goroutines, fatal: those
\* that ended with a fatal error.
NewRun ==
  [pc |-> "idle", plan |-> << >>, at |-> 0, errCh |-> "empty", runErr |-> "none",
   shutErr |-> FALSE, result |-> "none", drv |-> [d \in Drivers |-> "off"],
   fatal |-> {}]

Init ==
  /\ regPc = [m \in Mods |-> "new"]
  /\ order = << >>
  /\ commands = [c \in Commands |-> None]
  /\ services = [v \in Services |-> None]
  /\ tracked = [m \in Mods |-> {}]
  /\ left = [x \in Closers |-> {}] /\ closing = [x \in Closers |-> None]
  /\ sub = [s \in Subs |-> "none"]
  /\ queued = {} /\ busy = {} /\ late = {} /\ busClosed = FALSE
  /\ ctxDone = FALSE /\ running = FALSE /\ up = {} /\ ready = {}
  /\ run = [r \in Runs |-> NewRun]

-----------------------------------------------------------------------------
(* RegisterModule *)

RegStep(m, from, to) ==
  /\ regPc[m] = from
  /\ regPc' = [regPc EXCEPT ![m] = to]
  /\ UNCHANGED <<closing, queued, busy, late, busClosed, ctxDone, running, up, ready, run>>

NameFree(m) == \A n \in Claimed : NameOf[n] # NameOf[m]

Resolved(m) == \A v \in Requires[m] : services[v] # None

\* The capabilities' services resolve and the name is free: the record is in.
Claim(m) ==
  /\ Resolved(m)
  /\ NameFree(m)
  /\ order' = Append(order, m)
  /\ RegStep(m, "new", "claimed")
  /\ UNCHANGED <<commands, services, tracked, left, sub>>

\* Mutant: a refused registration is rolled back like one that failed later.
RolledBackToo == "rollback"

AfterRefusal == "refused"

Refuse(m) ==
  /\ ~(Resolved(m) /\ NameFree(m))
  /\ RegStep(m, "new", AfterRefusal)
  /\ UNCHANGED <<order, commands, services, tracked, left, sub>>

CommandsFree(m) == \A c \in CommandsOf[m] : commands[c] = None

\* registerModuleCommands: all of them or none.
RegisterCommands(m) ==
  /\ CommandsFree(m)
  /\ commands' = [c \in Commands |->
                    IF c \in CommandsOf[m] THEN NameOf[m] ELSE commands[c]]
  /\ RegStep(m, "claimed", "hook")
  /\ UNCHANGED <<order, services, tracked, left, sub>>

CommandTaken(m) ==
  /\ ~CommandsFree(m)
  /\ RegStep(m, "claimed", "rollback")
  /\ UNCHANGED <<order, commands, services, tracked, left, sub>>

\* OnRegister registers a service.
HookProvides(m, v) ==
  /\ v \in Provides[m] /\ services[v] = None
  /\ services' = [services EXCEPT ![v] = m]
  /\ RegStep(m, "hook", "hook")
  /\ UNCHANGED <<order, commands, tracked, left, sub>>

\* moduleRuntime.Subscribe, called by OnRegister or for a declared handler.
\* bus.Subscribe and addSubscription are one step here: a shutdown that takes
\* the record's list between them misses the subscription just as it does one
\* that is made after it has looked.
Stage(s) == IF s \in Declared THEN "handlers" ELSE "hook"
Subscribe(m, s) ==
  /\ s \in SubsOf(m)
  /\ sub[s] = "none" /\ ~busClosed
  /\ sub' = [sub EXCEPT ![s] = "open"]
  /\ tracked' = [tracked EXCEPT ![m] = @ \union {s}]
  /\ RegStep(m, Stage(s), Stage(s))
  /\ UNCHANGED <<order, commands, services, left>>

HookReturns(m) ==
  /\ \A s \in SubsOf(m) \ Declared : sub[s] # "none"
  /\ \A v \in Provides[m] : services[v] = m
  /\ RegStep(m, "hook", "handlers")
  /\ UNCHANGED <<order, commands, services, tracked, left, sub>>

\* OnRegister fails or panics, a service of it has been registered by another
\* module, or a subscription is refused: by a closed bus, each one.
RegistrationFails(m) ==
  /\ \/ m \in Failing
     \/ regPc[m] = "hook" /\ \E v \in Provides[m] : services[v] \notin {None, m}
     \/ busClosed /\ \E s \in SubsOf(m) : sub[s] = "none" /\ regPc[m] = Stage(s)
  /\ RegStep(m, regPc[m], "rollback")
  /\ regPc[m] \in {"hook", "handlers"}
  /\ UNCHANGED <<order, commands, services, tracked, left, sub>>

RegistrationDone(m) ==
  /\ \A s \in SubsOf(m) : sub[s] # "none"
  /\ RegStep(m, "handlers", "registered")
  /\ UNCHANGED <<order, commands, services, tracked, left, sub>>

\* closeSubscriptions takes the whole slice, and then closes one subscription
\* after the other, see Closing.
Take(x, m) ==
  /\ left' = [left EXCEPT ![x] = tracked[m]]
  /\ tracked' = [tracked EXCEPT ![m] = {}]

AllClosed(x) == left[x] = {} /\ closing[x] = None

\* rollbackModuleRegistration: subscriptions, commands, then the record.
RollbackSubscriptions(m) ==
  /\ Take(m, m)
  /\ RegStep(m, "rollback", "rollbackCommands")
  /\ UNCHANGED <<order, commands, services, sub>>

\* unregisterModuleCommands goes by the module's name.
UnregisterCommands(m) ==
  commands' = [c \in Commands |->
                 IF commands[c] = NameOf[m] THEN None ELSE commands[c]]

RollbackCommands(m) ==
  /\ AllClosed(m)
  /\ UnregisterCommands(m)
  /\ RegStep(m, "rollbackCommands", "rollbackRecord")
  /\ UNCHANGED <<order, services, tracked, left, sub>>

\* removeOrderedName; the map has the name once.
RollbackRecord(m) ==
  /\ \E i \in 1 .. Len(order) :
       NameOf[order[i]] = NameOf[m] /\ order' = RemoveAt(order, i)
  /\ RegStep(m, "rollbackRecord", "undone")
  /\ UNCHANGED <<commands, services, tracked, left, sub>>

-----------------------------------------------------------------------------
(* Run *)

FreeToRun == ~running

\* startRun, and startModules' copy of the order.
StartRun(r) ==
  /\ run[r].pc = "idle"
  /\ FreeToRun
  /\ running' = TRUE
  /\ ready' = ready \union {m \in Mods : regPc[m] = "registered"}
  /\ run' = [run EXCEPT ![r].pc = "starting", ![r].plan = order, ![r].at = 1]
  /\ UNCHANGED <<regVars, subVars, ctxDone, up>>

AlreadyRunning(r) ==
  /\ run[r].pc = "idle"
  /\ ~FreeToRun
  /\ run' = [run EXCEPT ![r].pc = "returned", ![r].result = "busy"]
  /\ UNCHANGED <<regVars, subVars, ctxDone, running, up, ready>>

\* startModules: one OnStart after the other, of whoever had claimed a name.
StartModule(r) ==
  /\ run[r].pc = "starting"
  /\ run[r].at <= Len(run[r].plan)
  /\ up' = up \union {run[r].plan[run[r].at]}
  /\ run' = [run EXCEPT ![r].at = @ + 1]
  /\ UNCHANGED <<regVars, subVars, ctxDone, running, ready>>

\* An OnStart fails: Run returns, the modules started before it stay up.
StartFails(r) ==
  /\ run[r].pc = "starting"
  /\ run[r].at <= Len(run[r].plan)
  /\ running' = FALSE
  /\ run' = [run EXCEPT ![r].pc = "returned", ![r].result = "error"]
  /\ UNCHANGED <<regVars, subVars, ctxDone, up, ready>>

\* Mutant: the drivers do not wait for the modules.
DriversFirst(r) == TRUE

ModulesStarted(r) == run[r].at > Len(run[r].plan)

StartDrivers(r) ==
  /\ run[r].pc = "starting"
  /\ ModulesStarted(r)
  /\ run' = [run EXCEPT ![r].pc = "serving",
                        ![r].drv = [d \in Drivers |-> "running"]]
  /\ UNCHANGED <<regVars, subVars, ctxDone, running, up, ready>>

\* Start returns nil or an error of its context.
DriverReturns(r, d) ==
  /\ run[r].drv[d] = "running"
  /\ run' = [run EXCEPT ![r].drv[d] = "returned"]
  /\ UNCHANGED <<regVars, subVars, ctxDone, running, up, ready>>

\* Mutant: the channel has no buffer; nobody is told once the drivers run unless
\* Run happens to wait already.
MaySend(r, e) == {e, run[r].errCh}

\* The select with a default case around the send.
TrySend(r, e) == {IF run[r].errCh = "empty" THEN e ELSE run[r].errCh}

\* Start fails or panics: the error is sent before the goroutine counts as done.
DriverFails(r, d) ==
  /\ run[r].drv[d] = "running"
  /\ \E e \in TrySend(r, "fatal") :
       run' = [run EXCEPT ![r].drv[d] = "returned", ![r].errCh = e,
                          ![r].fatal = @ \union {d}]
  /\ UNCHANGED <<regVars, subVars, ctxDone, running, up, ready>>

DriversDone(r) == \A d \in Drivers : run[r].drv[d] = "returned"

\* The goroutine that waits for every driver and says so.
AnnounceDone(r) ==
  /\ run[r].pc \in {"serving", "winding"}
  /\ DriversDone(r)
  /\ run[r].errCh = "empty"
  /\ run' = [run EXCEPT ![r].errCh = "canceled"]
  /\ UNCHANGED <<regVars, subVars, ctxDone, running, up, ready>>

CancelContext ==
  /\ ~ctxDone
  /\ ctxDone' = TRUE
  /\ UNCHANGED <<regVars, subVars, running, up, ready, run>>

\* The select in Run; runCancel follows.
SeeCancel(r) ==
  /\ run[r].pc = "serving"
  /\ ctxDone
  /\ run' = [run EXCEPT ![r].pc = "winding", ![r].runErr = "canceled"]
  /\ UNCHANGED <<regVars, subVars, ctxDone, running, up, ready>>

SeeDriverError(r) ==
  /\ run[r].pc = "serving"
  /\ run[r].errCh # "empty"
  /\ run' = [run EXCEPT ![r].pc = "winding", ![r].runErr = run[r].errCh,
                        ![r].errCh = "empty"]
  /\ UNCHANGED <<regVars, subVars, ctxDone, running, up, ready>>

\* Mutant: the wait for the drivers has no timeout.
DriversGone(r) == DriversDone(r)

\* The drivers are done, or shutdownTimeout has passed.
WaitOver(r) == TRUE

WaitDrivers(r) ==
  /\ run[r].pc = "winding"
  /\ WaitOver(r)
  /\ run' = [run EXCEPT ![r].pc = "drivers"]
  /\ UNCHANGED <<regVars, subVars, ctxDone, running, up, ready>>

-----------------------------------------------------------------------------
(* shutdownAll *)

\* Driver.Shutdown, in reverse order; what matters here is whether one failed.
\* Then shutdownModules' copy of the order.
StopDrivers(r) ==
  /\ run[r].pc = "drivers"
  /\ \E failed \in BOOLEAN :
       run' = [run EXCEPT ![r].pc = "modules", ![r].plan = order, ![r].at = Len(order),
                          ![r].shutErr = failed]
  /\ UNCHANGED <<regVars, subVars, ctxDone, running, up, ready>>

\* In reverse order: the subscriptions of a module, then its OnShutdown.
TakeSubscriptions(r) ==
  /\ run[r].pc = "modules" /\ run[r].at > 0
  /\ Take(r, run[r].plan[run[r].at])
  /\ run' = [run EXCEPT ![r].pc = "closing"]
  /\ UNCHANGED <<regVars, closing, sub, queued, busy, late, busClosed, ctxDone, running, up, ready>>

StopModule(r) ==
  /\ run[r].pc = "closing" /\ AllClosed(r)
  /\ up' = up \ {run[r].plan[run[r].at]}
  /\ \E failed \in BOOLEAN :
       run' = [run EXCEPT ![r].pc = "modules", ![r].at = @ - 1, ![r].shutErr = @ \/ failed]
  /\ UNCHANGED <<regVars, subVars, ctxDone, running, ready>>

\* EventBus.Close: what it has left, all at once.
InBus == {s \in Subs : sub[s] = "open"}

CloseBus(r) ==
  /\ run[r].pc = "modules" /\ run[r].at = 0
  /\ left' = [left EXCEPT ![r] = InBus]
  /\ sub' = [s \in Subs |-> IF s \in InBus THEN "out" ELSE sub[s]]
  /\ busClosed' = TRUE
  /\ run' = [run EXCEPT ![r].pc = "bus"]
  /\ UNCHANGED <<regVars, tracked, closing, queued, busy, late, ctxDone, running, up, ready>>

\* isContextCancellation and the last lines of Run.
Outcome(r) ==
  IF run[r].runErr = "fatal" \/ run[r].shutErr THEN "error" ELSE "nil"

RunReturns(r) ==
  /\ run[r].pc = "bus" /\ AllClosed(r)
  /\ running' = FALSE
  /\ run' = [run EXCEPT ![r].pc = "returned", ![r].result = Outcome(r)]
  /\ UNCHANGED <<regVars, subVars, ctxDone, up, ready>>

-----------------------------------------------------------------------------
(* Closing *)

AtBus(x) == x \in Runs /\ run[x].pc = "bus"

\* Subscription.Close takes it out of the bus and waits for its worker;
\* EventBus.Close had taken its own out.
CloseNext(x, s) ==
  /\ closing[x] = None /\ s \in left[x]
  /\ sub[s] = "open" \/ AtBus(x)
  /\ left' = [left EXCEPT ![x] = @ \ {s}]
  /\ closing' = [closing EXCEPT ![x] = s]
  /\ sub' = [sub EXCEPT ![s] = "out"]
  /\ UNCHANGED <<regVars, tracked, queued, busy, late, busClosed, ctxDone, running, up, ready, run>>

\* It is not in the bus any more: nothing to do.
NothingToClose(x, s) ==
  /\ closing[x] = None /\ s \in left[x]
  /\ sub[s] # "open" /\ ~AtBus(x)
  /\ left' = [left EXCEPT ![x] = @ \ {s}]
  /\ UNCHANGED <<regVars, tracked, closing, sub, queued, busy, late, busClosed, ctxDone, running,
                 up, ready, run>>

Quiet(s) == s \notin queued \union busy

Closed(x, s) ==
  /\ closing[x] = s
  /\ closing' = [closing EXCEPT ![x] = None]
  /\ sub' = [sub EXCEPT ![s] = "closed"]
  /\ UNCHANGED <<regVars, tracked, left, queued, busy, busClosed, ctxDone, running, up, ready>>

CloseReturnsNil(x, s) == Closed(x, s) /\ Quiet(s) /\ UNCHANGED <<late, run>>

\* Mutant: the close's error is dropped.
Swallow(r) == run' = run

JoinError(r) == run' = [run EXCEPT ![r].shutErr = TRUE]

\* A rollback's error only goes to onAsyncError.
CloseTimesOut(x, s) ==
  /\ Closed(x, s)
  /\ late' = late \union {s}
  /\ IF x \in Runs THEN JoinError(x) ELSE UNCHANGED run

CloserStep(x) ==
  \E s \in Subs : CloseNext(x, s) \/ NothingToClose(x, s) \/ CloseReturnsNil(x, s) \/ CloseTimesOut(x, s)

-----------------------------------------------------------------------------
(* Events *)

\* A driver publishes an event a subscription matches.
Publish(r, d, s) ==
  /\ run[r].drv[d] = "running"
  /\ sub[s] = "open"
  /\ s \notin queued
  /\ queued' = queued \union {s}
  /\ UNCHANGED <<regVars, tracked, left, closing, sub, busy, late, busClosed, ctxDone, running, up, ready, run>>

HandlerStarts(s) ==
  /\ s \in queued \ busy
  /\ queued' = queued \ {s}
  /\ busy' = busy \union {s}
  /\ UNCHANGED <<regVars, tracked, left, closing, sub, late, busClosed, ctxDone, running, up, ready, run>>

HandlerEnds(s) ==
  /\ s \in busy
  /\ busy' = busy \ {s}
  /\ UNCHANGED <<regVars, tracked, left, closing, sub, queued, late, busClosed, ctxDone, running, up, ready, run>>

\* The worker of a subscription whose close timed out sees its context done.
Abandon(s) ==
  /\ s \in (queued \intersect late) \ busy
  /\ queued' = queued \ {s}
  /\ UNCHANGED <<regVars, tracked, left, closing, sub, busy, late, busClosed, ctxDone, running, up, ready, run>>

-----------------------------------------------------------------------------
Register(m) ==
  \/ Claim(m) \/ Refuse(m) \/ RegisterCommands(m) \/ CommandTaken(m)
  \/ \E v \in Services : HookProvides(m, v)
  \/ \E s \in Subs : Subscribe(m, s)
  \/ HookReturns(m) \/ RegistrationFails(m) \/ RegistrationDone(m)
  \/ RollbackSubscriptions(m) \/ RollbackCommands(m) \/ RollbackRecord(m)
  \/ CloserStep(m)

RunStep(r) ==
  \/ StartModule(r) \/ StartFails(r) \/ StartDrivers(r)
  \/ SeeCancel(r) \/ SeeDriverError(r) \/ WaitDrivers(r) \/ StopDrivers(r)
  \/ TakeSubscriptions(r) \/ CloserStep(r) \/ StopModule(r)
  \/ CloseBus(r) \/ RunReturns(r)

DriverStep(r, d) ==
  \/ DriverReturns(r, d) \/ DriverFails(r, d)
  \/ \E s \in Subs : Publish(r, d, s)

Next ==
  \/ \E m \in Mods : Register(m)
  \/ CancelContext
  \/ \E r \in Runs :
       \/ StartRun(r) \/ AlreadyRunning(r) \/ RunStep(r) \/ AnnounceDone(r)
       \/ \E d \in Drivers : DriverStep(r, d)
  \/ \E s \in Subs : HandlerStarts(s) \/ HandlerEnds(s) \/ Abandon(s)

Spec == Init /\ [][Next]_vars

(***************************************************************************)
(* Fairness.  Run's own goroutine, and the one that waits for the drivers, *)
(* are scheduled; hooks are called with a deadline and are assumed to      *)
(* return.  Drivers need not return, handlers need not end, and nobody     *)
(* has to cancel the context.                                              *)
(***************************************************************************)
FairSpec ==
  /\ Spec
  /\ \A r \in Runs : WF_vars(RunStep(r)) /\ WF_vars(AnnounceDone(r))
-----------------------------------------------------------------------------
(* Properties *)

Active == {"starting", "serving", "winding", "drivers", "modules", "closing", "bus"}

TypeOK ==
  /\ regPc \in [Mods -> {"new", "claimed", "hook", "handlers", "registered",
                         "refused", "rollback", "rollbackCommands",
                         "rollbackRecord", "undone"}]
  /\ order \in Seq(Mods)
  /\ \A i, j \in 1 .. Len(order) :  \* the names are the keys of a map
       NameOf[order[i]] = NameOf[order[j]] => i = j
  /\ commands \in [Commands -> Names \union {None}]
  /\ services \in [Services -> Mods \union {None}]
  /\ tracked \in [Mods -> SUBSET Subs]
  /\ left \in [Closers -> SUBSET Subs] /\ closing \in [Closers -> Subs \union {None}]
  /\ sub \in [Subs -> {"none", "open", "out", "closed"}]
  /\ queued \subseteq Subs /\ busy \subseteq Subs /\ late \subseteq Subs
  /\ busClosed \in BOOLEAN /\ ctxDone \in BOOLEAN /\ running \in BOOLEAN
  /\ up \subseteq Mods /\ ready \subseteq Mods
  /\ run \in [Runs ->
       [pc : Active \union {"idle", "returned"}, plan : Seq(Mods), at : Nat,
        errCh : {"empty", "fatal", "canceled"},
        runErr : {"none", "fatal", "canceled"}, shutErr : BOOLEAN,
        result : {"none", "busy", "error", "nil"},
        drv : [Drivers -> {"off", "running", "returned"}],
        fatal : SUBSET Drivers]]

\* A registered module owns all its commands and, until a Run takes everything
\* down, all its subscriptions: no other registration, failed or not, touches them
\* (RegisterModule, rollbackModuleRegistration, unregisterModuleCommands).
ShutsDown == busClosed \/ \E r \in Runs : run[r].pc \in {"modules", "closing"}

RegisteredIsWired ==
  \A m \in Mods : regPc[m] = "registered" =>
    /\ \A c \in CommandsOf[m] : commands[c] = NameOf[m]
    /\ ~ShutsDown =>
         /\ SubsOf(m) \subseteq tracked[m]
         /\ \A s \in SubsOf(m) : sub[s] = "open"

\* A registration that failed leaves nothing: not its name, not a command that no
\* registered module owns, not an open subscription, unless a Run that shuts down
\* took it before the rollback could (rollbackModuleRegistration).
InHand(x, s) == s \in left[x] \/ closing[x] = s

FailedLeavesNothing ==
  /\ \A m \in Mods : regPc[m] \in {"refused", "undone"} =>
       /\ m \notin Claimed
       /\ \A s \in SubsOf(m) : sub[s] \in {"none", "closed"} \/ \E r \in Runs : InHand(r, s)
  /\ \A c \in Commands : commands[c] # None =>
       \E m \in Claimed : NameOf[m] = commands[c] /\ c \in CommandsOf[m]

\* A registration is all or nothing, and its rollback takes back what was its own
\* and nothing else, whatever other registrations do meanwhile, and a Run that
\* starts, serves or shuts down (RegisterModule).
AllOrNothing == RegisteredIsWired /\ FailedLeavesNothing

\* The second of two concurrent Run calls is refused (startRun, finishRun).
OneRun == Cardinality({r \in Runs : run[r].pc \in Active}) <= 1

\* Between OnStart and OnShutdown: no handler of a module that was registered
\* before a Run runs before its OnStart returned, and none runs after its
\* OnShutdown unless closing its subscription timed out (startModules,
\* startDrivers, shutdownModules).
HandlersWithinLife ==
  \A s \in busy : Owner[s] \in ready => Owner[s] \in up \/ s \in late

\* What nil says of a Run.  While the context lives: every driver has ended and
\* none of them with a fatal error (startDrivers, Run).  In any case: of the
\* modules that were registered before a Run no handler is left running and none
\* is up, unless another Run failed or still goes on (shutdownAll and the errors
\* it joins).
NilMeansClean ==
  \A r \in Runs : run[r].result = "nil" =>
    /\ ctxDone \/ (DriversDone(r) /\ run[r].fatal = {})
    /\ \/ up \intersect ready = {} /\ \A s \in busy : Owner[s] \notin ready
       \/ \E q \in Runs : run[q].pc \in Active \/ run[q].result = "error"

\* Once its context is cancelled or a driver failed, a Run returns, though drivers
\* and handlers may never end (waitDrivers, shutdownAll).
RunEnds ==
  \A r \in Runs :
    run[r].pc \in Active /\ (ctxDone \/ run[r].fatal # {})
      ~> run[r].pc = "returned"
=============================================================================
