--------------------------- MODULE EventBusProofs ---------------------------
(***************************************************************************)
(* Proofs about the event bus, for any number of subscriptions, workers,   *)
(* publishers, closing calls and events.                                   *)
(***************************************************************************)
EXTENDS EventBus, TLAPS

\* What Next does, action by action.
LEMMA NextSplit ==
  ASSUME Next
  PROVE  \/ \E s \in Subs :
              CreateSubscription(s) \/ Register(s) \/ RejectSubscription(s)
         \/ \E p \in Publishers, e \in Events :
              PublishBegin(p, e) \/ PublishRefused(p, e)
         \/ \E p \in Publishers, s \in Subs :
              EnqueueClosed(p, s) \/ EnqueueOpen(p, s)
         \/ \E p \in Publishers :
              \/ SendAccept(p) \/ SendEvict(p) \/ SendDrop(p)
              \/ SendCancelled(p) \/ PublishEnd(p)
         \/ \E w \in Workers : Take(w) \/ HandlerReturns(w) \/ WorkerExit(w)
         \/ \E c \in Closers :
              \/ CloseBus(c) \/ CloseBusAgain(c) \/ CheckQueue(c)
              \/ DrainTimeout(c) \/ CancelWorkers(c) \/ WaitDone(c)
              \/ WaitTimeout(c) \/ CloseReturns(c)
         \/ \E c \in Closers, s \in Subs :
              Unsubscribe(c, s) \/ ShutdownBegin(c, s)
BY DEF Next, SubscribeStep, PublishStep, CloseStep

LEMMA TypeInit == Init => TypeOK
<1> SUFFICES ASSUME Init PROVE TypeOK
  OBVIOUS
<1>1. /\ closed \in BOOLEAN
      /\ phase \in [Subs -> {"absent", "created", "registered", "removed",
                             "refused"}]
  BY DEF Init
<1>2. /\ subClosed \in [Subs -> BOOLEAN]
      /\ cancelled \in [Subs -> BOOLEAN]
  BY DEF Init
<1>3. queue \in [Subs -> Seq(Events)] /\ sent \in [Publishers -> Seq(Events)]
  BY DEF Init
<1> QED
  BY <1>1, <1>2, <1>3 DEF Init, TypeOK

LEMMA TypeStep == TypeOK /\ ControlInv /\ [Next]_vars => TypeOK'
<1> SUFFICES ASSUME TypeOK, ControlInv, [Next]_vars PROVE TypeOK'
  OBVIOUS
<1> USE BusAssumption DEF subVars, workVars, pubVars, closeVars, history
<1>1. CASE UNCHANGED vars
  BY <1>1 DEF TypeOK, vars
<1>2. ASSUME NEW s \in Subs,
             CreateSubscription(s) \/ Register(s) \/ RejectSubscription(s)
      PROVE  TypeOK'
  <2>1. CASE CreateSubscription(s)
    BY <2>1 DEF TypeOK, CreateSubscription
  <2>2. CASE Register(s)
    BY <2>2 DEF TypeOK, Register
  <2>3. CASE RejectSubscription(s)
    BY <2>3 DEF TypeOK, RejectSubscription
  <2> QED BY <1>2, <2>1, <2>2, <2>3
<1>3. ASSUME NEW p \in Publishers, NEW e \in Events,
             PublishBegin(p, e) \/ PublishRefused(p, e)
      PROVE  TypeOK'
  <2>1. CASE PublishBegin(p, e)
    BY <2>1 DEF TypeOK, PublishBegin, Matching
  <2>2. CASE PublishRefused(p, e)
    BY <2>2 DEF TypeOK, PublishRefused
  <2> QED BY <1>3, <2>1, <2>2
<1>4. ASSUME NEW p \in Publishers, NEW s \in Subs,
             EnqueueClosed(p, s) \/ EnqueueOpen(p, s)
      PROVE  TypeOK'
  <2>1. CASE EnqueueClosed(p, s)
    BY <2>1 DEF TypeOK, ControlInv, EnqueueClosed, GoOnFrom, Tell
  <2>2. CASE EnqueueOpen(p, s)
    BY <2>2 DEF TypeOK, EnqueueOpen, GoOnFrom, FirstAttempt
  <2> QED BY <1>4, <2>1, <2>2
<1>5. ASSUME NEW p \in Publishers,
             \/ SendAccept(p) \/ SendEvict(p) \/ SendDrop(p)
             \/ SendCancelled(p) \/ PublishEnd(p)
      PROVE  TypeOK'
  <2>1. CASE SendAccept(p)
    <3> DEFINE s == pcur[p]
    <3>1. s \in Subs /\ pev[p] \in Events /\ queue[s] \in Seq(Events)
      BY <2>1 DEF TypeOK, ControlInv, SendAccept
    <3>2. Append(queue[s], pev[p]) \in Seq(Events)
      BY <3>1
    <3>3. queue' \in [Subs -> Seq(Events)] /\ late' \subseteq Subs \X Events
      BY <2>1, <3>1, <3>2 DEF TypeOK, SendAccept, Enqueue
    <3>4. ppc' \in [Publishers -> {"idle", "fanout", "send"}] /\ pcur' \in [Publishers -> Subs \union {None}]
      BY <2>1 DEF TypeOK, SendAccept, LeaveEnqueue
    <3> QED  BY <2>1, <3>3, <3>4 DEF TypeOK, SendAccept, Enqueue, subVars, workVars, closeVars
  <2>2. CASE SendEvict(p)
    BY <2>2 DEF TypeOK, ControlInv, SendEvict
  <2>3. CASE SendDrop(p)
    BY <2>3 DEF TypeOK, ControlInv, SendDrop, Tell, LeaveEnqueue
  <2>4. CASE SendCancelled(p)
    BY <2>4 DEF TypeOK, ControlInv, SendCancelled, Tell, LeaveEnqueue
  <2>5. CASE PublishEnd(p)
    BY <2>5 DEF TypeOK, PublishEnd
  <2> QED BY <1>5, <2>1, <2>2, <2>3, <2>4, <2>5
<1>6. ASSUME NEW w \in Workers, Take(w) \/ HandlerReturns(w) \/ WorkerExit(w)
      PROVE  TypeOK'
  <2>1. CASE Take(w)
    BY <2>1 DEF TypeOK, Take
  <2>2. CASE HandlerReturns(w) \/ WorkerExit(w)
    BY <2>2 DEF TypeOK, HandlerReturns, WorkerExit, AfterHandler
  <2> QED BY <1>6, <2>1, <2>2
<1>7. ASSUME NEW c \in Closers,
             \/ CloseBus(c) \/ CloseBusAgain(c) \/ CheckQueue(c)
             \/ DrainTimeout(c) \/ CancelWorkers(c) \/ WaitDone(c)
             \/ WaitTimeout(c) \/ CloseReturns(c)
      PROVE  TypeOK'
  <2>1. CASE CloseBus(c)
    BY <2>1 DEF TypeOK, CloseBus
  <2>7. CASE CloseBusAgain(c)
    BY <2>7 DEF TypeOK, CloseBusAgain
  <2>2. CASE CheckQueue(c)
    BY <2>2 DEF TypeOK, CheckQueue
  <2>3. CASE DrainTimeout(c)
    BY <2>3 DEF TypeOK, ControlInv, DrainTimeout
  <2>4. CASE CancelWorkers(c)
    BY <2>4 DEF TypeOK, ControlInv, CancelWorkers
  <2>5. CASE WaitDone(c)
    BY <2>5 DEF TypeOK, ControlInv, WaitDone
  <2>6. CASE WaitTimeout(c) \/ CloseReturns(c)
    BY <2>6 DEF TypeOK, WaitTimeout, CloseReturns
  <2> QED BY <1>7, <2>1, <2>2, <2>3, <2>4, <2>5, <2>6, <2>7
<1>8. ASSUME NEW c \in Closers, NEW s \in Subs,
             Unsubscribe(c, s) \/ ShutdownBegin(c, s)
      PROVE  TypeOK'
  <2>1. CASE Unsubscribe(c, s)
    BY <2>1 DEF TypeOK, Unsubscribe
  <2>2. CASE ShutdownBegin(c, s)
    BY <2>2 DEF TypeOK, ShutdownBegin
  <2> QED BY <1>8, <2>1, <2>2
<1> QED
  BY <1>1, <1>2, <1>3, <1>4, <1>5, <1>6, <1>7, <1>8, NextSplit

-----------------------------------------------------------------------------
(* Goroutines have at hand what their control point says. *)

LEMMA ControlInit == Init => ControlInv
BY BusAssumption DEF Init, ControlInv

LEMMA ControlStep == TypeOK /\ ControlInv /\ [Next]_vars => ControlInv'
<1> SUFFICES ASSUME TypeOK, ControlInv, [Next]_vars PROVE ControlInv'
  OBVIOUS
<1> USE BusAssumption DEF subVars, workVars, pubVars, closeVars, history
<1>1. CASE UNCHANGED vars
  BY <1>1 DEF ControlInv, vars
<1>2. ASSUME NEW s \in Subs,
             CreateSubscription(s) \/ Register(s) \/ RejectSubscription(s)
      PROVE  ControlInv'
  BY <1>2 DEF ControlInv, CreateSubscription, Register, RejectSubscription
<1>3. ASSUME NEW p \in Publishers, NEW e \in Events,
             PublishBegin(p, e) \/ PublishRefused(p, e)
      PROVE  ControlInv'
  <2>1. CASE PublishBegin(p, e)
    BY <2>1 DEF TypeOK, ControlInv, PublishBegin, MayPublish
  <2>2. CASE PublishRefused(p, e)
    BY <2>2 DEF ControlInv, PublishRefused
  <2> QED BY <1>3, <2>1, <2>2
<1>4. ASSUME NEW p \in Publishers, NEW s \in Subs,
             EnqueueClosed(p, s) \/ EnqueueOpen(p, s)
      PROVE  ControlInv'
  <2>1. CASE EnqueueClosed(p, s)
    BY <2>1 DEF TypeOK, ControlInv, EnqueueClosed, GoOnFrom
  <2>2. CASE EnqueueOpen(p, s)
    BY <2>2 DEF TypeOK, ControlInv, EnqueueOpen, GoOnFrom
  <2> QED BY <1>4, <2>1, <2>2
<1>5. ASSUME NEW p \in Publishers,
             \/ SendAccept(p) \/ SendEvict(p) \/ SendDrop(p)
             \/ SendCancelled(p) \/ PublishEnd(p)
      PROVE  ControlInv'
  <2>1. CASE SendAccept(p)
    BY <2>1 DEF TypeOK, ControlInv, SendAccept, LeaveEnqueue
  <2>4. CASE SendDrop(p)
    BY <2>4 DEF TypeOK, ControlInv, SendDrop, LeaveEnqueue
  <2>5. CASE SendCancelled(p)
    BY <2>5 DEF TypeOK, ControlInv, SendCancelled, LeaveEnqueue
  <2>2. CASE SendEvict(p)
    BY <2>2 DEF ControlInv, SendEvict
  <2>3. CASE PublishEnd(p)
    BY <2>3 DEF TypeOK, ControlInv, PublishEnd
  <2> QED BY <1>5, <2>1, <2>2, <2>3, <2>4, <2>5
<1>6. ASSUME NEW w \in Workers, Take(w) \/ HandlerReturns(w) \/ WorkerExit(w)
      PROVE  ControlInv'
  <2>1. CASE Take(w)
    <3>1. Head(queue[SubOf[w]]) \in Events
      BY <2>1 DEF TypeOK, Take
    <3> QED BY <2>1, <3>1 DEF TypeOK, ControlInv, Take
  <2>2. CASE HandlerReturns(w)
    BY <2>2 DEF TypeOK, ControlInv, HandlerReturns, AfterHandler
  <2>3. CASE WorkerExit(w)
    BY <2>3 DEF TypeOK, ControlInv, WorkerExit
  <2> QED BY <1>6, <2>1, <2>2, <2>3
<1>7. ASSUME NEW c \in Closers,
             \/ CloseBus(c) \/ CloseBusAgain(c) \/ CheckQueue(c)
             \/ DrainTimeout(c) \/ CancelWorkers(c) \/ WaitDone(c)
             \/ WaitTimeout(c) \/ CloseReturns(c)
      PROVE  ControlInv'
  <2>1. CASE CloseBus(c)
    BY <2>1 DEF TypeOK, ControlInv, CloseBus
  <2>2. CASE CloseBusAgain(c)
    BY <2>2 DEF TypeOK, ControlInv, CloseBusAgain
  <2>3. CASE CheckQueue(c)
    BY <2>3 DEF TypeOK, ControlInv, CheckQueue
  <2>4. CASE DrainTimeout(c)
    BY <2>4 DEF TypeOK, ControlInv, DrainTimeout
  <2>5. CASE CancelWorkers(c)
    BY <2>5 DEF TypeOK, ControlInv, CancelWorkers
  <2>6. CASE WaitDone(c)
    BY <2>6 DEF TypeOK, ControlInv, WaitDone
  <2>7. CASE WaitTimeout(c)
    BY <2>7 DEF TypeOK, ControlInv, WaitTimeout
  <2>8. CASE CloseReturns(c)
    BY <2>8 DEF TypeOK, ControlInv, CloseReturns
  <2> QED BY <1>7, <2>1, <2>2, <2>3, <2>4, <2>5, <2>6, <2>7, <2>8
<1>8. ASSUME NEW c \in Closers, NEW s \in Subs,
             Unsubscribe(c, s) \/ ShutdownBegin(c, s)
      PROVE  ControlInv'
  <2>1. CASE Unsubscribe(c, s)
    BY <2>1 DEF TypeOK, ControlInv, Unsubscribe
  <2>2. CASE ShutdownBegin(c, s)
    BY <2>2 DEF TypeOK, ControlInv, ShutdownBegin
  <2> QED BY <1>8, <2>1, <2>2
<1> QED
  BY <1>1, <1>2, <1>3, <1>4, <1>5, <1>6, <1>7, <1>8, NextSplit

-----------------------------------------------------------------------------
(* The life of a subscription. *)

\* Only Subscribe and the closing calls move a subscription through its life.
LifeVars == <<closed, phase, subClosed, cancelled, cpc, ctodo, ccur>>

Life == ClosingInv /\ LifecycleInv /\ OneShutdown

LEMMA LifeInit == Init => Life
BY BusAssumption DEF Init, Life, ClosingInv, LifecycleInv, OneShutdown

LEMMA LifeStep == TypeOK /\ ControlInv /\ Life /\ [Next]_vars => Life'
<1> SUFFICES ASSUME TypeOK, ControlInv, Life, [Next]_vars PROVE Life'
  OBVIOUS
<1> USE BusAssumption
        DEF subVars, closeVars, Life, ClosingInv, LifecycleInv, OneShutdown
<1>1. CASE UNCHANGED LifeVars
  BY <1>1 DEF LifeVars
<1>2. ASSUME NEW s \in Subs,
             CreateSubscription(s) \/ Register(s) \/ RejectSubscription(s)
      PROVE  Life'
  <2>1. CASE CreateSubscription(s)
    BY <2>1 DEF TypeOK, CreateSubscription
  <2>2. CASE Register(s)
    BY <2>2 DEF TypeOK, Register, MayRegister
  <2>3. CASE RejectSubscription(s)
    BY <2>3 DEF TypeOK, RejectSubscription, MayRegister
  <2> QED BY <1>2, <2>1, <2>2, <2>3
<1>3. ASSUME NEW c \in Closers,
             \/ CloseBus(c) \/ CloseBusAgain(c) \/ CheckQueue(c)
             \/ DrainTimeout(c) \/ CancelWorkers(c) \/ WaitDone(c)
             \/ WaitTimeout(c) \/ CloseReturns(c)
      PROVE  Life'
  <2>1. CASE CloseBus(c)
    BY <2>1 DEF TypeOK, ControlInv, CloseBus, InMap
  <2>2. CASE CloseBusAgain(c) \/ CheckQueue(c) \/ CloseReturns(c)
    <3>1. UNCHANGED <<closed, phase, subClosed, cancelled, ctodo, ccur>>
      BY <2>2 DEF CloseBusAgain, CheckQueue, CloseReturns
    <3>2. LifecycleInv' /\ ClosingInv'
      BY <3>1
    <3>3. OneShutdown'
      BY <3>1
    <3> QED BY <3>2, <3>3
  <2>3. CASE DrainTimeout(c)
    BY <2>3 DEF TypeOK, ControlInv, DrainTimeout
  <2>4. CASE CancelWorkers(c)
    BY <2>4 DEF TypeOK, ControlInv, CancelWorkers
  <2>5. CASE WaitDone(c)
    BY <2>5 DEF TypeOK, ControlInv, WaitDone
  <2>6. CASE WaitTimeout(c)
    BY <2>6 DEF TypeOK, ControlInv, WaitTimeout
  <2> QED BY <1>3, <2>1, <2>2, <2>3, <2>4, <2>5, <2>6
<1>4. ASSUME NEW c \in Closers, NEW s \in Subs,
             Unsubscribe(c, s) \/ ShutdownBegin(c, s)
      PROVE  Life'
  <2>1. CASE Unsubscribe(c, s)
    BY <2>1 DEF TypeOK, ControlInv, Unsubscribe, InMap
  <2>2. CASE ShutdownBegin(c, s)
    BY <2>2 DEF TypeOK, ControlInv, ShutdownBegin
  <2> QED BY <1>4, <2>1, <2>2
<1>5. ASSUME NEW p \in Publishers, NEW e \in Events,
             PublishBegin(p, e) \/ PublishRefused(p, e)
      PROVE  UNCHANGED LifeVars
  BY <1>5 DEF PublishBegin, PublishRefused, LifeVars
<1>6. ASSUME NEW p \in Publishers, NEW s \in Subs,
             EnqueueClosed(p, s) \/ EnqueueOpen(p, s)
      PROVE  UNCHANGED LifeVars
  BY <1>6 DEF EnqueueClosed, EnqueueOpen, LifeVars
<1>7. ASSUME NEW p \in Publishers,
             \/ SendAccept(p) \/ SendEvict(p) \/ SendDrop(p)
             \/ SendCancelled(p) \/ PublishEnd(p)
      PROVE  UNCHANGED LifeVars
  BY <1>7 DEF SendAccept, SendEvict, SendDrop, SendCancelled, PublishEnd, LifeVars
<1>8. ASSUME NEW w \in Workers, Take(w) \/ HandlerReturns(w) \/ WorkerExit(w)
      PROVE  UNCHANGED LifeVars
  BY <1>8 DEF Take, HandlerReturns, WorkerExit, LifeVars
<1>9. UNCHANGED vars => UNCHANGED LifeVars
  BY DEF vars, LifeVars
<1> QED
  BY <1>1, <1>2, <1>3, <1>4, <1>5, <1>6, <1>7, <1>8, <1>9, NextSplit

-----------------------------------------------------------------------------
(* What a finished shutdown leaves behind. *)

\* A worker that has exited stays so, and only WaitDone finishes a shutdown.
LEMMA QuietStep ==
  TypeOK /\ StoppedIsQuiet /\ [Next]_vars => StoppedIsQuiet'
<1> SUFFICES ASSUME TypeOK, StoppedIsQuiet, [Next]_vars PROVE StoppedIsQuiet'
  OBVIOUS
<1> USE BusAssumption DEF workVars, history, StoppedIsQuiet, WorkersOf
<1> DEFINE Still == UNCHANGED <<wpc, stopped>>
<1>1. Still => StoppedIsQuiet'
  OBVIOUS
<1>2. ASSUME NEW s \in Subs,
             CreateSubscription(s) \/ Register(s) \/ RejectSubscription(s)
      PROVE  Still
  BY <1>2 DEF CreateSubscription, Register, RejectSubscription
<1>3. ASSUME NEW p \in Publishers, NEW e \in Events,
             PublishBegin(p, e) \/ PublishRefused(p, e)
      PROVE  Still
  BY <1>3 DEF PublishBegin, PublishRefused
<1>4. ASSUME NEW p \in Publishers, NEW s \in Subs,
             EnqueueClosed(p, s) \/ EnqueueOpen(p, s)
      PROVE  Still
  BY <1>4 DEF EnqueueClosed, EnqueueOpen
<1>5. ASSUME NEW p \in Publishers,
             \/ SendAccept(p) \/ SendEvict(p) \/ SendDrop(p)
             \/ SendCancelled(p) \/ PublishEnd(p)
      PROVE  Still
  BY <1>5 DEF SendAccept, SendEvict, SendDrop, SendCancelled, PublishEnd
<1>6. ASSUME NEW w \in Workers, Take(w) \/ HandlerReturns(w) \/ WorkerExit(w)
      PROVE  StoppedIsQuiet'
  BY <1>6 DEF TypeOK, Take, HandlerReturns, WorkerExit
<1>7. ASSUME NEW c \in Closers,
             \/ CloseBus(c) \/ CloseBusAgain(c) \/ CheckQueue(c)
             \/ DrainTimeout(c) \/ CancelWorkers(c) \/ WaitTimeout(c)
             \/ CloseReturns(c)
      PROVE  Still
  BY <1>7 DEF CloseBus, CloseBusAgain, CheckQueue, DrainTimeout, CancelWorkers,
     WaitTimeout, CloseReturns
<1>8. ASSUME NEW c \in Closers, WaitDone(c)
      PROVE  StoppedIsQuiet'
  BY <1>8 DEF WaitDone, WorkersGone
<1>9. ASSUME NEW c \in Closers, NEW s \in Subs,
             Unsubscribe(c, s) \/ ShutdownBegin(c, s)
      PROVE  Still
  BY <1>9 DEF Unsubscribe, ShutdownBegin
<1>10. UNCHANGED vars => Still
  BY DEF vars
<1> QED
  BY <1>1, <1>2, <1>3, <1>4, <1>5, <1>6, <1>7, <1>8, <1>9, <1>10, NextSplit

\* Removing the head of a queue removes nothing but its head; appending adds
\* nothing but the appended element.
LEMMA RangeTail ==
  ASSUME NEW S, NEW q \in Seq(S), q # << >>
  PROVE  Range(Tail(q)) \subseteq Range(q)
<1>1. \A i \in DOMAIN Tail(q) : i + 1 \in DOMAIN q /\ Tail(q)[i] = q[i + 1]
  OBVIOUS
<1> QED BY <1>1 DEF Range

LEMMA RangeAppend ==
  ASSUME NEW S, NEW q \in Seq(S), NEW e \in S
  PROVE  Range(Append(q, e)) \subseteq Range(q) \union {e}
<1>1. \A i \in DOMAIN Append(q, e) :
        \/ i \in DOMAIN q /\ Append(q, e)[i] = q[i]
        \/ Append(q, e)[i] = e
  OBVIOUS
<1> QED BY <1>1 DEF Range

\* All that is queued for s was enqueued after s was marked closed.
OnlyLate(s) == {s} \X Queued(s) \subseteq late

\* Once that holds of a closed subscription it holds for good.
LEMMA OnlyLateStep ==
  ASSUME TypeOK, ControlInv, [Next]_vars, NEW s \in Subs, subClosed[s], OnlyLate(s)
  PROVE  OnlyLate(s)'
<1> USE BusAssumption DEF subVars, workVars, history, OnlyLate
<1> DEFINE Still == UNCHANGED <<queue, late>>
<1>1. Still => OnlyLate(s)'
  BY DEF Queued
<1>2. \A q \in Seq(Events) : q # << >> => Range(Tail(q)) \subseteq Range(q)
  BY RangeTail
<1>3. ASSUME NEW t \in Subs,
             CreateSubscription(t) \/ Register(t) \/ RejectSubscription(t)
      PROVE  Still
  BY <1>3 DEF CreateSubscription, Register, RejectSubscription
<1>4. ASSUME NEW p \in Publishers, NEW e \in Events,
             PublishBegin(p, e) \/ PublishRefused(p, e)
      PROVE  Still
  BY <1>4 DEF PublishBegin, PublishRefused
<1>5. ASSUME NEW p \in Publishers, NEW t \in Subs,
             EnqueueClosed(p, t) \/ EnqueueOpen(p, t)
      PROVE  Still
  BY <1>5 DEF EnqueueClosed, EnqueueOpen
<1>6. ASSUME NEW p \in Publishers, SendAccept(p)
      PROVE  OnlyLate(s)'
  <2> DEFINE t == pcur[p]
             e == pev[p]
  <2>1. t \in Subs /\ e \in Events /\ queue[s] \in Seq(Events)
    BY <1>6 DEF SendAccept, ControlInv, TypeOK
  <2>2. CASE t = s
    <3>1. queue'[s] = Append(queue[s], e)
      BY <1>6, <2>2 DEF SendAccept, Enqueue, TypeOK
    <3>2. Queued(s)' \subseteq Queued(s) \union {e}
      BY <2>1, <3>1, RangeAppend DEF Queued
    <3>3. late' = late \union {<<s, e>>}
      BY <1>6, <2>2 DEF SendAccept
    <3> QED BY <3>2, <3>3
  <2>3. CASE t # s
    BY <1>6, <2>1, <2>3 DEF SendAccept, Enqueue, TypeOK, Queued
  <2> QED BY <2>2, <2>3
<1>7. ASSUME NEW p \in Publishers, SendEvict(p)
      PROVE  OnlyLate(s)'
  <2>1. pcur[p] \in Subs /\ queue[s] \in Seq(Events)
    BY <1>7 DEF SendEvict, ControlInv, TypeOK
  <2>2. Queued(s)' \subseteq Queued(s)
    BY <1>7, <2>1, <1>2 DEF SendEvict, TypeOK, Queued
  <2> QED BY <1>7, <2>2 DEF SendEvict
<1>8. ASSUME NEW p \in Publishers,
             SendDrop(p) \/ SendCancelled(p) \/ PublishEnd(p)
      PROVE  Still
  BY <1>8 DEF SendDrop, SendCancelled, PublishEnd
<1>9. ASSUME NEW w \in Workers, Take(w)
      PROVE  OnlyLate(s)'
  <2>1. SubOf[w] \in Subs /\ queue[s] \in Seq(Events)
    BY DEF TypeOK
  <2>2. Queued(s)' \subseteq Queued(s)
    BY <1>9, <2>1, <1>2 DEF Take, TypeOK, Queued
  <2> QED BY <1>9, <2>2 DEF Take
<1>10. ASSUME NEW w \in Workers, HandlerReturns(w) \/ WorkerExit(w)
       PROVE  Still
  BY <1>10 DEF HandlerReturns, WorkerExit
<1>11. ASSUME NEW c \in Closers,
              \/ CloseBus(c) \/ CloseBusAgain(c) \/ CheckQueue(c)
              \/ DrainTimeout(c) \/ CancelWorkers(c) \/ WaitDone(c)
              \/ WaitTimeout(c) \/ CloseReturns(c)
       PROVE  Still
  BY <1>11 DEF CloseBus, CloseBusAgain, CheckQueue, DrainTimeout, CancelWorkers,
     WaitDone, WaitTimeout, CloseReturns
<1>12. ASSUME NEW c \in Closers, NEW t \in Subs,
              Unsubscribe(c, t) \/ ShutdownBegin(c, t)
       PROVE  Still
  BY <1>12 DEF Unsubscribe, ShutdownBegin
<1>13. UNCHANGED vars => Still
  BY DEF vars
<1> HIDE DEF Still, OnlyLate
<1> QED
  BY <1>1, <1>3, <1>4, <1>5, <1>6, <1>7, <1>8, <1>9, <1>10, <1>11, <1>12, <1>13,
     NextSplit

\* What any step does to the variables the last invariants speak of.
LEMMA ShutdownSteps ==
  ASSUME TypeOK, [Next]_vars
  PROVE  /\ \A s \in Subs : subClosed[s] => subClosed'[s]
         /\ \A s \in stopped' :
              s \in stopped \/ \E c \in Closers : WaitDone(c) /\ s = ccur[c]
         /\ \A c \in Closers :
              cpc'[c] \in {"cancel", "wait"} =>
                \/ cpc[c] \in {"cancel", "wait"} /\ ccur'[c] = ccur[c]
                \/ CheckQueue(c) /\ Drained(ccur[c])
<1> USE BusAssumption DEF subVars, closeVars, history
<1> DEFINE
      A == \A s \in Subs : subClosed[s] => subClosed'[s]
      B == \A s \in stopped' :
             s \in stopped \/ \E c \in Closers : WaitDone(c) /\ s = ccur[c]
      C == \A c \in Closers :
             cpc'[c] \in {"cancel", "wait"} =>
               \/ cpc[c] \in {"cancel", "wait"} /\ ccur'[c] = ccur[c]
               \/ CheckQueue(c) /\ Drained(ccur[c])
      Still == UNCHANGED <<subClosed, stopped, cpc, ccur>>
<1>1. Still => A /\ B /\ C
  OBVIOUS
<1>2. ASSUME NEW s \in Subs,
             CreateSubscription(s) \/ Register(s) \/ RejectSubscription(s)
      PROVE  A /\ UNCHANGED <<stopped, cpc, ccur>>
  BY <1>2 DEF TypeOK, CreateSubscription, Register, RejectSubscription
<1>3. ASSUME NEW p \in Publishers, NEW e \in Events,
             PublishBegin(p, e) \/ PublishRefused(p, e)
      PROVE  Still
  BY <1>3 DEF PublishBegin, PublishRefused
<1>4. ASSUME NEW p \in Publishers, NEW s \in Subs,
             EnqueueClosed(p, s) \/ EnqueueOpen(p, s)
      PROVE  Still
  BY <1>4 DEF EnqueueClosed, EnqueueOpen
<1>5. ASSUME NEW p \in Publishers,
             \/ SendAccept(p) \/ SendEvict(p) \/ SendDrop(p)
             \/ SendCancelled(p) \/ PublishEnd(p)
      PROVE  Still
  BY <1>5 DEF SendAccept, SendEvict, SendDrop, SendCancelled, PublishEnd
<1>6. ASSUME NEW w \in Workers, Take(w) \/ HandlerReturns(w) \/ WorkerExit(w)
      PROVE  Still
  BY <1>6 DEF Take, HandlerReturns, WorkerExit
<1>7. ASSUME NEW c \in Closers,
             CloseBus(c) \/ CloseBusAgain(c) \/ DrainTimeout(c) \/ CloseReturns(c)
      PROVE  A /\ B /\ C
  <2>1. UNCHANGED <<subClosed, stopped>>
    BY <1>7 DEF CloseBus, CloseBusAgain, DrainTimeout, CloseReturns
  <2>2. cpc'[c] \in {"next", "returned"}
    BY <1>7 DEF TypeOK, CloseBus, CloseBusAgain, DrainTimeout, CloseReturns
  <2>3. \A d \in Closers \ {c} : cpc'[d] = cpc[d] /\ ccur'[d] = ccur[d]
    BY <1>7 DEF TypeOK, CloseBus, CloseBusAgain, DrainTimeout, CloseReturns
  <2> QED BY <2>1, <2>2, <2>3
<1>8. ASSUME NEW c \in Closers, CheckQueue(c)
      PROVE  A /\ B /\ C
  <2>1. UNCHANGED <<subClosed, stopped, ccur>>
    BY <1>8 DEF CheckQueue
  <2>2. \A d \in Closers \ {c} : cpc'[d] = cpc[d]
    BY <1>8 DEF TypeOK, CheckQueue
  <2>3. cpc'[c] \in {"cancel", "wait"} => Drained(ccur[c])
    BY <1>8 DEF TypeOK, CheckQueue
  <2> QED BY <1>8, <2>1, <2>2, <2>3
<1>9. ASSUME NEW c \in Closers, CancelWorkers(c)
      PROVE  A /\ B /\ C
  BY <1>9 DEF TypeOK, CancelWorkers
<1>10. ASSUME NEW c \in Closers, WaitDone(c) \/ WaitTimeout(c)
       PROVE  A /\ B /\ C
  <2>1. B
    BY <1>10 DEF WaitDone, WaitTimeout
  <2>2. A /\ C
    BY <1>10 DEF TypeOK, WaitDone, WaitTimeout
  <2> QED BY <2>1, <2>2
<1>11. ASSUME NEW c \in Closers, NEW s \in Subs,
              Unsubscribe(c, s) \/ ShutdownBegin(c, s)
       PROVE  A /\ B /\ C
  <2>1. A /\ UNCHANGED stopped
    BY <1>11 DEF TypeOK, Unsubscribe, ShutdownBegin
  <2>2. cpc'[c] \in {"next", "check"}
    BY <1>11 DEF TypeOK, Unsubscribe, ShutdownBegin
  <2>3. \A d \in Closers \ {c} : cpc'[d] = cpc[d] /\ ccur'[d] = ccur[d]
    BY <1>11 DEF TypeOK, Unsubscribe, ShutdownBegin
  <2> QED BY <2>1, <2>2, <2>3
<1>12. UNCHANGED vars => Still
  BY DEF vars
<1>13. A /\ B /\ C
  <2> HIDE DEF Still, A, B, C
  <2> QED
    BY <1>1, <1>2, <1>3, <1>4, <1>5, <1>6, <1>7, <1>8, <1>9, <1>10, <1>11,
       <1>12, NextSplit DEF Still, B, C
<1> QED BY <1>13

LEMMA CleanStep ==
  /\ TypeOK /\ ControlInv /\ Life /\ DrainedInv /\ CleanStopLeavesOnlyLate
  /\ [Next]_vars
  => DrainedInv' /\ CleanStopLeavesOnlyLate'
<1> SUFFICES ASSUME TypeOK, ControlInv, Life, DrainedInv,
                    CleanStopLeavesOnlyLate, [Next]_vars
             PROVE  DrainedInv' /\ CleanStopLeavesOnlyLate'
  OBVIOUS
<1>1. /\ \A c \in Closers :
           cpc[c] \in {"cancel", "wait"} =>
             ccur[c] \in Subs /\ subClosed[ccur[c]] /\ OnlyLate(ccur[c])
      /\ \A s \in stopped : s \in Subs /\ subClosed[s] /\ OnlyLate(s)
  BY DEF DrainedInv, CleanStopLeavesOnlyLate, OnlyLate, Life, ClosingInv,
     ControlInv, TypeOK
<1>2. \A s \in Subs : subClosed[s] /\ OnlyLate(s) => OnlyLate(s)'
  BY OnlyLateStep
<1>3. ASSUME NEW s \in stopped'
      PROVE  s \in Subs /\ subClosed'[s] /\ OnlyLate(s)'
  <2>1. CASE s \in stopped
    BY <2>1, <1>1, <1>2, ShutdownSteps
  <2>2. ASSUME NEW c \in Closers, WaitDone(c), s = ccur[c]
        PROVE  s \in Subs /\ subClosed'[s] /\ OnlyLate(s)'
    <3>1. s \in Subs /\ subClosed[s] /\ OnlyLate(s)
      BY <2>2, <1>1 DEF WaitDone
    <3> QED BY <3>1, <1>2, ShutdownSteps
  <2> QED BY <2>1, <2>2, ShutdownSteps
<1>4. ASSUME NEW c \in Closers, cpc'[c] \in {"cancel", "wait"}
      PROVE  OnlyLate(ccur[c])'
  <2>1. CASE cpc[c] \in {"cancel", "wait"} /\ ccur'[c] = ccur[c]
    <3>1. OnlyLate(ccur[c]) /\ ccur[c] \in Subs /\ subClosed[ccur[c]]
      BY <2>1, <1>1
    <3>2. \A s \in Subs : subClosed[s] /\ OnlyLate(s) =>
            {s} \X Range(queue'[s]) \subseteq late'
      BY <1>2 DEF OnlyLate, Queued
    <3> QED BY <2>1, <3>1, <3>2 DEF OnlyLate, Queued
  <2>2. CASE CheckQueue(c) /\ Drained(ccur[c])
    <3>1. queue'[ccur'[c]] = << >>
      BY <2>2 DEF CheckQueue, Drained
    <3>2. Queued(ccur[c])' = {}
      BY <3>1 DEF Queued, Range
    <3> QED BY <3>2 DEF OnlyLate
  <2> QED BY <1>4, <2>1, <2>2, ShutdownSteps
<1> QED
  BY <1>3, <1>4 DEF DrainedInv, CleanStopLeavesOnlyLate, OnlyLate

-----------------------------------------------------------------------------
(* The theorems *)

\* The inductive invariant holds initially and is preserved by every step.
THEOREM Inductive == Spec => []IInv
<1>1. Init => IInv
  <2> SUFFICES ASSUME Init PROVE IInv
    OBVIOUS
  <2>1. DrainedInv /\ StoppedIsQuiet /\ CleanStopLeavesOnlyLate
    BY DEF Init, DrainedInv, StoppedIsQuiet, CleanStopLeavesOnlyLate
  <2> QED BY <2>1, TypeInit, ControlInit, LifeInit DEF IInv, Life
<1>2. IInv /\ [Next]_vars => IInv'
  BY TypeStep, ControlStep, LifeStep, QuietStep, CleanStep DEF IInv, Life
<1> QED BY <1>1, <1>2, PTL DEF Spec

\* Every variable keeps its type, whatever the interleaving.
THEOREM TypeCorrect == Spec => []TypeOK
<1>1. IInv => TypeOK
  BY DEF IInv
<1> QED BY <1>1, Inductive, PTL

\* What the map holds is open, what is cancelled was closed first, and a closed
\* bus holds no subscription: Subscribe's second look under the lock is enough.
THEOREM LifecycleHolds == Spec => []LifecycleInv
<1>1. IInv => LifecycleInv
  BY DEF IInv
<1> QED BY <1>1, Inductive, PTL

\* EventBus.Close and Subscription.Close never shut down the same subscription.
THEOREM ShutdownIsExclusive == Spec => []OneShutdown
<1>1. IInv => OneShutdown
  BY DEF IInv
<1> QED BY <1>1, Inductive, PTL

\* When shutdown has returned nil no handler of the subscription runs any more.
THEOREM StoppedStaysQuiet == Spec => []StoppedIsQuiet
<1>1. IInv => StoppedIsQuiet
  BY DEF IInv
<1> QED BY <1>1, Inductive, PTL

\* ... and its queue holds only events enqueued after it was marked closed.
THEOREM CleanStop == Spec => []CleanStopLeavesOnlyLate
<1>1. IInv => CleanStopLeavesOnlyLate
  BY DEF IInv
<1> QED BY <1>1, Inductive, PTL

-----------------------------------------------------------------------------
(***************************************************************************)
(* The copies of the events on the bus: none is lost or doubled, one        *)
(* publisher's are not reordered, and each lives as EventDelivery allows.   *)
(* These rest on five effects a step can have on the places a copy can be   *)
(* in; every action has one of them or none.                                *)
(***************************************************************************)

(* Where copies are. *)

Copies == Subs \X Events
Hands  == UNION {Pending(p) : p \in Publishers}
Queues == UNION {{s} \X Queued(s) : s \in Subs}

\* The copies are divided among the five places.
Divided ==
  /\ offered = Hands \union Queues \union delivered \union reported
               \union evicted
  /\ Hands \intersect (Queues \union delivered \union reported \union evicted) = {}
  /\ Queues \intersect (delivered \union reported \union evicted) = {}
  /\ delivered \intersect (reported \union evicted) = {}
  /\ reported \intersect evicted = {}

\* No event is published twice, and what a publisher works on it sent last.
SentInv ==
  /\ \A p \in Publishers :
       /\ ppc[p] # "idle" => sent[p] # << >> /\ pev[p] = sent[p][Len(sent[p])]
       /\ ppc[p] = "send" => pcur[p] \notin ptodo[p]
       /\ IsInjective(sent[p])
  /\ \A p, q \in Publishers : p # q => Range(sent[p]) \intersect Range(sent[q]) = {}
  /\ \A c \in offered : \E p \in Publishers : c[2] \in Range(sent[p])

NoRepeats == \A s \in Subs : IsInjective(queue[s])

CopyInv == SentInv /\ NoRepeats /\ Divided

(* What a step can do to the copies. *)

Still == UNCHANGED <<Hands, Queues, offered, delivered, reported, evicted>>

Offers(e, R) ==
  /\ offered \intersect (Subs \X {e}) = {}
  /\ offered' = offered \union (R \X {e})
  /\ Hands' = Hands \union (R \X {e})
  /\ UNCHANGED <<Queues, delivered, reported, evicted>>

Rejects(c) ==
  /\ c \in Hands
  /\ Hands' = Hands \ {c}
  /\ reported' = reported \union {c}
  /\ UNCHANGED <<Queues, offered, delivered, evicted>>

Accepts(c) ==
  /\ c \in Hands
  /\ Hands' = Hands \ {c}
  /\ Queues' = Queues \union {c}
  /\ UNCHANGED <<offered, delivered, reported, evicted>>

Delivers(c) ==
  /\ c \in Queues
  /\ Queues' = Queues \ {c}
  /\ delivered' = delivered \union {c}
  /\ UNCHANGED <<Hands, offered, reported, evicted>>

Evicts(c) ==
  /\ c \in Queues
  /\ Queues' = Queues \ {c}
  /\ evicted' = evicted \union {c}
  /\ UNCHANGED <<Hands, offered, delivered, reported>>

Effect ==
  \/ Still
  \/ \E e \in Events, R \in SUBSET Subs : Offers(e, R)
  \/ \E c \in Copies : Rejects(c) \/ Accepts(c) \/ Delivers(c) \/ Evicts(c)

-----------------------------------------------------------------------------
(* Queues of distinct events. *)

LEMMA TailShifts ==
  ASSUME NEW S, NEW q \in Seq(S), q # << >>
  PROVE  /\ Len(q) \in Nat \ {0} /\ DOMAIN q = 1 .. Len(q)
         /\ DOMAIN Tail(q) = 1 .. Len(q) - 1
         /\ \A i \in 1 .. Len(q) - 1 : Tail(q)[i] = q[i + 1]
         /\ Head(q) = q[1]
OBVIOUS

LEMMA TailOfDistinct ==
  ASSUME NEW S, NEW q \in Seq(S), q # << >>, IsInjective(q)
  PROVE  /\ IsInjective(Tail(q))
         /\ Range(Tail(q)) = Range(q) \ {Head(q)}
         /\ Head(q) \in Range(q)
<1>1. /\ Len(q) \in Nat \ {0} /\ DOMAIN q = 1 .. Len(q)
      /\ DOMAIN Tail(q) = 1 .. Len(q) - 1
      /\ \A i \in 1 .. Len(q) - 1 : Tail(q)[i] = q[i + 1]
      /\ Head(q) = q[1]
  BY TailShifts
<1>2. IsInjective(Tail(q))
  BY <1>1 DEF IsInjective
<1>3. ASSUME NEW x \in Range(Tail(q)) PROVE x \in Range(q) \ {Head(q)}
  BY <1>1, <1>3 DEF IsInjective, Range
<1>4. ASSUME NEW x \in Range(q) \ {Head(q)} PROVE x \in Range(Tail(q))
  <2>1. PICK i \in 1 .. Len(q) : q[i] = x
    BY <1>1, <1>4 DEF Range
  <2>2. i # 1
    BY <1>1, <1>4, <2>1
  <2>3. i - 1 \in 1 .. Len(q) - 1 /\ Tail(q)[i - 1] = x
    BY <1>1, <2>1, <2>2
  <2> QED BY <1>1, <2>3 DEF Range
<1> QED BY <1>1, <1>2, <1>3, <1>4 DEF Range

LEMMA AppendNew ==
  ASSUME NEW S, NEW q \in Seq(S), NEW e \in S
  PROVE  /\ Range(Append(q, e)) = Range(q) \union {e}
         /\ IsInjective(q) /\ e \notin Range(q) => IsInjective(Append(q, e))
<1>1. /\ Len(q) \in Nat /\ DOMAIN q = 1 .. Len(q)
      /\ DOMAIN Append(q, e) = 1 .. Len(q) + 1
      /\ \A i \in 1 .. Len(q) : Append(q, e)[i] = q[i]
      /\ Append(q, e)[Len(q) + 1] = e
  OBVIOUS
<1>2. Range(Append(q, e)) = Range(q) \union {e}
  <2>1. ASSUME NEW x \in Range(Append(q, e)) PROVE x \in Range(q) \union {e}
    BY <1>1, <2>1 DEF Range
  <2>2. ASSUME NEW x \in Range(q) \union {e} PROVE x \in Range(Append(q, e))
    <3>1. CASE x = e
      BY <1>1, <3>1 DEF Range
    <3>2. CASE x \in Range(q)
      BY <1>1, <3>2 DEF Range
    <3> QED BY <2>2, <3>1, <3>2
  <2> QED BY <2>1, <2>2
<1>3. ASSUME IsInjective(q), e \notin Range(q) PROVE IsInjective(Append(q, e))
  <2>1. \A i \in 1 .. Len(q) : q[i] # e
    BY <1>1, <1>3 DEF Range
  <2> QED BY <1>1, <1>3, <2>1 DEF IsInjective
<1> QED BY <1>2, <1>3

-----------------------------------------------------------------------------
(* What publishers have sent. *)

SentVars == <<sent, ppc, pev, pcur, ptodo, offered>>

\* An event that may be published is in nobody's hands yet.
LEMMA NewEvent ==
  ASSUME TypeOK, SentInv, NEW p \in Publishers, NEW e \in Events, MayPublish(p, e)
  PROVE  /\ offered \intersect (Subs \X {e}) = {}
         /\ sent[p] \in Seq(Events) /\ e \notin Range(sent[p])
         /\ \A q \in Publishers : e \notin Range(sent[q])
<1>1. \A q \in Publishers : e \notin Range(sent[q])
  BY DEF MayPublish
<1>2. offered \intersect (Subs \X {e}) = {}
  BY <1>1 DEF SentInv, TypeOK
<1> QED BY <1>1, <1>2 DEF TypeOK

\* Publishing an event that nobody has published keeps the histories apart.
SentGrown(p, e) ==
  /\ \A q \in Publishers : IsInjective(sent'[q])
  /\ \A q, r \in Publishers :
       q # r => Range(sent'[q]) \intersect Range(sent'[r]) = {}
  /\ \A q \in Publishers : Range(sent[q]) \subseteq Range(sent'[q])
  /\ sent'[p] # << >> /\ sent'[p][Len(sent'[p])] = e
  /\ e \in Range(sent'[p])
  /\ \A q \in Publishers : q # p => sent'[q] = sent[q]

LEMMA SentGrows ==
  ASSUME TypeOK, SentInv, NEW p \in Publishers, NEW e \in Events, MayPublish(p, e),
         sent' = [sent EXCEPT ![p] = Append(@, e)]
  PROVE  SentGrown(p, e)
<1>1. /\ sent'[p] = Append(sent[p], e)
      /\ \A q \in Publishers : q # p => sent'[q] = sent[q]
  BY DEF TypeOK
<1>2. /\ sent[p] \in Seq(Events) /\ e \notin Range(sent[p])
      /\ \A q \in Publishers : e \notin Range(sent[q])
  BY NewEvent
<1>3. Range(sent'[p]) = Range(sent[p]) \union {e} /\ IsInjective(sent'[p])
  BY <1>1, <1>2, AppendNew DEF SentInv
<1>4. sent'[p] # << >> /\ sent'[p][Len(sent'[p])] = e
  BY <1>1, <1>2
<1>5. \A q \in Publishers : IsInjective(sent'[q])
  BY <1>1, <1>3 DEF SentInv
<1>6. ASSUME NEW q \in Publishers, NEW r \in Publishers, q # r
      PROVE  Range(sent'[q]) \intersect Range(sent'[r]) = {}
  <2>1. Range(sent[q]) \intersect Range(sent[r]) = {}
    BY <1>6 DEF SentInv
  <2>2. CASE q = p
    BY <1>1, <1>2, <1>3, <1>6, <2>1, <2>2
  <2>3. CASE r = p
    BY <1>1, <1>2, <1>3, <1>6, <2>1, <2>3
  <2>4. CASE q # p /\ r # p
    BY <1>1, <2>1, <2>4
  <2> QED BY <2>2, <2>3, <2>4
<1>7. \A q \in Publishers : Range(sent[q]) \subseteq Range(sent'[q])
  BY <1>1, <1>3
<1> QED BY <1>1, <1>3, <1>4, <1>5, <1>6, <1>7 DEF SentGrown

LEMMA SentStep == TypeOK /\ ControlInv /\ SentInv /\ [Next]_vars => SentInv'
<1> SUFFICES ASSUME TypeOK, ControlInv, SentInv, [Next]_vars PROVE SentInv'
  OBVIOUS
<1> USE BusAssumption DEF subVars, workVars, pubVars, closeVars, history
<1>1. UNCHANGED SentVars => SentInv'
  BY DEF SentVars, SentInv
<1>2. ASSUME NEW s \in Subs,
             CreateSubscription(s) \/ Register(s) \/ RejectSubscription(s)
      PROVE  UNCHANGED SentVars
  BY <1>2 DEF CreateSubscription, Register, RejectSubscription, SentVars
<1>3. ASSUME NEW p \in Publishers, NEW e \in Events, PublishBegin(p, e)
      PROVE  SentInv'
  <2>1. /\ MayPublish(p, e) /\ ppc[p] = "idle"
        /\ sent' = [sent EXCEPT ![p] = Append(@, e)]
        /\ ppc' = [ppc EXCEPT ![p] = "fanout"]
        /\ pev' = [pev EXCEPT ![p] = e]
        /\ ptodo' = [ptodo EXCEPT ![p] = Matching(e)]
        /\ pcur' = pcur
        /\ offered' = offered \union (Matching(e) \X {e})
    BY <1>3 DEF PublishBegin, MayPublish
  <2>2. SentGrown(p, e)
    BY <2>1, SentGrows
  <2>3. ASSUME NEW c \in offered' PROVE \E q \in Publishers : c[2] \in Range(sent'[q])
    <3>1. CASE c \in offered
      <4>1. PICK q \in Publishers : c[2] \in Range(sent[q])
        BY <3>1 DEF SentInv
      <4> QED BY <2>2, <4>1 DEF SentGrown
    <3>2. CASE c[2] = e
      BY <2>2, <3>2 DEF SentGrown
    <3> QED BY <2>1, <2>3, <3>1, <3>2
  <2>4. ASSUME NEW q \in Publishers
        PROVE  /\ ppc'[q] # "idle" =>
                    sent'[q] # << >> /\ pev'[q] = sent'[q][Len(sent'[q])]
               /\ ppc'[q] = "send" => pcur'[q] \notin ptodo'[q]
    <3>1. CASE q = p
      <4>1. ppc'[p] = "fanout" /\ pev'[p] = e
        BY <2>1 DEF TypeOK
      <4> QED BY <2>2, <3>1, <4>1 DEF SentGrown
    <3>2. CASE q # p
      <4>1. /\ ppc'[q] = ppc[q] /\ pev'[q] = pev[q] /\ ptodo'[q] = ptodo[q]
            /\ pcur'[q] = pcur[q] /\ sent'[q] = sent[q]
        BY <2>1, <2>2, <3>2 DEF TypeOK, SentGrown
      <4> QED BY <4>1 DEF SentInv
    <3> QED BY <3>1, <3>2
  <2> QED BY <2>2, <2>3, <2>4 DEF SentInv, SentGrown
<1>4. ASSUME NEW p \in Publishers, NEW e \in Events, PublishRefused(p, e)
      PROVE  SentInv'
  <2>1. /\ MayPublish(p, e) /\ ppc[p] = "idle"
        /\ sent' = [sent EXCEPT ![p] = Append(@, e)]
        /\ UNCHANGED <<ppc, pev, ptodo, pcur, offered>>
    BY <1>4 DEF PublishRefused, MayPublish
  <2>2. SentGrown(p, e)
    BY <2>1, SentGrows
  <2>3. ASSUME NEW c \in offered' PROVE \E q \in Publishers : c[2] \in Range(sent'[q])
    <3>1. PICK q \in Publishers : c[2] \in Range(sent[q])
      BY <2>1, <2>3 DEF SentInv
    <3> QED BY <2>2, <3>1 DEF SentGrown
  <2>4. ASSUME NEW q \in Publishers
        PROVE  /\ ppc'[q] # "idle" =>
                    sent'[q] # << >> /\ pev'[q] = sent'[q][Len(sent'[q])]
               /\ ppc'[q] = "send" => pcur'[q] \notin ptodo'[q]
    BY <2>1, <2>2 DEF SentInv, SentGrown
  <2> QED BY <2>2, <2>3, <2>4 DEF SentInv, SentGrown
<1>5. ASSUME NEW p \in Publishers, NEW s \in Subs, EnqueueClosed(p, s)
      PROVE  SentInv'
  BY <1>5 DEF EnqueueClosed, GoOnFrom, TypeOK, SentInv
<1>6. ASSUME NEW p \in Publishers, NEW s \in Subs, EnqueueOpen(p, s)
      PROVE  SentInv'
  BY <1>6 DEF EnqueueOpen, GoOnFrom, TypeOK, SentInv
<1>7. ASSUME NEW p \in Publishers,
             \/ SendAccept(p) \/ SendEvict(p) \/ SendDrop(p)
             \/ SendCancelled(p) \/ PublishEnd(p)
      PROVE  SentInv'
  <2>1. CASE SendAccept(p)
    BY <2>1 DEF SendAccept, LeaveEnqueue, TypeOK, SentInv
  <2>2. CASE SendEvict(p)
    BY <1>1, <2>2 DEF SendEvict, SentVars
  <2>3. CASE SendDrop(p)
    BY <2>3 DEF SendDrop, LeaveEnqueue, TypeOK, SentInv
  <2>4. CASE SendCancelled(p)
    BY <2>4 DEF SendCancelled, LeaveEnqueue, TypeOK, SentInv
  <2>5. CASE PublishEnd(p)
    BY <2>5 DEF PublishEnd, TypeOK, SentInv
  <2> QED BY <1>7, <2>1, <2>2, <2>3, <2>4, <2>5
<1>8. ASSUME NEW w \in Workers, Take(w) \/ HandlerReturns(w) \/ WorkerExit(w)
      PROVE  UNCHANGED SentVars
  BY <1>8 DEF Take, HandlerReturns, WorkerExit, SentVars
<1>9. ASSUME NEW c \in Closers,
             \/ CloseBus(c) \/ CloseBusAgain(c) \/ CheckQueue(c)
             \/ DrainTimeout(c) \/ CancelWorkers(c) \/ WaitDone(c)
             \/ WaitTimeout(c) \/ CloseReturns(c)
      PROVE  UNCHANGED SentVars
  BY <1>9 DEF CloseBus, CloseBusAgain, CheckQueue, DrainTimeout, CancelWorkers,
     WaitDone, WaitTimeout, CloseReturns, SentVars
<1>10. ASSUME NEW c \in Closers, NEW s \in Subs,
             Unsubscribe(c, s) \/ ShutdownBegin(c, s)
      PROVE  UNCHANGED SentVars
  BY <1>10 DEF Unsubscribe, ShutdownBegin, SentVars
<1>11. UNCHANGED vars => UNCHANGED SentVars
  BY DEF vars, SentVars
<1> QED
  BY <1>1, <1>2, <1>3, <1>4, <1>5, <1>6, <1>7, <1>8, <1>9, <1>10, <1>11, NextSplit

-----------------------------------------------------------------------------
(* How hands and queues change. *)

\* A copy is in the hands of one publisher.
LEMMA OneHand ==
  ASSUME TypeOK, ControlInv, SentInv, NEW p \in Publishers, NEW q \in Publishers, p # q
  PROVE  Pending(p) \intersect Pending(q) = {}
<1> SUFFICES ASSUME NEW c \in Pending(p), c \in Pending(q) PROVE FALSE
  OBVIOUS
<1>1. ASSUME NEW r \in Publishers, c \in Pending(r)
      PROVE  c[2] = pev[r] /\ pev[r] \in Range(sent[r])
  <2>1. c[2] = pev[r] /\ ppc[r] # "idle"
    BY <1>1 DEF Pending, ControlInv
  <2>2. sent[r] \in Seq(Events) /\ sent[r] # << >> /\ pev[r] = sent[r][Len(sent[r])]
    BY <2>1 DEF TypeOK, SentInv
  <2>3. Len(sent[r]) \in DOMAIN sent[r]
    BY <2>2
  <2> QED BY <2>1, <2>2, <2>3 DEF Range
<1>2. c[2] \in Range(sent[p]) /\ c[2] \in Range(sent[q])
  BY <1>1
<1> QED BY <1>2 DEF SentInv

LEMMA HandGives ==
  ASSUME TypeOK, ControlInv, SentInv, NEW p \in Publishers, NEW c \in Pending(p),
         Pending(p)' = Pending(p) \ {c},
         \A q \in Publishers : q # p => Pending(q)' = Pending(q)
  PROVE  c \in Hands /\ Hands' = Hands \ {c}
<1>1. \A q \in Publishers : q # p => c \notin Pending(q)
  BY OneHand
<1>2. ASSUME NEW d \in Hands' PROVE d \in Hands \ {c}
  <2>1. PICK q \in Publishers : d \in Pending(q)'
    BY <1>2 DEF Hands
  <2> QED BY <1>1, <2>1 DEF Hands
<1>3. ASSUME NEW d \in Hands \ {c} PROVE d \in Hands'
  <2>1. PICK q \in Publishers : d \in Pending(q)
    BY <1>3 DEF Hands
  <2>2. d \in Pending(q)'
    BY <1>3, <2>1
  <2> QED BY <2>2 DEF Hands
<1>4. c \in Hands
  BY DEF Hands
<1> QED BY <1>2, <1>3, <1>4

LEMMA SameHands ==
  ASSUME \A q \in Publishers : Pending(q)' = Pending(q)
  PROVE  Hands' = Hands
<1>1. ASSUME NEW d \in Hands' PROVE d \in Hands
  BY <1>1 DEF Hands
<1>2. ASSUME NEW d \in Hands PROVE d \in Hands'
  BY <1>2 DEF Hands
<1> QED BY <1>1, <1>2

\* The head of a queue leaves it.
LEMMA QueueGives ==
  ASSUME TypeOK, NoRepeats, NEW s \in Subs, queue[s] # << >>,
         queue' = [queue EXCEPT ![s] = Tail(@)]
  PROVE  /\ <<s, Head(queue[s])>> \in Queues
         /\ Queues' = Queues \ {<<s, Head(queue[s])>>}
         /\ NoRepeats'
<1> DEFINE h == Head(queue[s])
<1>1. /\ queue[s] \in Seq(Events) /\ IsInjective(queue[s])
      /\ queue'[s] = Tail(queue[s])
      /\ \A t \in Subs : t # s => queue'[t] = queue[t]
  BY DEF TypeOK, NoRepeats
<1>2. /\ IsInjective(Tail(queue[s]))
      /\ Range(Tail(queue[s])) = Range(queue[s]) \ {h}
      /\ h \in Range(queue[s])
  BY <1>1, TailOfDistinct
<1>3. NoRepeats'
  BY <1>1, <1>2 DEF NoRepeats
<1>4. <<s, h>> \in Queues
  BY <1>2 DEF Queues, Queued
<1>5. ASSUME NEW d \in Queues' PROVE d \in Queues \ {<<s, h>>}
  <2>1. PICK t \in Subs : d \in {t} \X Range(queue'[t])
    BY <1>5 DEF Queues, Queued
  <2>2. CASE t = s
    BY <1>1, <1>2, <2>1, <2>2 DEF Queues, Queued
  <2>3. CASE t # s
    BY <1>1, <2>1, <2>3 DEF Queues, Queued
  <2> QED BY <2>2, <2>3
<1>6. ASSUME NEW d \in Queues \ {<<s, h>>} PROVE d \in Queues'
  <2>1. PICK t \in Subs : d \in {t} \X Range(queue[t])
    BY <1>6 DEF Queues, Queued
  <2>2. d \in {t} \X Range(queue'[t])
    <3>1. CASE t = s
      BY <1>1, <1>2, <1>6, <2>1, <3>1
    <3>2. CASE t # s
      BY <1>1, <2>1, <3>2
    <3> QED BY <3>1, <3>2
  <2> QED BY <2>2 DEF Queues, Queued
<1> QED BY <1>3, <1>4, <1>5, <1>6

\* A new event enters a queue at its end.
LEMMA QueueTakes ==
  ASSUME TypeOK, NoRepeats, NEW s \in Subs, NEW e \in Events, <<s, e>> \notin Queues,
         queue' = [queue EXCEPT ![s] = Append(@, e)]
  PROVE  Queues' = Queues \union {<<s, e>>} /\ NoRepeats'
<1>1. /\ queue[s] \in Seq(Events) /\ IsInjective(queue[s])
      /\ queue'[s] = Append(queue[s], e)
      /\ \A t \in Subs : t # s => queue'[t] = queue[t]
  BY DEF TypeOK, NoRepeats
<1>2. e \notin Range(queue[s])
  BY DEF Queues, Queued
<1>3. /\ IsInjective(Append(queue[s], e))
      /\ Range(Append(queue[s], e)) = Range(queue[s]) \union {e}
  BY <1>1, <1>2, AppendNew
<1>4. NoRepeats'
  BY <1>1, <1>3 DEF NoRepeats
<1>5. ASSUME NEW d \in Queues' PROVE d \in Queues \union {<<s, e>>}
  <2>1. PICK t \in Subs : d \in {t} \X Range(queue'[t])
    BY <1>5 DEF Queues, Queued
  <2>2. CASE t = s
    BY <1>1, <1>3, <2>1, <2>2 DEF Queues, Queued
  <2>3. CASE t # s
    BY <1>1, <2>1, <2>3 DEF Queues, Queued
  <2> QED BY <2>2, <2>3
<1>6. ASSUME NEW d \in Queues \union {<<s, e>>} PROVE d \in Queues'
  <2>1. CASE d = <<s, e>>
    BY <1>1, <1>3, <2>1 DEF Queues, Queued
  <2>2. CASE d \in Queues
    <3>1. PICK t \in Subs : d \in {t} \X Range(queue[t])
      BY <2>2 DEF Queues, Queued
    <3>2. d \in {t} \X Range(queue'[t])
      <4>1. CASE t = s
        BY <1>1, <1>3, <3>1, <4>1
      <4>2. CASE t # s
        BY <1>1, <3>1, <4>2
      <4> QED BY <4>1, <4>2
    <3> QED BY <3>2 DEF Queues, Queued
  <2> QED BY <1>6, <2>1, <2>2
<1> QED BY <1>4, <1>5, <1>6

-----------------------------------------------------------------------------
(* Every step has one effect on the copies, or none. *)

PlaceVars == <<ppc, pev, ptodo, pcur, queue, offered, delivered, reported, evicted>>

LEMMA NoEffect == UNCHANGED PlaceVars /\ NoRepeats => Still /\ NoRepeats'
<1> SUFFICES ASSUME UNCHANGED PlaceVars, NoRepeats PROVE Still /\ NoRepeats'
  OBVIOUS
<1>1. Hands' = Hands
  BY DEF PlaceVars, Hands, Pending
<1>2. Queues' = Queues
  BY DEF PlaceVars, Queues, Queued
<1> QED BY <1>1, <1>2 DEF PlaceVars, Still, NoRepeats

\* What a publisher holds while it is sending.
LEMMA Sending ==
  ASSUME TypeOK, ControlInv, SentInv, NEW p \in Publishers, ppc[p] = "send"
  PROVE  /\ <<pcur[p], pev[p]>> \in Pending(p) /\ <<pcur[p], pev[p]>> \in Copies
         /\ pcur[p] \in Subs /\ pev[p] \in Events
         /\ Pending(p) \ {<<pcur[p], pev[p]>>} = ptodo[p] \X {pev[p]}
BY DEF TypeOK, ControlInv, SentInv, Pending, Copies

LEMMA PublishEffect ==
  ASSUME TypeOK, ControlInv, CopyInv, NEW p \in Publishers, NEW e \in Events,
         PublishBegin(p, e)
  PROVE  Offers(e, Matching(e)) /\ NoRepeats'
<1>1. /\ MayPublish(p, e) /\ ppc[p] = "idle"
      /\ ppc' = [ppc EXCEPT ![p] = "fanout"]
      /\ pev' = [pev EXCEPT ![p] = e]
      /\ ptodo' = [ptodo EXCEPT ![p] = Matching(e)]
      /\ pcur' = pcur
      /\ offered' = offered \union (Matching(e) \X {e})
      /\ UNCHANGED <<queue, delivered, reported, evicted>>
  BY DEF PublishBegin, MayPublish
<1>2. offered \intersect (Subs \X {e}) = {}
  BY <1>1, NewEvent DEF CopyInv
<1>3. Pending(p) = {} /\ Pending(p)' = Matching(e) \X {e}
  BY <1>1 DEF Pending, ControlInv, TypeOK
<1>4. \A q \in Publishers : q # p => Pending(q)' = Pending(q)
  BY <1>1 DEF Pending, TypeOK
<1>5. ASSUME NEW d \in Hands' PROVE d \in Hands \union (Matching(e) \X {e})
  BY <1>3, <1>4, <1>5 DEF Hands
<1>6. ASSUME NEW d \in Hands \union (Matching(e) \X {e}) PROVE d \in Hands'
  <2>1. CASE d \in Hands
    <3>1. PICK q \in Publishers : d \in Pending(q)
      BY <2>1 DEF Hands
    <3>2. q # p
      BY <1>3, <3>1
    <3> QED BY <1>4, <3>1, <3>2 DEF Hands
  <2>2. CASE d \in Matching(e) \X {e}
    BY <1>3, <2>2 DEF Hands
  <2> QED BY <1>6, <2>1, <2>2
<1>7. Queues' = Queues /\ NoRepeats'
  BY <1>1 DEF Queues, Queued, CopyInv, NoRepeats
<1> QED BY <1>1, <1>2, <1>5, <1>6, <1>7 DEF Offers

LEMMA EnqueueEffect ==
  ASSUME TypeOK, ControlInv, CopyInv, NEW p \in Publishers, NEW s \in Subs,
         EnqueueClosed(p, s) \/ EnqueueOpen(p, s)
  PROVE  Effect /\ NoRepeats'
<1>1. Queues' = Queues /\ NoRepeats'
  BY DEF EnqueueClosed, EnqueueOpen, Queues, Queued, CopyInv, NoRepeats
<1>2. \A q \in Publishers : q # p => Pending(q)' = Pending(q)
  BY DEF EnqueueClosed, EnqueueOpen, GoOnFrom, Pending, TypeOK
<1>3. CASE EnqueueClosed(p, s)
  <2>1. /\ ppc[p] = "fanout" /\ s \in ptodo[p]
        /\ ptodo' = [ptodo EXCEPT ![p] = @ \ {s}]
        /\ reported' = reported \union {<<s, pev[p]>>}
        /\ UNCHANGED <<ppc, pev, pcur, offered, delivered, evicted>>
    BY <1>3 DEF EnqueueClosed, GoOnFrom, Tell, history
  <2>2. <<s, pev[p]>> \in Pending(p) /\ <<s, pev[p]>> \in Copies
    BY <2>1 DEF Pending, Copies, ControlInv
  <2>3. Pending(p)' = Pending(p) \ {<<s, pev[p]>>}
    BY <2>1 DEF Pending, TypeOK
  <2>4. Rejects(<<s, pev[p]>>)
    BY <1>1, <1>2, <2>1, <2>2, <2>3, HandGives DEF Rejects, CopyInv
  <2> QED BY <1>1, <2>2, <2>4 DEF Effect
<1>4. CASE EnqueueOpen(p, s)
  <2>1. Pending(p)' = Pending(p)
    BY <1>4 DEF EnqueueOpen, GoOnFrom, Pending, TypeOK
  <2>2. Hands' = Hands
    BY <1>2, <2>1, SameHands
  <2> QED BY <1>1, <1>4, <2>2 DEF EnqueueOpen, history, Effect, Still
<1> QED BY <1>3, <1>4

LEMMA SendEffect ==
  ASSUME TypeOK, ControlInv, CopyInv, NEW p \in Publishers,
         SendAccept(p) \/ SendEvict(p) \/ SendDrop(p) \/ SendCancelled(p)
  PROVE  Effect /\ NoRepeats'
<1> DEFINE c == <<pcur[p], pev[p]>>
<1>1. ppc[p] = "send" /\ pev' = pev /\ ptodo' = ptodo
  BY DEF SendAccept, SendEvict, SendDrop, SendCancelled
<1>2. /\ c \in Pending(p) /\ c \in Copies /\ pcur[p] \in Subs /\ pev[p] \in Events
      /\ Pending(p) \ {c} = ptodo[p] \X {pev[p]}
  BY <1>1, Sending DEF CopyInv
<1>3. ASSUME LeaveEnqueue(p) PROVE c \in Hands /\ Hands' = Hands \ {c}
  <2>1. /\ ppc' = [ppc EXCEPT ![p] = "fanout"]
        /\ pcur' = [pcur EXCEPT ![p] = None]
    BY <1>3 DEF LeaveEnqueue
  <2>2. Pending(p)' = Pending(p) \ {c}
    BY <1>1, <1>2, <2>1 DEF Pending, TypeOK
  <2>3. \A q \in Publishers : q # p => Pending(q)' = Pending(q)
    BY <1>1, <2>1 DEF Pending, TypeOK
  <2> QED BY <1>2, <2>2, <2>3, HandGives DEF CopyInv
<1>4. CASE SendAccept(p)
  <2>1. /\ LeaveEnqueue(p)
        /\ queue' = [queue EXCEPT ![pcur[p]] = Append(@, pev[p])]
        /\ UNCHANGED <<offered, delivered, reported, evicted>>
    BY <1>4 DEF SendAccept, Enqueue
  <2>2. c \in Hands /\ Hands' = Hands \ {c}
    BY <1>3, <2>1
  <2>3. c \notin Queues
    BY <2>2 DEF CopyInv, Divided
  <2>4. Queues' = Queues \union {c} /\ NoRepeats'
    BY <1>2, <2>1, <2>3, QueueTakes DEF CopyInv
  <2> QED BY <1>2, <2>1, <2>2, <2>4 DEF Effect, Accepts
<1>5. CASE SendEvict(p)
  <2> DEFINE h == <<pcur[p], Head(queue[pcur[p]])>>
  <2>1. /\ queue[pcur[p]] # << >>
        /\ queue' = [queue EXCEPT ![pcur[p]] = Tail(@)]
        /\ evicted' = evicted \union {h}
        /\ UNCHANGED <<ppc, pcur, offered, delivered, reported>>
    BY <1>5 DEF SendEvict
  <2>2. h \in Queues /\ Queues' = Queues \ {h} /\ NoRepeats'
    BY <1>2, <2>1, QueueGives DEF CopyInv
  <2>3. Hands' = Hands
    BY <1>1, <2>1 DEF Hands, Pending
  <2>4. h \in Copies
    BY <2>2 DEF Queues, Queued, Copies, TypeOK, Range
  <2> QED BY <2>1, <2>2, <2>3, <2>4 DEF Effect, Evicts
<1>6. CASE SendDrop(p) \/ SendCancelled(p)
  <2>1. /\ LeaveEnqueue(p)
        /\ reported' = reported \union {c}
        /\ UNCHANGED <<queue, offered, delivered, evicted>>
    BY <1>6 DEF SendDrop, SendCancelled, Tell
  <2>2. c \in Hands /\ Hands' = Hands \ {c}
    BY <1>3, <2>1
  <2>3. Queues' = Queues /\ NoRepeats'
    BY <2>1 DEF Queues, Queued, CopyInv, NoRepeats
  <2> QED BY <1>2, <2>1, <2>2, <2>3 DEF Effect, Rejects
<1> QED BY <1>4, <1>5, <1>6

LEMMA TakeEffect ==
  ASSUME TypeOK, ControlInv, CopyInv, NEW w \in Workers, Take(w)
  PROVE  Effect /\ NoRepeats'
<1> DEFINE h == <<SubOf[w], Head(queue[SubOf[w]])>>
<1>1. /\ queue[SubOf[w]] # << >>
      /\ queue' = [queue EXCEPT ![SubOf[w]] = Tail(@)]
      /\ delivered' = delivered \union {h}
      /\ UNCHANGED <<ppc, pev, ptodo, pcur, offered, reported, evicted>>
  BY DEF Take, pubVars
<1>2. SubOf[w] \in Subs
  BY BusAssumption
<1>3. h \in Queues /\ Queues' = Queues \ {h} /\ NoRepeats'
  BY <1>1, <1>2, QueueGives DEF CopyInv
<1>4. Hands' = Hands
  BY <1>1 DEF Hands, Pending
<1>5. h \in Copies
  BY <1>3 DEF Queues, Queued, Copies, TypeOK, Range
<1> QED BY <1>1, <1>3, <1>4, <1>5 DEF Effect, Delivers

LEMMA StepEffect ==
  ASSUME TypeOK, ControlInv, CopyInv, [Next]_vars
  PROVE  Effect /\ NoRepeats'
<1> USE BusAssumption DEF subVars, workVars, pubVars, closeVars, history
<1>1. UNCHANGED PlaceVars => Effect /\ NoRepeats'
  BY NoEffect DEF CopyInv, Effect
<1>2. ASSUME NEW s \in Subs,
             CreateSubscription(s) \/ Register(s) \/ RejectSubscription(s)
      PROVE  UNCHANGED PlaceVars
  BY <1>2 DEF CreateSubscription, Register, RejectSubscription, PlaceVars
<1>3. ASSUME NEW p \in Publishers, NEW e \in Events,
             PublishBegin(p, e) \/ PublishRefused(p, e)
      PROVE  Effect /\ NoRepeats'
  <2>1. CASE PublishBegin(p, e)
    BY <2>1, PublishEffect DEF Effect, Matching
  <2>2. CASE PublishRefused(p, e)
    BY <1>1, <2>2 DEF PublishRefused, PlaceVars
  <2> QED BY <1>3, <2>1, <2>2
<1>4. ASSUME NEW p \in Publishers,
             \/ SendAccept(p) \/ SendEvict(p) \/ SendDrop(p)
             \/ SendCancelled(p) \/ PublishEnd(p)
      PROVE  Effect /\ NoRepeats'
  <2>1. CASE PublishEnd(p)
    <3>1. \A q \in Publishers : Pending(q)' = Pending(q)
      BY <2>1 DEF PublishEnd, Pending, TypeOK
    <3>2. Hands' = Hands
      BY <3>1, SameHands
    <3>3. Queues' = Queues /\ NoRepeats'
      BY <2>1 DEF PublishEnd, Queues, Queued, CopyInv, NoRepeats
    <3> QED BY <2>1, <3>2, <3>3 DEF PublishEnd, Effect, Still
  <2> QED BY <1>4, <2>1, SendEffect
<1>5. ASSUME NEW w \in Workers, Take(w) \/ HandlerReturns(w) \/ WorkerExit(w)
      PROVE  Effect /\ NoRepeats'
  <2>1. CASE HandlerReturns(w) \/ WorkerExit(w)
    BY <1>1, <2>1 DEF HandlerReturns, WorkerExit, PlaceVars
  <2> QED BY <1>5, <2>1, TakeEffect
<1>6. ASSUME NEW c \in Closers,
             \/ CloseBus(c) \/ CloseBusAgain(c) \/ CheckQueue(c)
             \/ DrainTimeout(c) \/ CancelWorkers(c) \/ WaitDone(c)
             \/ WaitTimeout(c) \/ CloseReturns(c)
      PROVE  UNCHANGED PlaceVars
  BY <1>6 DEF CloseBus, CloseBusAgain, CheckQueue, DrainTimeout, CancelWorkers,
     WaitDone, WaitTimeout, CloseReturns, PlaceVars
<1>7. ASSUME NEW c \in Closers, NEW s \in Subs,
             Unsubscribe(c, s) \/ ShutdownBegin(c, s)
      PROVE  UNCHANGED PlaceVars
  BY <1>7 DEF Unsubscribe, ShutdownBegin, PlaceVars
<1>8. UNCHANGED vars => UNCHANGED PlaceVars
  BY DEF vars, PlaceVars
<1> QED
  BY <1>1, <1>2, <1>3, <1>4, <1>5, <1>6, <1>7, <1>8, EnqueueEffect, NextSplit

-----------------------------------------------------------------------------
(* Conservation and refinement *)

LEMMA DividedStep == Divided /\ Effect => Divided'
<1> SUFFICES ASSUME Divided, Effect PROVE Divided'
  OBVIOUS
<1>1. CASE Still
  BY <1>1 DEF Divided, Still
<1>2. ASSUME NEW e \in Events, NEW R \in SUBSET Subs, Offers(e, R) PROVE Divided'
  <2>1. (R \X {e}) \intersect offered = {}
    BY <1>2 DEF Offers
  <2> QED BY <1>2, <2>1 DEF Offers, Divided
<1>3. ASSUME NEW c \in Copies, Rejects(c) PROVE Divided'
  BY <1>3 DEF Rejects, Divided
<1>4. ASSUME NEW c \in Copies, Accepts(c) PROVE Divided'
  BY <1>4 DEF Accepts, Divided
<1>5. ASSUME NEW c \in Copies, Delivers(c) PROVE Divided'
  BY <1>5 DEF Delivers, Divided
<1>6. ASSUME NEW c \in Copies, Evicts(c) PROVE Divided'
  BY <1>6 DEF Evicts, Divided
<1> QED BY <1>1, <1>2, <1>3, <1>4, <1>5, <1>6 DEF Effect

\* The division of the copies, with what it rests on, is inductive.
THEOREM CopyInductive == Spec => []CopyInv
<1>1. Init => CopyInv
  <2> SUFFICES ASSUME Init PROVE CopyInv
    OBVIOUS
  <2>1. SentInv /\ NoRepeats
    BY DEF Init, SentInv, NoRepeats, IsInjective, Range
  <2>2. Hands = {} /\ Queues = {}
    BY DEF Init, Hands, Queues, Pending, Queued, Range
  <2> QED BY <2>1, <2>2 DEF Init, CopyInv, Divided
<1>2. IInv /\ CopyInv /\ [Next]_vars => CopyInv'
  BY SentStep, StepEffect, DividedStep DEF IInv, CopyInv
<1> QED BY <1>1, <1>2, Inductive, PTL DEF Spec

\* However Publish, the workers and the closing calls interleave, a copy that was
\* matched is in exactly one place: none is lost, doubled, or silently rejected.
THEOREM CopiesAreConserved == Spec => []CopiesConserved
<1>1. CopyInv => CopiesConserved
  <2> SUFFICES ASSUME CopyInv PROVE CopiesConserved
    OBVIOUS
  <2>1. \A q \in Publishers : Pending(q) \subseteq Hands
    BY DEF Hands
  <2>2. \A s \in Subs : {s} \X Queued(s) \subseteq Queues
    BY DEF Queues
  <2>3. offered = Hands \union Queues \union Settled
    BY DEF CopyInv, Divided, Settled
  <2>4. /\ Hands \intersect Settled = {} /\ Hands \intersect Queues = {}
        /\ Queues \intersect Settled = {}
        /\ delivered \intersect reported = {} /\ delivered \intersect evicted = {}
        /\ reported \intersect evicted = {}
    BY DEF CopyInv, Divided, Settled
  <2>5. offered = (UNION {Pending(p) : p \in Publishers})
                  \union (UNION {{s} \X Queued(s) : s \in Subs}) \union Settled
    BY <2>3 DEF Hands, Queues
  <2>6. \A s \in Subs : ({s} \X Queued(s)) \intersect Settled = {}
    BY <2>2, <2>4
  <2>7. \A q \in Publishers :
          /\ Pending(q) \intersect Settled = {}
          /\ \A s \in Subs : Pending(q) \intersect ({s} \X Queued(s)) = {}
    BY <2>1, <2>2, <2>4
  <2> QED BY <2>4, <2>5, <2>6, <2>7 DEF CopiesConserved, CopyInv, NoRepeats
<1> QED BY <1>1, CopyInductive, PTL

\* The state of a copy is the place it is in, before a step and after.
LEMMA StateIsPlace ==
  ASSUME NEW c \in Copies
  PROVE  /\ CopyState(c) = IF c \in Hands THEN "offered"
                           ELSE IF c \in Queues THEN "queued"
                           ELSE IF c \in delivered THEN "taken"
                           ELSE IF c \in reported THEN "told"
                           ELSE IF c \in evicted THEN "evicted" ELSE "none"
         /\ CopyState(c)' = IF c \in Hands' THEN "offered"
                            ELSE IF c \in Queues' THEN "queued"
                            ELSE IF c \in delivered' THEN "taken"
                            ELSE IF c \in reported' THEN "told"
                            ELSE IF c \in evicted' THEN "evicted" ELSE "none"
<1>1. c \in Hands <=> \E p \in Publishers : c \in Pending(p)
  BY DEF Hands
<1>2. c \in Hands' <=> \E p \in Publishers : c \in Pending(p)'
  BY DEF Hands
<1>3. c \in Queues <=> c[2] \in Queued(c[1])
  BY DEF Queues, Copies
<1>4. c \in Queues' <=> c[2] \in Queued(c[1])'
  BY DEF Queues, Copies
<1> QED BY <1>1, <1>2, <1>3, <1>4 DEF CopyState

Bar == [c \in Subs \X Events |-> CopyState(c)]

\* A copy that moves, with all others staying where they are.
LEMMA MoveIs ==
  ASSUME NEW c \in Copies, NEW from, NEW to, CopyState(c) = from, CopyState(c)' = to,
         \A d \in Copies : d # c => CopyState(d)' = CopyState(d)
  PROVE  Delivery!Move(c, from, to)
<1>1. Bar[c] = from
  BY DEF Bar, Copies
<1>2. Bar' = [Bar EXCEPT ![c] = to]
  BY DEF Bar, Copies
<1> QED BY <1>1, <1>2 DEF Delivery!Move, Bar

LEMMA EffectIsAllowed ==
  ASSUME CopyInv, Effect
  PROVE  [Delivery!Next]_Bar
<1> USE DEF CopyInv, Divided
<1>1. CASE Still
  <2>1. \A c \in Copies : CopyState(c)' = CopyState(c)
    BY <1>1, StateIsPlace DEF Still
  <2> QED BY <2>1 DEF Bar, Copies
<1>2. ASSUME NEW e \in Events, NEW R \in SUBSET Subs, Offers(e, R)
      PROVE  Delivery!Next
  <2>1. \A r \in R : <<r, e>> \in Copies /\ <<r, e>> \notin offered
    BY <1>2 DEF Offers, Copies
  <2>2. \A r \in R : Bar[<<r, e>>] = "none"
    BY <2>1, StateIsPlace DEF Bar, Copies
  <2>3. \A c \in Copies :
          CopyState(c)' = IF c \in R \X {e} THEN "offered" ELSE CopyState(c)
    BY <1>2, StateIsPlace DEF Offers
  <2>4. Bar' = [c \in Subs \X Events |-> IF c \in R \X {e} THEN "offered" ELSE Bar[c]]
    BY <2>3 DEF Bar, Copies
  <2>5. Delivery!Offer(e)
    BY <2>2, <2>4 DEF Delivery!Offer, Delivery!Copies, Bar
  <2> QED BY <2>5 DEF Delivery!Next
<1>3. ASSUME NEW c \in Copies, Rejects(c) PROVE Delivery!Next
  <2>1. \A d \in Copies : d # c => CopyState(d)' = CopyState(d)
    BY <1>3, StateIsPlace DEF Rejects
  <2>2. CopyState(c) = "offered" /\ CopyState(c)' = "told"
    BY <1>3, StateIsPlace DEF Rejects
  <2>3. Delivery!Reject(c)
    BY <2>1, <2>2, MoveIs DEF Delivery!Reject
  <2> QED BY <2>3 DEF Delivery!Next, Delivery!Copies, Copies
<1>4. ASSUME NEW c \in Copies, Accepts(c) PROVE Delivery!Next
  <2>1. \A d \in Copies : d # c => CopyState(d)' = CopyState(d)
    BY <1>4, StateIsPlace DEF Accepts
  <2>2. CopyState(c) = "offered" /\ CopyState(c)' = "queued"
    BY <1>4, StateIsPlace DEF Accepts
  <2>3. Delivery!Accept(c)
    BY <2>1, <2>2, MoveIs DEF Delivery!Accept
  <2> QED BY <2>3 DEF Delivery!Next, Delivery!Copies, Copies
<1>5. ASSUME NEW c \in Copies, Delivers(c) PROVE Delivery!Next
  <2>1. \A d \in Copies : d # c => CopyState(d)' = CopyState(d)
    BY <1>5, StateIsPlace DEF Delivers
  <2>2. CopyState(c) = "queued" /\ CopyState(c)' = "taken"
    BY <1>5, StateIsPlace DEF Delivers
  <2>3. Delivery!Deliver(c)
    BY <2>1, <2>2, MoveIs DEF Delivery!Deliver
  <2> QED BY <2>3 DEF Delivery!Next, Delivery!Copies, Copies
<1>6. ASSUME NEW c \in Copies, Evicts(c) PROVE Delivery!Next
  <2>1. \A d \in Copies : d # c => CopyState(d)' = CopyState(d)
    BY <1>6, StateIsPlace DEF Evicts
  <2>2. CopyState(c) = "queued" /\ CopyState(c)' = "evicted"
    BY <1>6, StateIsPlace DEF Evicts
  <2>3. Delivery!Evict(c)
    BY <2>1, <2>2, MoveIs DEF Delivery!Evict
  <2> QED BY <2>3 DEF Delivery!Next, Delivery!Copies, Copies
<1> QED BY <1>1, <1>2, <1>3, <1>4, <1>5, <1>6 DEF Effect

\* The bus implements its abstract promise: every copy lives as EventDelivery allows.
THEOREM BusDelivers == Spec => DeliverySpec
<1>1. Init => Delivery!Init
  <2> SUFFICES ASSUME Init PROVE Delivery!Init
    OBVIOUS
  <2>1. \A c \in Subs \X Events : CopyState(c) = "none"
    BY DEF Init, CopyState, Pending, Queued, Range
  <2> QED BY <2>1 DEF Delivery!Init, Delivery!Copies
<1>2. IInv /\ CopyInv /\ [Next]_vars => [Delivery!Next]_Bar
  BY StepEffect, EffectIsAllowed DEF IInv
<1> QED
  BY <1>1, <1>2, Inductive, CopyInductive, PTL
  DEF Spec, DeliverySpec, Delivery!Spec, Bar

-----------------------------------------------------------------------------
(* One publisher's order *)

\* Of two events of one publisher the earlier enters a queue first and leaves it
\* first.
Ordered(p, s, i, j) ==
  /\ sent[p][i] \in Queued(s) => <<s, sent[p][j]>> \notin delivered
  /\ \A a, b \in DOMAIN queue[s] :
       queue[s][a] = sent[p][i] /\ queue[s][b] = sent[p][j] => a < b

OrderInv ==
  \A p \in Publishers, s \in Subs :
    \A i, j \in DOMAIN sent[p] : i < j => Ordered(p, s, i, j)

\* The event in a publisher's hands is the last it sent, and nobody else's.
LEMMA InHandIsLast ==
  ASSUME TypeOK, SentInv, NEW p \in Publishers, ppc[p] # "idle",
         NEW q \in Publishers, NEW i \in DOMAIN sent[q], sent[q][i] = pev[p]
  PROVE  q = p /\ \A j \in DOMAIN sent[q] : ~(i < j)
<1>1. /\ sent[p] \in Seq(Events) /\ sent[q] \in Seq(Events)
      /\ sent[p] # << >> /\ pev[p] = sent[p][Len(sent[p])] /\ IsInjective(sent[p])
  BY DEF TypeOK, SentInv
<1>2. Len(sent[p]) \in DOMAIN sent[p] /\ DOMAIN sent[p] = 1 .. Len(sent[p])
  BY <1>1
<1>3. pev[p] \in Range(sent[p]) /\ pev[p] \in Range(sent[q])
  BY <1>1, <1>2 DEF Range
<1>4. q = p
  BY <1>3 DEF SentInv
<1>5. i = Len(sent[p])
  BY <1>1, <1>2, <1>4 DEF IsInjective
<1> QED BY <1>2, <1>4, <1>5

\* A new event is in no queue and no worker took it.
LEMMA OrderOfNew ==
  ASSUME TypeOK, CopyInv, OrderInv, NEW p \in Publishers, NEW e \in Events,
         MayPublish(p, e), sent' = [sent EXCEPT ![p] = Append(@, e)],
         UNCHANGED <<queue, delivered>>
  PROVE  OrderInv'
<1>1. \A s \in Subs : <<s, e>> \notin Queues /\ <<s, e>> \notin delivered
  BY NewEvent DEF CopyInv, Divided
<1>2. \A s \in Subs : \A b \in DOMAIN queue[s] : queue[s][b] # e
  <2> SUFFICES ASSUME NEW s \in Subs, NEW b \in DOMAIN queue[s], queue[s][b] = e
               PROVE  FALSE
    OBVIOUS
  <2>1. e \in Queued(s)
    BY DEF Queued, Range
  <2>2. <<s, e>> \in {s} \X Queued(s)
    BY <2>1
  <2> QED BY <1>1, <2>2 DEF Queues
<1>3. sent[p] \in Seq(Events) /\ sent'[p] = Append(sent[p], e)
  BY DEF TypeOK
<1>4. /\ Len(sent[p]) \in Nat /\ DOMAIN sent[p] = 1 .. Len(sent[p])
      /\ DOMAIN sent'[p] = 1 .. Len(sent[p]) + 1
      /\ \A i \in DOMAIN sent[p] : sent'[p][i] = sent[p][i]
      /\ sent'[p][Len(sent[p]) + 1] = e
  BY <1>3
<1> SUFFICES ASSUME NEW q \in Publishers, NEW s \in Subs,
                    NEW i \in DOMAIN sent'[q], NEW j \in DOMAIN sent'[q], i < j
             PROVE  Ordered(q, s, i, j)'
  BY DEF OrderInv
<1>5. CASE q # p
  <2>1. sent'[q] = sent[q]
    BY <1>5 DEF TypeOK
  <2>2. Ordered(q, s, i, j)
    BY <2>1 DEF OrderInv
  <2>3. /\ sent'[q][i] = sent[q][i] /\ sent'[q][j] = sent[q][j]
        /\ queue' = queue /\ delivered' = delivered
    BY <2>1
  <2> QED BY <2>2, <2>3 DEF Ordered, Queued
<1>6. CASE q = p /\ j \in DOMAIN sent[p]
  <2>1. i \in DOMAIN sent[p]
    BY <1>4, <1>6
  <2>2. sent'[p][i] = sent[p][i] /\ sent'[p][j] = sent[p][j]
    BY <1>4, <1>6, <2>1
  <2> QED BY <1>6, <2>1, <2>2 DEF OrderInv, Ordered, Queued
<1>7. CASE q = p /\ j = Len(sent[p]) + 1
  <2>1. sent'[p][j] = e
    BY <1>4, <1>7
  <2> QED BY <1>1, <1>2, <1>7, <2>1 DEF Ordered
<1> QED BY <1>4, <1>5, <1>6, <1>7

\* What a publisher enqueues is the last it sent, and becomes the last of the queue.
LEMMA OrderOfAppend ==
  ASSUME TypeOK, CopyInv, OrderInv, NEW p \in Publishers, ppc[p] = "send",
         NEW t \in Subs, pev[p] \in Events,
         queue' = [queue EXCEPT ![t] = Append(@, pev[p])],
         UNCHANGED <<sent, delivered>>
  PROVE  OrderInv'
<1>1. queue[t] \in Seq(Events) /\ queue'[t] = Append(queue[t], pev[p])
  BY DEF TypeOK
<1>2. /\ Len(queue[t]) \in Nat /\ DOMAIN queue[t] = 1 .. Len(queue[t])
      /\ DOMAIN queue'[t] = 1 .. Len(queue[t]) + 1
      /\ \A a \in DOMAIN queue[t] : queue'[t][a] = queue[t][a]
      /\ queue'[t][Len(queue[t]) + 1] = pev[p]
  BY <1>1
<1>3. Range(queue'[t]) = Range(queue[t]) \union {pev[p]}
  BY <1>1, AppendNew
<1> SUFFICES ASSUME NEW q \in Publishers, NEW s \in Subs,
                    NEW i \in DOMAIN sent[q], NEW j \in DOMAIN sent[q], i < j
             PROVE  Ordered(q, s, i, j)'
  BY DEF OrderInv
<1>4. Ordered(q, s, i, j)
  BY DEF OrderInv
<1>5. sent[q][i] # pev[p]
  BY InHandIsLast DEF CopyInv
<1>6. CASE s # t
  <2>1. queue'[s] = queue[s]
    BY <1>6 DEF TypeOK
  <2> QED BY <1>4, <2>1 DEF Ordered, Queued
<1>7. CASE s = t
  <2>1. sent'[q][i] \in Queued(s)' => <<s, sent'[q][j]>> \notin delivered'
    BY <1>3, <1>4, <1>5, <1>7 DEF Ordered, Queued
  <2>2. ASSUME NEW a \in DOMAIN queue'[t], NEW b \in DOMAIN queue'[t],
               queue'[t][a] = sent[q][i], queue'[t][b] = sent[q][j]
        PROVE  a < b
    <3>1. a \in DOMAIN queue[t] /\ queue[t][a] = sent[q][i]
      BY <1>2, <1>5, <2>2
    <3>2. CASE b \in DOMAIN queue[t]
      <4>1. queue[t][b] = sent[q][j]
        BY <1>2, <2>2, <3>2
      <4> QED BY <1>4, <1>7, <3>1, <3>2, <4>1 DEF Ordered
    <3>3. CASE b = Len(queue[t]) + 1
      BY <1>2, <3>1, <3>3
    <3> QED BY <1>2, <3>2, <3>3
  <2> QED BY <1>7, <2>1, <2>2 DEF Ordered
<1> QED BY <1>6, <1>7

\* What leaves a queue is its head, so nothing earlier of its publisher is behind it.
LEMMA OrderOfTail ==
  ASSUME TypeOK, CopyInv, OrderInv, NEW t \in Subs, queue[t] # << >>,
         queue' = [queue EXCEPT ![t] = Tail(@)], UNCHANGED sent,
         delivered' \subseteq delivered \union {<<t, Head(queue[t])>>}
  PROVE  OrderInv'
<1>1. /\ queue[t] \in Seq(Events) /\ IsInjective(queue[t])
      /\ queue'[t] = Tail(queue[t])
  BY DEF TypeOK, CopyInv, NoRepeats
<1>2. /\ Len(queue[t]) \in Nat \ {0} /\ DOMAIN queue[t] = 1 .. Len(queue[t])
      /\ DOMAIN queue'[t] = 1 .. Len(queue[t]) - 1
      /\ \A a \in DOMAIN queue'[t] : queue'[t][a] = queue[t][a + 1]
      /\ Head(queue[t]) = queue[t][1]
  BY <1>1, TailShifts
<1> SUFFICES ASSUME NEW q \in Publishers, NEW s \in Subs,
                    NEW i \in DOMAIN sent[q], NEW j \in DOMAIN sent[q], i < j
             PROVE  Ordered(q, s, i, j)'
  BY DEF OrderInv
<1>3. Ordered(q, s, i, j)
  BY DEF OrderInv
<1>4. CASE s # t
  <2>1. queue'[s] = queue[s]
    BY <1>4 DEF TypeOK
  <2>2. <<s, sent[q][j]>> \in delivered' => <<s, sent[q][j]>> \in delivered
    BY <1>4
  <2> QED BY <1>3, <2>1, <2>2 DEF Ordered, Queued
<1>5. CASE s = t
  <2>1. ASSUME NEW a \in DOMAIN queue'[t], queue'[t][a] = sent[q][i]
        PROVE  <<t, sent[q][j]>> \notin delivered'
    <3>1. a + 1 \in DOMAIN queue[t] /\ queue[t][a + 1] = sent[q][i] /\ 1 < a + 1
      BY <1>2, <2>1
    <3>2. <<t, sent[q][j]>> \notin delivered
      BY <1>3, <1>5, <3>1 DEF Ordered, Queued, Range
    <3>3. sent[q][j] # queue[t][1]
      <4>1. 1 \in DOMAIN queue[t]
        BY <1>2
      <4>2. sent[q][j] = queue[t][1] => a + 1 < 1
        BY <1>3, <1>5, <3>1, <4>1 DEF Ordered
      <4> QED BY <1>2, <2>1, <4>2
    <3> QED BY <1>2, <3>2, <3>3
  <2>2. ASSUME NEW a \in DOMAIN queue'[t], NEW b \in DOMAIN queue'[t],
               queue'[t][a] = sent[q][i], queue'[t][b] = sent[q][j]
        PROVE  a < b
    <3>1. /\ a + 1 \in DOMAIN queue[t] /\ queue[t][a + 1] = sent[q][i]
          /\ b + 1 \in DOMAIN queue[t] /\ queue[t][b + 1] = sent[q][j]
      BY <1>2, <2>2
    <3>2. a + 1 < b + 1
      BY <1>3, <1>5, <3>1 DEF Ordered
    <3> QED BY <1>2, <3>2
  <2> QED BY <1>5, <2>1, <2>2 DEF Ordered, Queued, Range
<1> QED BY <1>4, <1>5

OrderVars == <<sent, queue, delivered>>

LEMMA OrderStep ==
  ASSUME TypeOK, ControlInv, CopyInv, OrderInv, [Next]_vars
  PROVE  OrderInv'
<1> USE BusAssumption DEF subVars, workVars, pubVars, closeVars, history
<1>1. UNCHANGED OrderVars => OrderInv'
  BY DEF OrderVars, OrderInv, Ordered, Queued
<1>2. ASSUME NEW s \in Subs,
             CreateSubscription(s) \/ Register(s) \/ RejectSubscription(s)
      PROVE  UNCHANGED OrderVars
  BY <1>2 DEF CreateSubscription, Register, RejectSubscription, OrderVars
<1>3. ASSUME NEW p \in Publishers, NEW e \in Events,
             PublishBegin(p, e) \/ PublishRefused(p, e)
      PROVE  OrderInv'
  BY <1>3, OrderOfNew DEF PublishBegin, PublishRefused
<1>4. ASSUME NEW p \in Publishers, NEW s \in Subs,
             EnqueueClosed(p, s) \/ EnqueueOpen(p, s)
      PROVE  UNCHANGED OrderVars
  BY <1>4 DEF EnqueueClosed, EnqueueOpen, OrderVars
<1>5. ASSUME NEW p \in Publishers,
             \/ SendAccept(p) \/ SendEvict(p) \/ SendDrop(p)
             \/ SendCancelled(p) \/ PublishEnd(p)
      PROVE  OrderInv'
  <2>1. CASE SendAccept(p)
    <3>1. ppc[p] = "send" /\ pcur[p] \in Subs /\ pev[p] \in Events
      BY <2>1, Sending DEF SendAccept, CopyInv
    <3> QED BY <2>1, <3>1, OrderOfAppend DEF SendAccept, Enqueue
  <2>2. CASE SendEvict(p)
    <3>1. pcur[p] \in Subs
      BY <2>2, Sending DEF SendEvict, CopyInv
    <3> QED BY <2>2, <3>1, OrderOfTail DEF SendEvict
  <2>3. CASE SendDrop(p) \/ SendCancelled(p) \/ PublishEnd(p)
    BY <1>1, <2>3 DEF SendDrop, SendCancelled, PublishEnd, OrderVars
  <2> QED BY <1>5, <2>1, <2>2, <2>3
<1>6. ASSUME NEW w \in Workers, Take(w) \/ HandlerReturns(w) \/ WorkerExit(w)
      PROVE  OrderInv'
  <2>1. CASE Take(w)
    BY <2>1, OrderOfTail DEF Take
  <2>2. CASE HandlerReturns(w) \/ WorkerExit(w)
    BY <1>1, <2>2 DEF HandlerReturns, WorkerExit, OrderVars
  <2> QED BY <1>6, <2>1, <2>2
<1>7. ASSUME NEW c \in Closers,
             \/ CloseBus(c) \/ CloseBusAgain(c) \/ CheckQueue(c)
             \/ DrainTimeout(c) \/ CancelWorkers(c) \/ WaitDone(c)
             \/ WaitTimeout(c) \/ CloseReturns(c)
      PROVE  UNCHANGED OrderVars
  BY <1>7 DEF CloseBus, CloseBusAgain, CheckQueue, DrainTimeout, CancelWorkers,
     WaitDone, WaitTimeout, CloseReturns, OrderVars
<1>8. ASSUME NEW c \in Closers, NEW s \in Subs,
             Unsubscribe(c, s) \/ ShutdownBegin(c, s)
      PROVE  UNCHANGED OrderVars
  BY <1>8 DEF Unsubscribe, ShutdownBegin, OrderVars
<1>9. UNCHANGED vars => UNCHANGED OrderVars
  BY DEF vars, OrderVars
<1> QED
  BY <1>1, <1>2, <1>3, <1>4, <1>5, <1>6, <1>7, <1>8, <1>9, NextSplit

\* A subscription sees one publisher's events in the order of its Publish calls,
\* through every policy's enqueue, every eviction and any number of workers.
THEOREM OrderIsKept == Spec => []PublisherOrder
<1>1. Init => OrderInv
  BY DEF Init, OrderInv
<1>2. IInv /\ CopyInv /\ OrderInv /\ [Next]_vars => OrderInv'
  BY OrderStep DEF IInv
<1>3. IInv /\ CopyInv /\ OrderInv => PublisherOrder
  <2> SUFFICES ASSUME IInv, CopyInv, OrderInv,
                      NEW p \in Publishers, NEW s \in Subs,
                      NEW i \in DOMAIN sent[p], NEW j \in DOMAIN sent[p], i < j,
                      <<s, sent[p][j]>> \in delivered,
                      <<s, sent[p][i]>> \in offered
               PROVE  <<s, sent[p][i]>> \in Settled
    BY DEF PublisherOrder
  <2>1. <<s, sent[p][i]>> \notin Queues
    BY DEF OrderInv, Ordered, Queues
  <2>2. <<s, sent[p][i]>> \notin Hands
    <3> SUFFICES ASSUME <<s, sent[p][i]>> \in Hands PROVE FALSE
      OBVIOUS
    <3>1. PICK q \in Publishers : <<s, sent[p][i]>> \in Pending(q)
      BY DEF Hands
    <3>2. ppc[q] # "idle" /\ pev[q] = sent[p][i]
      BY <3>1 DEF Pending, IInv, ControlInv
    <3> QED BY <3>2, InHandIsLast DEF IInv, CopyInv
  <2> QED BY <2>1, <2>2 DEF CopyInv, Divided, Settled
<1> QED BY <1>1, <1>2, <1>3, Inductive, CopyInductive, PTL DEF Spec
=============================================================================
