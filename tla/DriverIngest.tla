---------------------------- MODULE DriverIngest ----------------------------
(***************************************************************************)
(* How a chat driver takes updates in: internal/driver/telegram           *)
(* (gotd_adapter.go, gotd_userbot.go, driver.go) and internal/driver/discord *)
(* (discordgo_source.go, driver.go).  Callbacks of the platform's client    *)
(* put raw updates into a bounded channel; Consume takes one at a time,     *)
(* maps it, and publishes each resulting event with a deadline.            *)
(*                                                                         *)
(* Telegram's callback blocks on a full channel, and does so under the      *)
(* read lock of GotdUpdateChannel; Discord's drops what does not fit.      *)
(* What a raw update becomes is the mapper's business: Yields gives the    *)
(* outcome of mapping and decoding each one.  The client libraries are     *)
(* external: a client may fail at any moment, and the contexts of its      *)
(* callbacks end with the caller's context, with the client's failure or   *)
(* when the callback of Run has returned.                                  *)
(***************************************************************************)
EXTENDS Integers, Sequences, SequencesExt, FiniteSets

CONSTANTS
  Kinds,       \* the drivers to consider, of "telegram" and "discord"
  Producers,   \* goroutines of the client that deliver updates
  Script,      \* what each one delivers: a sequence of batches of items
  Yields,      \* per item: MapFails, or a sequence of "event" and "undecodable"
  MapFails,    \* the mapper returned an error
  Polls,       \* what one reaction poll may yield, as in Yields
  MaxPolls,    \* bound on the ticks of the reaction poll
  Buffer       \* capacity of the update channel

Items == DOMAIN Yields

\* An item stands for one delivery: no two of them are the same.
EachOnce(script) ==
  \A p, q \in Producers : \A i \in 1..Len(script[p]), j \in 1..Len(script[q]) :
     \A k \in 1..Len(script[p][i]), l \in 1..Len(script[q][j]) :
        script[p][i][k] = script[q][j][l] => p = q /\ i = j /\ k = l

ASSUME IngestAssumption ==
  /\ Kinds \subseteq {"telegram", "discord"}
  /\ Script \in [Producers -> Seq(Seq(Items))]
  /\ EachOnce(Script)
  /\ "poll" \notin Items /\ "none" \notin Items
  /\ Buffer \in Nat \ {0}
  /\ MaxPolls \in Nat

VARIABLES
  kind,       \* which driver this is
  ppc,        \* each producer: "idle", "lock" or "send" (it holds the read lock)
  batches,    \* the batches it still has to deliver
  batch,      \* what is left of the batch in Handle
  chan,       \* GotdUpdateChannel.updates, or updateCh
  closed,     \* GotdUpdateChannel.closed
  cpc,        \* Consume: "start", "select", "handling", "closing", "lock", "done"
  item,       \* the raw update in hand
  todo,       \* what is left of what it was mapped to
  polls,      \* reaction polls so far
  err,        \* what Consume's loop ended with
  ctxDone,    \* the context given to Start is cancelled
  clientDone, \* the context the client gave to its callbacks is cancelled
  result,     \* what Start returned
  published,  \* items with their index in Yields that the sink accepted, in order
  handed,     \* items given to the driver, in order
  dropped,    \* items the driver turned away
  timedOut,   \* a publish ran into its deadline
  expired     \* a deadline of the client went by: the sign-in's, a connection's

prodVars == <<ppc, batches, batch, handed, dropped>>
consVars == <<cpc, item, todo, polls, err, result, published, timedOut, expired>>
ingestVars == <<kind, prodVars, chan, closed, consVars, ctxDone, clientDone>>

IngestInit ==
  /\ kind \in Kinds
  /\ ppc = [p \in Producers |-> "idle"]
  /\ batches = Script
  /\ batch = [p \in Producers |-> <<>>]
  /\ chan = <<>> /\ closed = FALSE
  /\ cpc = "start" /\ item = "none" /\ todo = <<>> /\ polls = 0
  /\ err = "none" /\ result = "none"
  /\ ctxDone = FALSE /\ clientDone = FALSE
  /\ published = <<>> /\ handed = <<>> /\ dropped = {} /\ timedOut = FALSE /\ expired = FALSE

RunDone == ctxDone \/ clientDone

(* The client's side. *)

\* A callback begins.  Discord registers its handlers before it opens the
\* session; Telegram's client delivers once it is connected.
Handle(p) ==
  /\ ppc[p] = "idle" /\ batches[p] # <<>>
  /\ cpc \notin {"start", "done"} /\ ~clientDone
  /\ batches' = [batches EXCEPT ![p] = Tail(@)]
  /\ batch' = [batch EXCEPT ![p] = Head(batches[p])]
  /\ handed' = handed \o Head(batches[p])
  /\ ppc' = [ppc EXCEPT ![p] = IF Head(batches[p]) = <<>> THEN "idle" ELSE "lock"]
  /\ UNCHANGED <<kind, dropped, chan, closed, consVars, ctxDone, clientDone>>

GiveUp(p) ==
  /\ dropped' = dropped \cup ToSet(batch[p])
  /\ batch' = [batch EXCEPT ![p] = <<>>]
  /\ ppc' = [ppc EXCEPT ![p] = "idle"]
  /\ UNCHANGED <<kind, batches, handed, chan, closed, consVars, ctxDone, clientDone>>

Delivered(p) ==
  /\ batch' = [batch EXCEPT ![p] = Tail(@)]
  /\ ppc' = [ppc EXCEPT ![p] = IF Tail(batch[p]) = <<>> THEN "idle" ELSE "lock"]

\* DiscordgoSource.publish: a send that does not wait.
Offer(p) ==
  /\ kind = "discord" /\ ppc[p] = "lock"
  /\ IF Len(chan) < Buffer
     THEN chan' = Append(chan, Head(batch[p])) /\ UNCHANGED dropped
     ELSE dropped' = dropped \cup {Head(batch[p])} /\ UNCHANGED chan
  /\ Delivered(p)
  /\ UNCHANGED <<kind, batches, handed, closed, consVars, ctxDone, clientDone>>

\* GotdUpdateChannel.publish takes the read lock, which waits for a writer
\* that holds it or is queued, and finds the channel open or closed.
ReadLock(p) ==
  /\ kind = "telegram" /\ ppc[p] = "lock" /\ cpc # "lock"
  /\ ~closed
  /\ ppc' = [ppc EXCEPT ![p] = "send"]
  /\ UNCHANGED <<kind, batches, batch, handed, dropped, chan, closed, consVars, ctxDone, clientDone>>

StreamClosed(p) ==
  kind = "telegram" /\ ppc[p] = "lock" /\ cpc # "lock" /\ closed /\ GiveUp(p)

\* The select of publish, both arms; the read lock is released on return.
SendOrDrop(p) ==
  /\ ppc[p] = "send"
  /\ IF Len(chan) < Buffer
     THEN chan' = Append(chan, Head(batch[p])) /\ UNCHANGED dropped
     ELSE dropped' = dropped \cup {Head(batch[p])} /\ UNCHANGED chan
  /\ Delivered(p)
  /\ UNCHANGED <<kind, batches, handed, closed, consVars, ctxDone, clientDone>>
Send(p) ==
  /\ ppc[p] = "send" /\ Len(chan) < Buffer
  /\ chan' = Append(chan, Head(batch[p]))
  /\ Delivered(p)
  /\ UNCHANGED <<kind, batches, handed, dropped, closed, consVars, ctxDone, clientDone>>

SendForEver(p) == ppc[p] = "send" /\ closed /\ GiveUp(p)
SendCancelled(p) == ppc[p] = "send" /\ RunDone /\ GiveUp(p)

(* Consume and the driver around it. *)

\* Connecting and authenticating, or opening the session, may fail: then
\* the callback with the loop and its deferred Close never runs.
ClientReady ==
  /\ cpc = "start" /\ cpc' = "select"
  /\ UNCHANGED <<kind, prodVars, chan, closed, item, todo, polls, err, result,
                 published, timedOut, expired, ctxDone, clientDone>>

\* Driver.Start: an end by cancellation or by a deadline is no error.
AlwaysQuiet(e) == "nil"
Outcome(e) == IF e = "error" THEN "error" ELSE "nil"

Finish(e) ==
  /\ cpc' = "done" /\ clientDone' = TRUE /\ result' = Outcome(e)
  /\ err' = e

\* The sign-in has a deadline of its own; so has the dialling of a client.
ClientRefused ==
  /\ cpc = "start"
  /\ \E e \in {"error", "deadline"} \cup (IF ctxDone THEN {"canceled"} ELSE {}) :
        /\ Finish(e)
        /\ expired' = (expired \/ e = "deadline")
  /\ UNCHANGED <<kind, prodVars, chan, closed, item, todo, polls, published, timedOut, ctxDone>>

\* The gotd client fails by itself: its context ends, and Run reports it.
ClientFails ==
  /\ kind = "telegram" /\ cpc \notin {"start", "done"} /\ ~clientDone
  /\ clientDone' = TRUE
  /\ \E e \in {"error", "deadline"} :
        /\ err' = IF err = "none" THEN e ELSE err
        /\ expired' = (expired \/ e = "deadline")
  /\ UNCHANGED <<kind, prodVars, chan, closed, cpc, item, todo, polls, result,
                 published, timedOut, ctxDone>>

Leave(e) ==
  /\ cpc' = "closing" /\ todo' = <<>> /\ item' = "none"
  /\ err' = IF err = "none" THEN e ELSE err

SeesCancel ==
  /\ cpc = "select" /\ RunDone
  /\ Leave("none")
  /\ UNCHANGED <<kind, prodVars, chan, closed, polls, result, published, timedOut, expired,
                 ctxDone, clientDone>>

Work(i, y) ==
  IF y = MapFails THEN Leave("error")
  ELSE /\ cpc' = IF y = <<>> THEN "select" ELSE "handling"
       /\ item' = i /\ todo' = y /\ UNCHANGED err

TakeUpdate ==
  /\ cpc = "select" /\ chan # <<>>
  /\ chan' = Tail(chan)
  /\ Work(Head(chan), Yields[Head(chan)])
  /\ UNCHANGED <<kind, prodVars, closed, polls, result, published, timedOut, expired, ctxDone, clientDone>>

PollTick ==
  /\ kind = "telegram" /\ cpc = "select" /\ polls < MaxPolls
  /\ polls' = polls + 1
  /\ \E y \in Polls : Work("poll", y)
  /\ UNCHANGED <<kind, prodVars, chan, closed, result, published, timedOut, expired, ctxDone, clientDone>>

\* Driver.handleUpdate on the next mapped update.
NextUpdate ==
  /\ todo' = Tail(todo)
  /\ cpc' = IF Tail(todo) = <<>> THEN "select" ELSE "handling"
  /\ UNCHANGED <<item, err>>

Undecodable ==
  /\ cpc = "handling" /\ Head(todo) = "undecodable"
  /\ Leave("error")
  /\ UNCHANGED <<kind, prodVars, chan, closed, polls, result, published, timedOut, expired,
                 ctxDone, clientDone>>

PublishOk ==
  /\ cpc = "handling" /\ Head(todo) = "event"
  /\ NextUpdate
  /\ published' = Append(published, item)
  /\ UNCHANGED <<kind, prodVars, chan, closed, polls, result, timedOut, expired, ctxDone, clientDone>>

\* The sink's error, the publish deadline or the cancelled context.
PublishFails ==
  /\ cpc = "handling" /\ Head(todo) = "event"
  /\ \E e \in {"error", "deadline"} \cup (IF RunDone THEN {"canceled"} ELSE {}) :
        /\ Leave(e)
        /\ timedOut' = (timedOut \/ e = "deadline")
  /\ UNCHANGED <<kind, prodVars, chan, closed, polls, result, published, expired, ctxDone, clientDone>>

\* The deferred GotdUpdateChannel.Close queues for the write lock ...
CloseBegin ==
  /\ kind = "telegram" /\ cpc = "closing" /\ cpc' = "lock"
  /\ UNCHANGED <<kind, prodVars, chan, closed, item, todo, polls, err, result,
                 published, timedOut, expired, ctxDone, clientDone>>

\* ... and gets it when no producer holds the read lock.
CloseStream ==
  /\ cpc = "lock" /\ \A p \in Producers : ppc[p] # "send"
  /\ closed' = TRUE
  /\ Finish(err)
  /\ UNCHANGED <<kind, prodVars, chan, item, todo, polls, published, timedOut, expired, ctxDone>>

\* The deferred Session.Close: no channel is closed, callbacks may go on.
CloseSession ==
  /\ kind = "discord" /\ cpc = "closing"
  /\ Finish(err)
  /\ UNCHANGED <<kind, prodVars, chan, closed, item, todo, polls, published, timedOut, expired, ctxDone>>

(* The kernel's side. *)
Cancel ==
  /\ ~ctxDone /\ ctxDone' = TRUE
  /\ UNCHANGED <<kind, prodVars, chan, closed, consVars, clientDone>>

Deliver(p) == Offer(p) \/ ReadLock(p) \/ StreamClosed(p) \/ Send(p) \/ SendCancelled(p)
Connect == ClientReady \/ ClientRefused
Consume == \/ SeesCancel \/ TakeUpdate \/ Undecodable \/ PublishOk \/ PublishFails
           \/ CloseBegin \/ CloseStream \/ CloseSession

IngestNext ==
  \/ \E p \in Producers : Handle(p) \/ Deliver(p)
  \/ Connect \/ Consume \/ PollTick \/ ClientFails \/ Cancel

IngestSpec == IngestInit /\ [][IngestNext]_ingestVars

\* Goroutines that can go on do, except that nothing ever has to come of
\* connecting: the sign-in may read its code from stdin, and neither that nor
\* the opening of a Discord session heeds the context.  A select with its
\* context done may still pick a ready channel, but not for ever (SF, as in
\* Go's random choice).
IngestFairSpec ==
  /\ IngestSpec
  /\ WF_ingestVars(Consume) /\ SF_ingestVars(SeesCancel)
  /\ \A p \in Producers : WF_ingestVars(Deliver(p))

-----------------------------------------------------------------------------
IngestTypeOK ==
  /\ kind \in Kinds
  /\ ppc \in [Producers -> {"idle", "lock", "send"}]
  /\ Len(chan) <= Buffer
  /\ cpc \in {"start", "select", "handling", "closing", "lock", "done"}
  /\ {closed, ctxDone, clientDone, timedOut, expired} \subseteq BOOLEAN
  /\ err \in {"none", "error", "deadline", "canceled"}
  /\ result \in {"none", "nil", "error"}

Running == cpc \in {"select", "handling"} /\ ~RunDone

Mine(p)     == UNION {ToSet(b) : b \in ToSet(Script[p])}
Position(i) == CHOOSE n \in 1..Len(handed) : handed[n] = i

\* While its consumer runs, the Telegram driver loses no update, however full
\* the channel is; the Discord driver sheds what its buffer has no room for.
\* In both, whatever is dropped, no update of a producer overtakes another.
UpdatesArriveInOrder ==
  /\ kind = "telegram" /\ Running => dropped = {}
  /\ \A p \in Producers : \A m, n \in 1..Len(published) :
        m < n /\ {published[m], published[n]} \subseteq Mine(p)
          => Position(published[m]) <= Position(published[n])

\* Start returns nil only if it was told to stop, if a publish ran into the
\* driver's own deadline, or if a deadline of the client went by, such as that
\* of the sign-in.  Nobody is told of the last two; but whatever else ends the
\* loop, an update that cannot be mapped, decoded or published, is reported.
QuietEndHasACause ==
  result = "nil" => ctxDone \/ timedOut \/ expired

\* Once its context is cancelled a driver that is connected ends, whatever its
\* producers are blocked on: what Run's shutdown of the drivers relies on.
IngestEnds == ctxDone /\ cpc # "start" ~> result # "none"

\* A driver that met an error ends.  It does not when a producer waits for
\* room in the channel under the lock Close waits for.
FailureEnds == err # "none" ~> result # "none"
=============================================================================
