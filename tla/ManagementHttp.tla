--------------------------- MODULE ManagementHttp ---------------------------
(***************************************************************************)
(* The life of the management server: internal/driver/managementhttp        *)
(* (driver.go).  Start listens, stores the server, serves, and on           *)
(* cancellation shuts the server down; the kernel's Shutdown may come at    *)
(* the same time.  Both go through one sync.Once.  net/http is external:    *)
(* Serve returns when the server was shut down, before or after it began,   *)
(* or by itself; Shutdown returns when no request is left or when its time  *)
(* is over.                                                                 *)
(***************************************************************************)
EXTENDS Naturals

VARIABLES
  start,    \* Start: "listen", "store", "select", "stop", "await", "done"
  stop,     \* the kernel's Shutdown: "idle", "stop", "done"
  stored,   \* Driver.server is set
  once,     \* shutdownOnce: "unused", who runs it, or "used"
  wasted,   \* it was used up before there was a server
  serve,    \* the server: "none", "listening", "serving", "closed", "failed"
  reported, \* Serve has put its result into serverErr
  busy,     \* a request is being answered
  cancelled,\* the context given to Start
  outcome   \* what Start returned

httpVars == <<start, stop, stored, once, wasted, serve, reported, busy, cancelled, outcome>>

HttpInit ==
  /\ start = "listen" /\ stop = "idle" /\ stored = FALSE
  /\ once = "unused" /\ wasted = FALSE /\ serve = "none"
  /\ reported = FALSE /\ busy = FALSE /\ cancelled = FALSE /\ outcome = "none"

Returns(r) == start' = "done" /\ outcome' = r

Listen ==
  /\ start = "listen"
  /\ \/ start' = "store" /\ serve' = "listening" /\ UNCHANGED outcome
     \/ Returns("error") /\ UNCHANGED serve
  /\ UNCHANGED <<stop, stored, once, wasted, reported, busy, cancelled>>

\* The server is stored under the lock, then its goroutine is started.
StoreServer ==
  /\ start = "store" /\ start' = "select" /\ stored' = TRUE
  /\ UNCHANGED <<stop, once, wasted, serve, reported, busy, cancelled, outcome>>

\* The goroutine; a server that was shut down does not begin to serve.
ServeBegins ==
  /\ stored /\ serve = "listening" /\ serve' = "serving"
  /\ UNCHANGED <<start, stop, stored, once, wasted, reported, busy, cancelled, outcome>>

ServeFails ==
  /\ stored /\ serve = "serving" /\ serve' = "failed"
  /\ UNCHANGED <<start, stop, stored, once, wasted, reported, busy, cancelled, outcome>>

ReturnsOnError ==
  /\ stored /\ serve = "failed" /\ ~reported /\ reported' = TRUE
  /\ UNCHANGED <<start, stop, stored, once, wasted, serve, busy, cancelled, outcome>>
ServeReturns ==
  /\ stored /\ serve \in {"closed", "failed"} /\ ~reported /\ reported' = TRUE
  /\ UNCHANGED <<start, stop, stored, once, wasted, serve, busy, cancelled, outcome>>

Request ==
  /\ serve = "serving" /\ ~busy /\ busy' = TRUE
  /\ UNCHANGED <<start, stop, stored, once, wasted, serve, reported, cancelled, outcome>>
Answered ==
  /\ busy /\ busy' = FALSE
  /\ UNCHANGED <<start, stop, stored, once, wasted, serve, reported, cancelled, outcome>>

\* The select of Start.
SeeServerErr ==
  /\ start = "select" /\ reported
  /\ Returns(IF serve = "failed" THEN "error" ELSE "nil")
  /\ UNCHANGED <<stop, stored, once, wasted, serve, reported, busy, cancelled>>
SeeDone ==
  /\ start = "select" /\ cancelled /\ start' = "stop"
  /\ UNCHANGED <<stop, stored, once, wasted, serve, reported, busy, cancelled, outcome>>

ShutdownCalled ==
  /\ stop = "idle" /\ cancelled /\ stop' = "stop"
  /\ UNCHANGED <<start, stored, once, wasted, serve, reported, busy, cancelled, outcome>>

At(who) == IF who = "start" THEN start = "stop" ELSE stop = "stop"

\* What follows the once: an error is the caller's who ran it.
GoOn(who, failed) ==
  IF who # "start" THEN stop' = "done" /\ UNCHANGED <<start, outcome>>
  ELSE /\ UNCHANGED stop
       /\ IF failed THEN Returns("error") ELSE start' = "await" /\ UNCHANGED outcome

\* shutdownOnce.Do: the first caller closes the listener ...
EnterOnce(who) ==
  /\ At(who) /\ once = "unused"
  /\ IF stored
     THEN /\ once' = who /\ serve' = IF serve = "failed" THEN "failed" ELSE "closed"
          /\ UNCHANGED <<start, stop, wasted, outcome>>
     ELSE once' = "used" /\ wasted' = TRUE /\ GoOn(who, FALSE) /\ UNCHANGED serve
  /\ UNCHANGED <<stored, reported, busy, cancelled>>

\* ... and waits for the requests, as long as its context lasts; ...
LeaveOnce(who) ==
  /\ At(who) /\ once = who /\ once' = "used"
  /\ GoOn(who, busy)
  /\ UNCHANGED <<stored, wasted, serve, reported, busy, cancelled>>

\* ... any other one waits for the first and does nothing.
OnceIsUsed(who) ==
  /\ At(who) /\ once = "used" /\ GoOn(who, FALSE)
  /\ UNCHANGED <<stored, once, wasted, serve, reported, busy, cancelled>>

AwaitServe ==
  /\ start = "await" /\ reported /\ Returns("nil")
  /\ UNCHANGED <<stop, stored, once, wasted, serve, reported, busy, cancelled>>

CancelHttp ==
  /\ ~cancelled /\ cancelled' = TRUE
  /\ UNCHANGED <<start, stop, stored, once, wasted, serve, reported, busy, outcome>>

HttpStep ==
  \/ Listen \/ StoreServer \/ ServeReturns \/ SeeServerErr \/ SeeDone \/ AwaitServe
  \/ \E who \in {"start", "kernel"} : EnterOnce(who) \/ LeaveOnce(who) \/ OnceIsUsed(who)

HttpNext ==
  \/ HttpStep \/ ServeBegins \/ ServeFails \/ Request \/ Answered
  \/ ShutdownCalled \/ CancelHttp

HttpSpec == HttpInit /\ [][HttpNext]_httpVars /\ WF_httpVars(HttpStep)

-----------------------------------------------------------------------------
\* Every variable keeps its type; a result is put into the channel once, by a server that ran.
HttpTypeOK ==
  /\ start \in {"listen", "store", "select", "stop", "await", "done"}
  /\ stop \in {"idle", "stop", "done"} /\ once \in {"unused", "start", "kernel", "used"}
  /\ serve \in {"none", "listening", "serving", "closed", "failed"}
  /\ {stored, wasted, reported, busy, cancelled} \subseteq BOOLEAN
  /\ reported => stored /\ serve \in {"closed", "failed"}

\* Cancelled, Start returns, and whatever call it was that shut the server
\* down the port is closed and nothing is served any more - unless the once
\* was used up before there was a server: then Start waits for ever, with
\* its context cancelled, for a server that goes on.
HttpEnds == cancelled ~> wasted \/ (start = "done" /\ serve \notin {"listening", "serving"})
=============================================================================
