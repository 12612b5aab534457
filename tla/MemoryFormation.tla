-------------------------- MODULE MemoryFormation --------------------------
(***************************************************************************)
(* How long-term memories are formed and maintained (modules/memory:       *)
(* window.go, flush_worker.go, extractor.go, consolidator.go, module.go).  *)
(*                                                                         *)
(* Handlers put articles into one window per scope.  The flush worker      *)
(* takes the windows that meet a trigger and extracts memories from them;  *)
(* the consolidation worker drains each scope's window and then prunes the *)
(* expired records.  An extraction looks records up, asks a language       *)
(* model, and applies the model's actions one by one, so the two workers   *)
(* interleave in the store.                                                *)
(*                                                                         *)
(* Time is a bounded clock.  The text of an article is its number of       *)
(* runes; a memory record is the deadline of its valid_until.              *)
(***************************************************************************)
EXTENDS Integers, Sequences, FiniteSetsExt, Functions

CONSTANTS
  Scopes,        \* conversations
  Articles,      \* article IDs
  Runes,         \* the length of each article's text
  Records,       \* memory record IDs, each handed out once
  HomeOf,        \* the scope each one is handed out in
  QuietPeriod, MaxAge, MaxArticles, MaxRunes,  \* the window triggers
  MaxTime,       \* bound on the clock
  MaxActions,    \* bound on the actions of one extraction
  HookCancels,   \* the context given to OnStart is cancelled when it returns
  Consolidation, \* ConsolidationInterval > 0
  None

Workers == {"flusher", "consolidator"}
Time    == 0 .. MaxTime
Forever == MaxTime + 1
Absent  == -1

ASSUME MemoryAssumption ==
  /\ Runes \in [Articles -> Nat \ {0}]
  /\ HomeOf \in [Records -> Scopes]
  /\ QuietPeriod \in Nat \ {0} /\ MaxAge \in Nat /\ MaxAge >= QuietPeriod
  /\ MaxArticles \in Nat \ {0} /\ MaxRunes \in Nat \ {0}
  /\ MaxTime \in Nat /\ MaxActions \in Nat
  /\ HookCancels \in BOOLEAN /\ Consolidation \in BOOLEAN
  /\ None \notin Scopes

VARIABLES
  now,       \* the clock
  window,    \* per scope: the articles buffered, the first and last arrival
  ctxDone,   \* the context the workers were started with is done
  module,    \* the module: "new", "up", "stopping", "stopping2" or "down"
  pc,        \* each worker's control point
  taken,     \* drained windows the flush worker still has to process
  scopes,    \* scopes the consolidation cycle still has to visit
  scope,     \* the one it is at
  prune,     \* records it saw expired and will delete
  job,       \* the window each worker processes
  rec,       \* the store: the deadline of each record, or Absent
  used,      \* record IDs handed out so far
  accepted,  \* <<scope, article>>: buffered in a window
  formed, failed,  \* processed, or reported as a failure
  dropped,   \* thrown away because the context was done
  timedOut,  \* a worker did not stop within OnShutdown's context
  straggler  \* a handler outlived the close of its subscription

workVars == <<pc, taken, scopes, scope, prune, job>>
history  == <<accepted, formed, failed, dropped>>
vars == <<now, window, ctxDone, module, workVars, rec, used, history, timedOut, straggler>>

Empty == [arts |-> << >>, first |-> 0, last |-> 0]
NoJob == [at |-> "none", scope |-> None, arts |-> {}, seen |-> {}, left |-> 0]

Init ==
  /\ now = 0
  /\ window = [s \in Scopes |-> Empty]
  /\ ctxDone = FALSE
  /\ module = "new"
  /\ pc = [w \in Workers |-> "off"]
  /\ taken = {} /\ scopes = {} /\ scope = None /\ prune = {}
  /\ job = [w \in Workers |-> NoJob]
  /\ rec = [k \in Records |-> Absent]
  /\ used = {} /\ accepted = {} /\ formed = {} /\ failed = {} /\ dropped = {}
  /\ timedOut = FALSE /\ straggler = FALSE

Copies(s, arts) == {s} \X arts
Goto(w, label) == pc' = [pc EXCEPT ![w] = label]

Tick ==
  /\ now < MaxTime
  /\ now' = now + 1
  /\ UNCHANGED <<window, ctxDone, module, workVars, rec, used, history, timedOut, straggler>>

-----------------------------------------------------------------------------
(* Windows *)

Seen(win, a) == a \in Range(win.arts)

\* articleWindow.append
Appended(win, a) ==
  IF Seen(win, a) THEN win
  ELSE [arts |-> Append(win.arts, a),
        first |-> IF win.arts = << >> THEN now ELSE win.first,
        last |-> now]

\* handleArticle and windowManager.Enqueue.  The kernel delivers between OnStart
\* and OnShutdown, and later only to a handler whose subscription was closed with
\* a timeout; an article may be redelivered until it was processed.
Enqueue(s, a) ==
  /\ module = "up" \/ straggler
  /\ <<s, a>> \notin formed \union failed \union dropped
  /\ window' = [window EXCEPT ![s] = Appended(@, a)]
  /\ accepted' = accepted \union {<<s, a>>}
  /\ UNCHANGED <<now, ctxDone, module, workVars, rec, used, formed, failed,
                 dropped, timedOut, straggler>>

TotalRunes(arts) == MapThenSumSet(LAMBDA a : Runes[a], Range(arts))

\* checkTriggers
Triggered(s) ==
  LET win == window[s] IN
  /\ win.arts # << >>
  /\ \/ now - win.last >= QuietPeriod
     \/ Len(win.arts) >= MaxArticles
     \/ TotalRunes(win.arts) >= MaxRunes
     \/ now - win.first >= MaxAge

Pending == {s \in Scopes : window[s].arts # << >>}

\* articleWindow.drain and the removal from the map.
Reset(S) == window' = [s \in Scopes |-> IF s \in S THEN Empty ELSE window[s]]

Ready(S) == {[scope |-> s, arts |-> Range(window[s].arts)] : s \in S}

-----------------------------------------------------------------------------
(* processWindow: one extraction of worker w *)

Process(w, s, arts) ==
  job' = [job EXCEPT ![w] = [at |-> "search", scope |-> s, arts |-> arts,
                             seen |-> {}, left |-> MaxActions]]

\* SQLiteStore.Search leaves out expired records.
Search(w) ==
  /\ job[w].at = "search"
  /\ job' = [job EXCEPT ![w].at = "apply",
                        ![w].seen = {k \in Records :
                          HomeOf[k] = job[w].scope /\ rec[k] >= now}]
  /\ UNCHANGED <<now, window, ctxDone, module, pc, taken, scopes, scope, prune,
                 rec, used, history, timedOut, straggler>>

Finish(w) == job' = [job EXCEPT ![w] = NoJob]

\* Mutant: the failure is swallowed.
Swallow(w) == UNCHANGED failed

\* recordProcessingFailure, or the consolidator's management event.
Report(w) == failed' = failed \union Copies(job[w].scope, job[w].arts)

\* The store, the embedding or the language model fails: the window is lost, and
\* the failure is recorded.  An action that fails is skipped instead.
JobFails(w) ==
  /\ job[w].at # "none"
  /\ job[w].left = MaxActions
  /\ Finish(w)
  /\ Report(w)
  /\ UNCHANGED <<now, window, ctxDone, module, pc, taken, scopes, scope, prune,
                 rec, used, accepted, formed, dropped, timedOut, straggler>>

Applying(w) ==
  /\ job[w].at = "apply"
  /\ job[w].left > 0
  /\ job' = [job EXCEPT ![w].left = @ - 1]
  /\ UNCHANGED <<now, window, ctxDone, module, pc, taken, scopes, scope, prune,
                 history, timedOut, straggler>>

\* applyNew
ApplyNew(w, k, deadline) ==
  /\ Applying(w)
  /\ HomeOf[k] = job[w].scope /\ k \notin used
  /\ used' = used \union {k}
  /\ rec' = [rec EXCEPT ![k] = deadline]

\* Mutant: the update does not ask whether the row is still there.
AnyRow(k) == TRUE

RowExists(k) == rec[k] # Absent

\* applyUpdate: the target is one of the records found; the UPDATE statement fails
\* when somebody deleted it meanwhile.
ApplyUpdate(w, k, deadline) ==
  /\ Applying(w)
  /\ k \in job[w].seen
  /\ rec' = IF RowExists(k) THEN [rec EXCEPT ![k] = deadline] ELSE rec
  /\ UNCHANGED used

\* applyDelete
ApplyDelete(w, k) ==
  /\ Applying(w)
  /\ k \in job[w].seen
  /\ rec' = [rec EXCEPT ![k] = Absent]
  /\ UNCHANGED used

JobDone(w) ==
  /\ job[w].at = "apply"
  /\ Finish(w)
  /\ formed' = formed \union Copies(job[w].scope, job[w].arts)
  /\ UNCHANGED <<now, window, ctxDone, module, pc, taken, scopes, scope, prune,
                 rec, used, accepted, failed, dropped, timedOut, straggler>>

-----------------------------------------------------------------------------
(* The flush worker *)

\* The ticker's case: flushReady.
FlushReady ==
  LET S == {s \in Scopes : Triggered(s)} IN
  /\ pc["flusher"] = "loop"
  /\ S # {}
  /\ taken' = Ready(S)
  /\ Reset(S)
  /\ Goto("flusher", "flush")
  /\ UNCHANGED <<now, ctxDone, module, scopes, scope, prune, job, rec, used,
                 history, timedOut, straggler>>

\* Mutant: the worker leaves without draining.
NotDrained == {}

Drained == Pending

\* The ctx.Done and stopCh cases: drainAll.  stopCh stays closed when Stop has
\* given up.
DrainAll ==
  /\ pc["flusher"] = "loop"
  /\ ctxDone \/ module \in {"stopping", "stopping2", "down"}
  /\ taken' = Ready(Drained)
  /\ Reset(Drained)
  /\ Goto("flusher", "drain")
  /\ UNCHANGED <<now, ctxDone, module, scopes, scope, prune, job, rec, used,
                 history, timedOut, straggler>>

ProcessTaken(win) ==
  /\ pc["flusher"] \in {"flush", "drain"}
  /\ job["flusher"].at = "none"
  /\ ~ctxDone
  /\ win \in taken
  /\ taken' = taken \ {win}
  /\ Process("flusher", win.scope, win.arts)
  /\ UNCHANGED <<now, window, ctxDone, module, pc, scopes, scope, prune, rec,
                 used, history, timedOut, straggler>>

AfterScan == "loop"

\* The loop over the windows ends: none is left, or the context is done and the
\* rest is forgotten.
LoopOver ==
  /\ pc["flusher"] \in {"flush", "drain"}
  /\ job["flusher"].at = "none"
  /\ taken = {} \/ ctxDone
  /\ dropped' = dropped
                \union (UNION {Copies(win.scope, win.arts) : win \in taken})
  /\ taken' = {}
  /\ Goto("flusher", IF pc["flusher"] = "flush" THEN AfterScan ELSE "gone")
  /\ UNCHANGED <<now, window, ctxDone, module, scopes, scope, prune, job, rec,
                 used, accepted, formed, failed, timedOut, straggler>>

-----------------------------------------------------------------------------
(* The consolidation worker *)

CycleBegin ==
  /\ pc["consolidator"] = "loop"
  /\ Pending # {}
  /\ scopes' = Pending
  /\ Goto("consolidator", "cycle")
  /\ UNCHANGED <<now, window, ctxDone, module, taken, scope, prune, job, rec,
                 used, history, timedOut, straggler>>

\* consolidateScope: DrainScope, and an extraction if there was something.
ScopeBegin(s) ==
  /\ pc["consolidator"] = "cycle"
  /\ ~ctxDone
  /\ s \in scopes
  /\ scopes' = scopes \ {s}
  /\ scope' = s
  /\ Goto("consolidator", "list")
  /\ IF s \in Pending
     THEN Process("consolidator", s, Range(window[s].arts)) /\ Reset({s})
     ELSE UNCHANGED <<job, window>>
  /\ UNCHANGED <<now, ctxDone, module, taken, prune, rec, used, history, timedOut, straggler>>

Expired(k) == rec[k] # Absent /\ rec[k] < now

\* ListByScope and the choice of what to delete.
ListScope ==
  /\ pc["consolidator"] = "list"
  /\ job["consolidator"].at = "none"
  /\ prune' = {k \in Records : HomeOf[k] = scope /\ Expired(k)}
  /\ Goto("consolidator", "prune")
  /\ UNCHANGED <<now, window, ctxDone, module, taken, scopes, scope, job, rec,
                 used, history, timedOut, straggler>>

\* Delete fails when the record is gone: the rest of the scope is left alone.
PruneRecord(k) ==
  /\ pc["consolidator"] = "prune"
  /\ k \in prune
  /\ rec' = [rec EXCEPT ![k] = Absent]
  /\ prune' = IF rec[k] = Absent THEN {} ELSE prune \ {k}
  /\ UNCHANGED <<now, window, ctxDone, module, pc, taken, scopes, scope, job,
                 used, history, timedOut, straggler>>

\* Nothing is left to delete, or the store failed on the way.
ScopeEnd ==
  /\ pc["consolidator"] = "prune"
  /\ prune' = {}
  /\ scope' = None
  /\ Goto("consolidator", "cycle")
  /\ UNCHANGED <<now, window, ctxDone, module, taken, scopes, job, rec,
                 used, history, timedOut, straggler>>

CycleEnd ==
  /\ pc["consolidator"] = "cycle"
  /\ scopes = {} \/ ctxDone
  /\ scopes' = {}
  /\ Goto("consolidator", "loop")
  /\ UNCHANGED <<now, window, ctxDone, module, taken, scope, prune, job, rec,
                 used, history, timedOut, straggler>>

ConsolidationExits ==
  /\ pc["consolidator"] = "loop"
  /\ ctxDone \/ module \in {"stopping2", "down"}
  /\ Goto("consolidator", "gone")
  /\ UNCHANGED <<now, window, ctxDone, module, taken, scopes, scope, prune, job,
                 rec, used, history, timedOut, straggler>>

-----------------------------------------------------------------------------
(* The module's hooks *)

OnStart ==
  /\ module = "new"
  /\ module' = "up"
  /\ pc' = [flusher |-> "loop",
            consolidator |-> IF Consolidation THEN "loop" ELSE "gone"]
  /\ UNCHANGED <<now, window, ctxDone, taken, scopes, scope, prune, job, rec,
                 used, history, timedOut, straggler>>

\* internal/kernel/kernel.go: startModules cancels the hook's context.
CancelHook ==
  /\ HookCancels
  /\ module # "new"
  /\ ~ctxDone
  /\ ctxDone' = TRUE
  /\ UNCHANGED <<now, window, module, workVars, rec, used, history, timedOut, straggler>>

\* The kernel has closed the module's subscriptions, or given up on one.
OnShutdown ==
  /\ module = "up"
  /\ module' = "stopping"
  /\ straggler' \in BOOLEAN
  /\ UNCHANGED <<now, window, ctxDone, workVars, rec, used, history, timedOut>>

\* flushWorker.Stop, then stopConsolidation: each waits for its worker or for the
\* context of the hook.
Stopped(w, from, to) ==
  /\ module = from
  /\ module' = to
  /\ timedOut' = (timedOut \/ pc[w] # "gone")
  /\ UNCHANGED <<now, window, ctxDone, workVars, rec, used, history, straggler>>

-----------------------------------------------------------------------------
JobStep(w) ==
  \/ Search(w) \/ JobFails(w) \/ JobDone(w)
  \/ \E k \in Records :
       \/ ApplyDelete(w, k)
       \/ \E deadline \in {now, Forever} :
            ApplyNew(w, k, deadline) \/ ApplyUpdate(w, k, deadline)

Flusher ==
  \/ DrainAll \/ LoopOver
  \/ \E win \in taken : ProcessTaken(win)
  \/ JobStep("flusher")

Consolidator ==
  \/ \E s \in Scopes : ScopeBegin(s)
  \/ ListScope \/ (\E k \in Records : PruneRecord(k)) \/ ScopeEnd \/ CycleEnd
  \/ ConsolidationExits
  \/ JobStep("consolidator")

Hooks ==
  \/ OnShutdown
  \/ Stopped("flusher", "stopping", "stopping2")
  \/ Stopped("consolidator", "stopping2", "down")

Next ==
  \/ Tick
  \/ \E s \in Scopes, a \in Articles : Enqueue(s, a)
  \/ Flusher \/ FlushReady \/ Consolidator \/ CycleBegin
  \/ OnStart \/ CancelHook \/ Hooks

Spec == Init /\ [][Next]_vars

(***************************************************************************)
(* Fairness.  Time passes, both workers are scheduled, a provider call     *)
(* ends (it has a deadline), and the flush worker's ticker fires.  The     *)
(* kernel starts the module and cancels the hook's context; nobody need    *)
(* shut it down.                                                           *)
(***************************************************************************)
FairSpec ==
  /\ Spec
  /\ WF_vars(Tick) /\ WF_vars(OnStart) /\ WF_vars(CancelHook)
  /\ WF_vars(Flusher) /\ WF_vars(FlushReady) /\ WF_vars(Consolidator)
-----------------------------------------------------------------------------
(* Properties *)

TypeOK ==
  /\ now \in Time
  /\ \A s \in Scopes :
       /\ window[s].arts \in Seq(Articles) /\ IsInjective(window[s].arts)
       /\ window[s].first <= window[s].last /\ window[s].last <= now
  /\ ctxDone \in BOOLEAN /\ timedOut \in BOOLEAN /\ straggler \in BOOLEAN
  /\ module \in {"new", "up", "stopping", "stopping2", "down"}
  /\ pc["flusher"] \in {"off", "loop", "flush", "drain", "gone"}
  /\ pc["consolidator"] \in {"off", "loop", "cycle", "list", "prune", "gone"}
  /\ taken \subseteq [scope : Scopes, arts : SUBSET Articles]
  /\ scopes \subseteq Scopes /\ scope \in Scopes \union {None}
  /\ prune \subseteq Records /\ used \subseteq Records
  /\ job \in [Workers ->
       [at : {"none", "search", "apply"}, scope : Scopes \union {None},
        arts : SUBSET Articles, seen : SUBSET Records, left : 0 .. MaxActions]]
  /\ rec \in [Records -> {Absent, Forever} \union Time]

Held ==
  (UNION {Copies(s, Range(window[s].arts)) : s \in Scopes})
  \union (UNION {Copies(win.scope, win.arts) : win \in taken})
  \union (UNION {Copies(job[w].scope, job[w].arts) : w \in Workers})

\* An article taken into a window is in a window, in a worker's hands, processed,
\* or reported as failed; it is dropped silently only once the workers' context
\* is done (windowManager, flushReady, drainAll, consolidateScope).
NothingLost ==
  /\ accepted = Held \union formed \union failed \union dropped
  /\ dropped # {} => ctxDone

\* When OnShutdown returns without a timeout, after a close of the subscriptions
\* without one, no article waits any more: "it drains all pending windows"
\* (modules/memory/module.go, OnShutdown).  With the workers' context done they are
\* gone already and do not.
ShutdownDrains ==
  module = "down" /\ ~timedOut /\ ~straggler /\ ~ctxDone => Held = {}

\* A deleted record never comes back, whatever the other worker saw before it was
\* deleted (applyUpdate, SQLiteStore.Update).
DeletedStaysDeleted ==
  [][\A k \in used : rec[k] = Absent => rec'[k] = Absent]_vars

\* "flushWorker periodically scans the window manager for ready windows": while
\* the module is up, a window that meets a trigger is taken.
FlushesReady ==
  \A s \in Scopes : Triggered(s) /\ module = "up" ~>
    window[s].arts = << >> \/ module \notin {"new", "up"}

\* "Maintenance removes a record only when its typed valid_until deadline has
\* passed" (docs/memory-facility.md).
MaintenanceKeepsValid ==
  [][\A k \in Records : PruneRecord(k) /\ rec[k] # Absent => Expired(k)]_vars
=============================================================================
