------------------------ MODULE MemoryFormationProofs ------------------------
(***************************************************************************)
(* The formation of memories for any scopes, articles, records, triggers    *)
(* and clock: no article is lost between the windows and the workers, a     *)
(* shutdown drains, and a deleted record stays deleted.                     *)
(***************************************************************************)
EXTENDS MemoryFormation, SequenceTheorems, TLAPS

Labels == {"off", "loop", "flush", "drain", "gone", "cycle", "list", "prune"}

Window == [arts : Seq(Articles), first : Nat, last : Nat]
JobRec == [at : {"none", "search", "apply"}, scope : Scopes \union {None},
            arts : SUBSET Articles, seen : SUBSET Records, left : 0 .. MaxActions]

(* The inductive invariant.  Besides the types: a worker without a job holds *)
(* nothing, the flush worker has windows in hand only between a scan and its *)
(* end, and the consolidator a job only while it is at a scope.              *)
MemTypes ==
  /\ TypeOK
  /\ window \in [Scopes -> Window] /\ pc \in [Workers -> Labels]

Hands ==
  /\ \A w \in Workers : job[w].at = "none" => job[w].arts = {}
  /\ pc["flusher"] \in {"off", "loop", "gone"} => taken = {} /\ job["flusher"].at = "none"
  /\ pc["consolidator"] # "list" => job["consolidator"].at = "none"
  /\ module = "new" => pc = [w \in Workers |-> "off"]

(* A flush worker on its way out, unless its context ended, has emptied every *)
(* window, and nothing comes after it unless a handler outlived the close of *)
(* its subscription: the module takes no more articles.                      *)
Leaving ==
  /\ pc["flusher"] \in {"drain", "gone"} /\ ~ctxDone =>
       /\ module \notin {"new", "up"}
       /\ ~straggler => \A s \in Scopes : window[s].arts = << >>
  /\ module \in {"stopping2", "down"} /\ ~timedOut => pc["flusher"] = "gone"
  /\ module = "down" /\ ~timedOut => pc["consolidator"] = "gone"

MemIInv == MemTypes /\ Hands /\ Leaving /\ NothingLost
-----------------------------------------------------------------------------
(* Where an accepted article may wait, and how the steps move it on.         *)
InWindow(s) == Copies(s, Range(window[s].arts))
InWindows   == UNION {InWindow(s) : s \in Scopes}
InTaken     == UNION {Copies(win.scope, win.arts) : win \in taken}
InJob(w)    == Copies(job[w].scope, job[w].arts)
InJobs      == InJob("flusher") \union InJob("consolidator")

LEMMA HeldParts ==
  /\ Held = InWindows \union InTaken \union InJobs
  /\ Held' = InWindows' \union InTaken' \union InJobs'
<1>1. UNION {InJob(w) : w \in Workers} = InJobs
  BY DEF Workers, InJobs
<1>2. (UNION {InJob(w) : w \in Workers})' = InJobs'
  BY DEF Workers, InJobs
<1> QED  BY <1>1, <1>2 DEF Held, InWindows, InWindow, InTaken, InJob

LEMMA CopiesOf ==
  /\ \A s : Copies(s, {}) = {}
  /\ \A s, a : Copies(s, {a}) = {<<s, a>>}
  /\ \A s, A, B : Copies(s, A \union B) = Copies(s, A) \union Copies(s, B)
<1>1. \A s : Copies(s, {}) = {}
  BY DEF Copies
<1>2. \A s, a : Copies(s, {a}) = {<<s, a>>}
  BY DEF Copies
<1>3. \A s, A, B : Copies(s, A \union B) = Copies(s, A) \union Copies(s, B)
  BY DEF Copies
<1> QED  BY <1>1, <1>2, <1>3

LEMMA EmptyWindow ==
  Range(Empty.arts) = {} /\ Empty \in Window /\ Empty.first = 0 /\ Empty.last = 0
<1>1. Empty.arts = << >> /\ Empty \in Window
  BY DEF Empty, Window
<1> QED  BY <1>1 DEF Range, Empty

LEMMA NothingHeld ==
  ASSUME \A s \in Scopes : window[s].arts = << >>, taken = {}, \A w \in Workers : job[w].arts = {}
  PROVE  InWindows = {} /\ InTaken = {} /\ InJobs = {}
<1>1. Range(<< >>) = {}
  BY DEF Range
<1>2. \A s \in Scopes : InWindow(s) = {}
  BY <1>1, CopiesOf DEF InWindow
<1>3. \A w \in Workers : InJob(w) = {}
  BY CopiesOf DEF InJob
<1> QED  BY <1>2, <1>3 DEF InWindows, InTaken, InJobs, Workers

LEMMA AppendedRange ==
  ASSUME NEW win \in Window, NEW a \in Articles, MemTypes, win.first <= win.last, win.last <= now,
         IsInjective(win.arts)
  PROVE  /\ Appended(win, a) \in Window /\ IsInjective(Appended(win, a).arts)
         /\ Range(Appended(win, a).arts) = Range(win.arts) \union {a}
         /\ Appended(win, a).first <= Appended(win, a).last /\ Appended(win, a).last <= now
<1>1. now \in Nat
  BY MemoryAssumption DEF MemTypes, TypeOK, Time
<1>2. CASE Seen(win, a)
  BY <1>2 DEF Appended, Seen
<1>3. CASE ~Seen(win, a)
  <2> DEFINE arts == Append(win.arts, a)
             first == IF win.arts = << >> THEN now ELSE win.first
  <2>1. Appended(win, a) = [arts |-> arts, first |-> first, last |-> now]
    BY <1>3 DEF Appended
  <2>2. /\ win.arts \in Seq(Articles) /\ arts \in Seq(Articles) /\ Len(arts) = Len(win.arts) + 1
        /\ arts[Len(arts)] = a /\ \A i \in 1..Len(win.arts) : arts[i] = win.arts[i]
        /\ DOMAIN arts = 1..Len(arts) /\ DOMAIN win.arts = 1..Len(win.arts)
    BY DEF Window
  <2>3. first \in Nat /\ first <= now
    BY <1>1 DEF Window
  <2> HIDE DEF first, arts
  <2>4. Appended(win, a) \in Window
    BY <1>1, <2>1, <2>2, <2>3 DEF Window
  <2>5. \A i \in 1..Len(win.arts) : win.arts[i] # a
    BY <1>3, <2>2 DEF Seen, Range
  <2>6. IsInjective(arts)
    <3> SUFFICES ASSUME NEW i \in 1..Len(arts), NEW j \in 1..Len(arts), arts[i] = arts[j]
                 PROVE  i = j
      BY <2>2 DEF IsInjective
    <3>1. \A k, l \in 1..Len(win.arts) : win.arts[k] = win.arts[l] => k = l
      BY <2>2 DEF IsInjective
    <3>2. Len(win.arts) \in Nat
      BY <2>2
    <3> QED  BY <2>2, <2>5, <3>1, <3>2
  <2>7. Range(arts) = Range(win.arts) \union {a}
    <3>1. Len(win.arts) \in Nat /\ 1..Len(arts) = 1..Len(win.arts) \union {Len(arts)}
      BY <2>2
    <3> QED  BY <2>2, <3>1 DEF Range
  <2> QED  BY <1>1, <2>1, <2>3, <2>4, <2>6, <2>7
<1> QED  BY <1>2, <1>3

LEMMA WindowGrows ==
  ASSUME window \in [Scopes -> Window], NEW s \in Scopes, NEW a,
         NEW win \in Window, Range(win.arts) = Range(window[s].arts) \union {a},
         window' = [window EXCEPT ![s] = win]
  PROVE  InWindows' = InWindows \union {<<s, a>>}
<1>1. window'[s] = win /\ \A t \in Scopes : t # s => window'[t] = window[t]
  OBVIOUS
<1>2. InWindow(s)' = InWindow(s) \union {<<s, a>>}
  <2>1. InWindow(s)' = Copies(s, Range(window[s].arts) \union {a})
    BY <1>1 DEF InWindow
  <2>2. /\ Copies(s, Range(window[s].arts) \union {a})
             = Copies(s, Range(window[s].arts)) \union Copies(s, {a})
        /\ Copies(s, {a}) = {<<s, a>>}
    BY DEF Copies
  <2> QED  BY <2>1, <2>2 DEF InWindow
<1>3. \A t \in Scopes : t # s => InWindow(t)' = InWindow(t)
  BY <1>1 DEF InWindow
<1> QED  BY <1>2, <1>3 DEF InWindows

LEMMA WindowsReset ==
  ASSUME window \in [Scopes -> Window], NEW S \in SUBSET Scopes, Reset(S)
  PROVE  /\ InWindows = InWindows' \union UNION {InWindow(s) : s \in S}
         /\ window' \in [Scopes -> Window] /\ \A s \in S : window'[s] = Empty
         /\ \A s \in Scopes \ S : window'[s] = window[s]
<1>1. /\ \A s \in S : window'[s] = Empty
      /\ \A s \in Scopes \ S : window'[s] = window[s]
      /\ window' \in [Scopes -> Window]
  BY EmptyWindow DEF Reset
<1>2. \A s \in S : InWindow(s)' = {}
  BY <1>1, EmptyWindow, CopiesOf DEF InWindow
<1>3. ASSUME NEW s \in Scopes \ S
      PROVE  InWindow(s)' = InWindow(s)
  <2>1. window'[s] = window[s]
    BY <1>1
  <2> QED  BY <2>1 DEF InWindow
<1>4. InWindows = InWindows' \union UNION {InWindow(s) : s \in S}
  BY <1>2, <1>3 DEF InWindows
<1> QED  BY <1>1, <1>4

LEMMA ReadyHolds ==
  ASSUME window \in [Scopes -> Window], NEW S \in SUBSET Scopes
  PROVE  /\ UNION {Copies(win.scope, win.arts) : win \in Ready(S)} = UNION {InWindow(s) : s \in S}
         /\ Ready(S) \subseteq [scope : Scopes, arts : SUBSET Articles]
<1>1. \A s \in S : Range(window[s].arts) \subseteq Articles
  BY DEF Window, Range
<1>2. Ready(S) \subseteq [scope : Scopes, arts : SUBSET Articles]
  BY <1>1 DEF Ready
<1>3. UNION {Copies(win.scope, win.arts) : win \in Ready(S)} = UNION {InWindow(s) : s \in S}
  <2> DEFINE held(s) == [scope |-> s, arts |-> Range(window[s].arts)]
  <2>1. \A win : win \in Ready(S) <=> \E s \in S : win = held(s)
    BY DEF Ready
  <2>2. \A s \in S : Copies(held(s).scope, held(s).arts) = InWindow(s)
    BY DEF InWindow
  <2> HIDE DEF held
  <2> QED  BY <2>1, <2>2
<1> QED  BY <1>2, <1>3

LEMMA HeldStays ==
  ASSUME UNCHANGED <<window, taken>>,
         \A w \in Workers : job'[w].scope = job[w].scope /\ job'[w].arts = job[w].arts
  PROVE  Held' = Held
<1>1. InWindows' = InWindows /\ InTaken' = InTaken
  BY DEF InWindows, InWindow, InTaken
<1>2. InJobs' = InJobs
  BY DEF InJobs, InJob, Workers
<1> QED  BY <1>1, <1>2, HeldParts

-----------------------------------------------------------------------------
(* The steps that move no article: time, the store, the consolidator's own   *)
(* course and the hooks.                                                     *)
LEMMA TickStep ==
  ASSUME MemIInv, Tick
  PROVE  MemIInv'
<1> USE DEF MemIInv, Tick
<1>1. now \in Nat /\ now + 1 \in Time /\ \A s \in Scopes : window[s].last \in Nat
  BY MemoryAssumption DEF MemTypes, TypeOK, Time, Window
<1>2. \A s \in Scopes : window[s].last <= now + 1
  BY <1>1 DEF MemTypes, TypeOK
<1>3. MemTypes'
  BY <1>1, <1>2 DEF MemTypes, TypeOK, workVars
<1>4. Hands' /\ Leaving'
  BY DEF Hands, Leaving, workVars
<1>5. NothingLost'
  BY HeldStays DEF NothingLost, workVars, history
<1> QED  BY <1>3, <1>4, <1>5

(* A job goes on: its window stays its own, and the store keeps its type.    *)
LEMMA JobGoesOn ==
  ASSUME MemIInv, NEW w \in Workers, NEW x \in JobRec, job' = [job EXCEPT ![w] = x],
         job[w].at # "none", x.at # "none", x.scope = job[w].scope, x.arts = job[w].arts,
         rec' \in [Records -> {Absent, Forever} \union Time], used' \subseteq Records,
         UNCHANGED <<now, window, ctxDone, module, pc, taken, scopes, scope, prune, history, timedOut, straggler>>
  PROVE  MemIInv'
<1> USE DEF MemIInv
<1>1. /\ job \in [Workers -> JobRec] /\ job' \in [Workers -> JobRec] /\ job'[w] = x
      /\ \A v \in Workers : v # w => job'[v] = job[v]
  BY DEF MemTypes, TypeOK, JobRec
<1>2. MemTypes'
  BY <1>1 DEF MemTypes, TypeOK, JobRec
<1>3. Hands' /\ Leaving'
  BY <1>1 DEF Hands, Leaving, Workers
<1>4. \A v \in Workers : job'[v].scope = job[v].scope /\ job'[v].arts = job[v].arts
  BY <1>1
<1>5. NothingLost'
  BY <1>4, HeldStays DEF NothingLost, history
<1> QED  BY <1>2, <1>3, <1>5

LEMMA SearchStep ==
  ASSUME MemIInv, NEW w \in Workers, Search(w)
  PROVE  MemIInv'
<1> DEFINE found == {k \in Records : HomeOf[k] = job[w].scope /\ rec[k] >= now}
           x == [job[w] EXCEPT !.at = "apply", !.seen = found]
<1>1. job[w] \in JobRec /\ job[w].at = "search" /\ found \subseteq Records
  BY DEF Search, MemIInv, MemTypes, TypeOK, JobRec
<1> HIDE DEF found
<1>2. x \in JobRec /\ x.at = "apply" /\ x.scope = job[w].scope /\ x.arts = job[w].arts
  BY <1>1 DEF JobRec
<1>3. job' = [job EXCEPT ![w] = x]
  BY DEF Search, found
<1> HIDE DEF x
<1>4. /\ rec' \in [Records -> {Absent, Forever} \union Time] /\ used' \subseteq Records
      /\ UNCHANGED <<now, window, ctxDone, module, pc, taken, scopes, scope, prune, history, timedOut, straggler>>
  BY DEF Search, MemIInv, MemTypes, TypeOK
<1> QED  BY <1>1, <1>2, <1>3, <1>4, JobGoesOn

LEMMA ApplyStep ==
  ASSUME MemIInv, NEW w \in Workers, NEW k \in Records, NEW deadline \in {now, Forever},
         ApplyDelete(w, k) \/ ApplyNew(w, k, deadline) \/ ApplyUpdate(w, k, deadline)
  PROVE  MemIInv'
<1> DEFINE x == [job[w] EXCEPT !.left = @ - 1]
<1>1. /\ job[w] \in JobRec /\ job[w].at = "apply" /\ job[w].left > 0 /\ job' = [job EXCEPT ![w] = x]
      /\ UNCHANGED <<now, window, ctxDone, module, pc, taken, scopes, scope, prune, history, timedOut, straggler>>
  BY DEF ApplyDelete, ApplyNew, ApplyUpdate, Applying, MemIInv, MemTypes, TypeOK, JobRec
<1>2. x \in JobRec /\ x.at = "apply" /\ x.scope = job[w].scope /\ x.arts = job[w].arts
  <2>1. job[w].left - 1 \in 0..MaxActions
    BY <1>1, MemoryAssumption DEF JobRec
  <2> QED  BY <1>1, <2>1, Zenon DEF JobRec
<1> HIDE DEF x
<1>3. rec' \in [Records -> {Absent, Forever} \union Time] /\ used' \subseteq Records
  <2>1. /\ rec \in [Records -> {Absent, Forever} \union Time] /\ used \subseteq Records
        /\ deadline \in {Absent, Forever} \union Time
    BY DEF MemIInv, MemTypes, TypeOK
  <2>2. \/ rec' = rec \/ rec' = [rec EXCEPT ![k] = deadline] \/ rec' = [rec EXCEPT ![k] = Absent]
    BY DEF ApplyDelete, ApplyNew, ApplyUpdate
  <2>3. used' = used \/ used' = used \union {k}
    BY DEF ApplyDelete, ApplyNew, ApplyUpdate
  <2> QED  BY <2>1, <2>2, <2>3
<1> QED  BY <1>1, <1>2, <1>3, JobGoesOn

(* The consolidator moves between its own places with no job in hand.        *)
LEMMA ConsolidatorMoves ==
  ASSUME MemIInv, NEW label \in {"loop", "cycle", "prune", "gone"},
         pc["consolidator"] \in {"loop", "cycle", "list", "prune"},
         job["consolidator"].at = "none", pc' = [pc EXCEPT !["consolidator"] = label],
         scopes' \subseteq Scopes, scope' \in Scopes \union {None}, prune' \subseteq Records,
         UNCHANGED <<now, window, ctxDone, module, taken, job, rec, used, history, timedOut, straggler>>
  PROVE  MemIInv'
<1> USE DEF MemIInv
<1>1. /\ pc' \in [Workers -> Labels] /\ pc'["flusher"] = pc["flusher"] /\ pc'["consolidator"] = label
      /\ label \in {"off", "loop", "cycle", "list", "prune", "gone"}
  BY DEF MemTypes, Workers, Labels
<1>2. MemTypes'
  BY <1>1 DEF MemTypes, TypeOK
<1>3. module # "new"
  BY DEF Hands, Workers
<1>4. Hands'
  BY <1>1, <1>3 DEF Hands
<1>5. Leaving'
  BY <1>1 DEF Leaving
<1>6. NothingLost'
  BY HeldStays DEF NothingLost, history
<1> QED  BY <1>2, <1>4, <1>5, <1>6

LEMMA ConsolidatorStep ==
  ASSUME MemIInv, CycleBegin \/ ListScope \/ ScopeEnd \/ CycleEnd \/ ConsolidationExits
  PROVE  MemIInv'
<1>1. /\ scopes \subseteq Scopes /\ scope \in Scopes \union {None} /\ prune \subseteq Records
      /\ Pending \subseteq Scopes
  BY DEF MemIInv, MemTypes, TypeOK, Pending
<1>2. /\ pc["consolidator"] \in {"loop", "cycle", "list", "prune"} /\ job["consolidator"].at = "none"
      /\ \E label \in {"loop", "cycle", "prune", "gone"} : pc' = [pc EXCEPT !["consolidator"] = label]
      /\ UNCHANGED <<now, window, ctxDone, module, taken, job, rec, used, history, timedOut, straggler>>
  BY DEF CycleBegin, ListScope, ScopeEnd, CycleEnd, ConsolidationExits, Goto, MemIInv, Hands
<1>3. scopes' \subseteq Scopes /\ scope' \in Scopes \union {None} /\ prune' \subseteq Records
  BY <1>1 DEF CycleBegin, ListScope, ScopeEnd, CycleEnd, ConsolidationExits
<1> QED  BY <1>2, <1>3, ConsolidatorMoves

LEMMA PruneStep ==
  ASSUME MemIInv, NEW k \in Records, PruneRecord(k)
  PROVE  MemIInv'
<1> USE DEF MemIInv, PruneRecord
<1>1. rec' \in [Records -> {Absent, Forever} \union Time] /\ prune' \subseteq Records
  BY DEF MemTypes, TypeOK
<1>2. MemTypes' /\ Hands' /\ Leaving'
  BY <1>1 DEF MemTypes, TypeOK, Hands, Leaving
<1>3. NothingLost'
  BY HeldStays DEF NothingLost, history
<1> QED  BY <1>2, <1>3

LEMMA HookStep ==
  ASSUME MemIInv, OnStart \/ CancelHook \/ Hooks
  PROVE  MemIInv'
<1> USE DEF MemIInv
<1>1. UNCHANGED <<now, window, taken, scopes, scope, prune, job, rec, used, history>>
  BY DEF OnStart, CancelHook, Hooks, OnShutdown, Stopped, workVars
<1>2. NothingLost'
  <2>1. ctxDone => ctxDone'
    BY DEF OnStart, CancelHook, Hooks, OnShutdown, Stopped
  <2> QED  BY <1>1, <2>1, HeldStays DEF NothingLost, history
<1>3. CASE OnStart
  <2>1. /\ module = "new" /\ module' = "up" /\ UNCHANGED <<ctxDone, timedOut, straggler>>
        /\ pc' \in [Workers -> Labels] /\ pc'["flusher"] = "loop"
        /\ pc'["consolidator"] \in {"loop", "gone"}
    BY <1>3 DEF OnStart, Workers, Labels
  <2>2. job["consolidator"].at = "none" /\ job["flusher"].at = "none" /\ taken = {}
    BY <2>1 DEF Hands, Workers
  <2>3. MemTypes'
    BY <1>1, <2>1 DEF MemTypes, TypeOK
  <2>4. Hands' /\ Leaving'
    BY <1>1, <2>1, <2>2 DEF Hands, Leaving
  <2> QED  BY <1>2, <2>3, <2>4
<1>4. CASE CancelHook
  <2>1. UNCHANGED <<module, pc, timedOut, straggler>> /\ ctxDone' = TRUE
    BY <1>4 DEF CancelHook, workVars
  <2> QED  BY <1>1, <1>2, <2>1 DEF MemTypes, TypeOK, Hands, Leaving
<1>5. CASE OnShutdown
  <2>1. /\ UNCHANGED <<ctxDone, pc, timedOut>> /\ module = "up" /\ module' = "stopping"
        /\ straggler' \in BOOLEAN
    BY <1>5 DEF OnShutdown, workVars
  <2> QED  BY <1>1, <1>2, <2>1 DEF MemTypes, TypeOK, Hands, Leaving
<1>6. CASE Stopped("flusher", "stopping", "stopping2")
  <2>1. /\ UNCHANGED <<ctxDone, pc, straggler>> /\ module = "stopping" /\ module' = "stopping2"
        /\ timedOut' \in BOOLEAN /\ (~timedOut' => pc["flusher"] = "gone" /\ ~timedOut)
    BY <1>6 DEF Stopped, workVars, MemTypes, TypeOK
  <2> QED  BY <1>1, <1>2, <2>1 DEF MemTypes, TypeOK, Hands, Leaving
<1>7. CASE Stopped("consolidator", "stopping2", "down")
  <2>1. /\ UNCHANGED <<ctxDone, pc, straggler>> /\ module = "stopping2" /\ module' = "down"
        /\ timedOut' \in BOOLEAN /\ (~timedOut' => pc["consolidator"] = "gone" /\ ~timedOut)
    BY <1>7 DEF Stopped, workVars, MemTypes, TypeOK
  <2> QED  BY <1>1, <1>2, <2>1 DEF MemTypes, TypeOK, Hands, Leaving
<1> QED  BY <1>3, <1>4, <1>5, <1>6, <1>7 DEF Hooks

-----------------------------------------------------------------------------
(* The steps that move articles: into a window, from the windows into the    *)
(* flush worker's hands or a job, and out of a job.                          *)
LEMMA EnqueueStep ==
  ASSUME MemIInv, NEW s \in Scopes, NEW a \in Articles, Enqueue(s, a)
  PROVE  MemIInv'
<1> USE DEF MemIInv
<1> DEFINE win == Appended(window[s], a)
<1>1. /\ module = "up" \/ straggler
      /\ window' = [window EXCEPT ![s] = win] /\ accepted' = accepted \union {<<s, a>>}
      /\ UNCHANGED <<now, ctxDone, module, pc, taken, scopes, scope, prune, job, rec, used,
                     formed, failed, dropped, timedOut, straggler>>
  BY DEF Enqueue, workVars
<1>2. /\ win \in Window /\ IsInjective(win.arts) /\ win.first <= win.last /\ win.last <= now
      /\ Range(win.arts) = Range(window[s].arts) \union {a}
  BY AppendedRange DEF MemTypes, TypeOK
<1> HIDE DEF win
<1>3. /\ window \in [Scopes -> Window] /\ window' \in [Scopes -> Window] /\ window'[s] = win
      /\ \A t \in Scopes : t # s => window'[t] = window[t]
  BY <1>1, <1>2 DEF MemTypes
<1>4. \A t \in Scopes : /\ window'[t].arts \in Seq(Articles) /\ IsInjective(window'[t].arts)
                        /\ window'[t].first <= window'[t].last /\ window'[t].last <= now
  BY <1>2, <1>3 DEF MemTypes, TypeOK, Window
<1>5. MemTypes'
  BY <1>1, <1>3, <1>4 DEF MemTypes, TypeOK
<1>6. Hands'
  BY <1>1 DEF Hands
<1>7. Leaving'
  BY <1>1 DEF Leaving
<1>8. NothingLost'
  <2>1. InWindows' = InWindows \union {<<s, a>>}
    BY <1>1, <1>2, <1>3, WindowGrows
  <2>2. InTaken' = InTaken /\ InJobs' = InJobs
    BY <1>1 DEF InTaken, InJobs, InJob
  <2> QED  BY <1>1, <2>1, <2>2, HeldParts DEF NothingLost
<1> QED  BY <1>5, <1>6, <1>7, <1>8

(* A scan takes windows out of the map as they are and leaves the rest.      *)
LEMMA ScanStep ==
  ASSUME MemIInv, NEW S \in SUBSET Scopes, NEW label \in {"flush", "drain"},
         pc["flusher"] = "loop", taken' = Ready(S), Reset(S), Goto("flusher", label),
         label = "drain" => S = Pending /\ (ctxDone \/ module \in {"stopping", "stopping2", "down"}),
         UNCHANGED <<now, ctxDone, module, scopes, scope, prune, job, rec, used, history, timedOut, straggler>>
  PROVE  MemIInv'
<1> USE DEF MemIInv
<1>1. window \in [Scopes -> Window] /\ taken = {}
  BY DEF MemTypes, Hands
<1>2. /\ InWindows = InWindows' \union UNION {InWindow(s) : s \in S}
      /\ window' \in [Scopes -> Window] /\ \A s \in S : window'[s] = Empty
      /\ \A s \in Scopes \ S : window'[s] = window[s]
  BY <1>1, WindowsReset
<1>3. InTaken' = UNION {InWindow(s) : s \in S} /\ taken' \subseteq [scope : Scopes, arts : SUBSET Articles]
  BY <1>1, ReadyHolds DEF InTaken
<1>4. /\ pc' \in [Workers -> Labels] /\ pc'["flusher"] = label /\ pc'["consolidator"] = pc["consolidator"]
  BY DEF Goto, MemTypes, Workers, Labels
<1>5. MemTypes'
  <2>1. \A s \in Scopes : /\ window'[s].arts \in Seq(Articles) /\ IsInjective(window'[s].arts)
                          /\ window'[s].first <= window'[s].last /\ window'[s].last <= now
    <3> SUFFICES ASSUME NEW s \in Scopes
                 PROVE  /\ window'[s].arts \in Seq(Articles) /\ IsInjective(window'[s].arts)
                        /\ window'[s].first <= window'[s].last /\ window'[s].last <= now
      OBVIOUS
    <3>1. CASE s \in S
      <4>1. window'[s] = Empty /\ now >= 0
        BY <1>2, <3>1, MemoryAssumption DEF MemTypes, TypeOK, Time
      <4>2. Empty.arts = << >> /\ Empty.first = 0 /\ Empty.last = 0 /\ IsInjective(<< >>)
        BY DEF Empty, IsInjective
      <4> QED  BY <4>1, <4>2
    <3>2. CASE s \notin S
      BY <1>2, <3>2 DEF MemTypes, TypeOK
    <3> QED  BY <3>1, <3>2
  <2> QED  BY <1>2, <1>3, <1>4, <2>1 DEF MemTypes, TypeOK
<1>6. Hands'
  <2>1. module # "new"
    BY DEF Hands, Workers
  <2> QED  BY <1>4, <2>1 DEF Hands
<1>7. Leaving'
  <2>1. label = "drain" => \A s \in Scopes : window'[s].arts = << >>
    BY <1>2 DEF Pending, Empty
  <2> QED  BY <1>4, <2>1 DEF Leaving
<1>8. NothingLost'
  <2>1. InJobs' = InJobs /\ InTaken = {}
    BY <1>1 DEF InJobs, InJob, InTaken
  <2> QED  BY <1>2, <1>3, <2>1, HeldParts DEF NothingLost, history
<1> QED  BY <1>5, <1>6, <1>7, <1>8

LEMMA FlushStep ==
  ASSUME MemIInv, FlushReady \/ DrainAll
  PROVE  MemIInv'
<1>1. CASE FlushReady
  BY <1>1, ScanStep DEF FlushReady
<1>2. CASE DrainAll
  <2>1. Pending \in SUBSET Scopes
    BY DEF Pending
  <2> QED  BY <1>2, <2>1, ScanStep DEF DrainAll, Drained
<1> QED  BY <1>1, <1>2

LEMMA JobStarts ==
  ASSUME MemIInv, NEW w \in Workers, NEW s \in Scopes, NEW arts \in SUBSET Articles,
         job[w].at = "none", Process(w, s, arts)
  PROVE  /\ job' \in [Workers -> JobRec] /\ job'[w].at = "search"
         /\ \A v \in Workers : v # w => job'[v] = job[v]
         /\ InJobs' = InJobs \union Copies(s, arts)
<1> DEFINE x == [at |-> "search", scope |-> s, arts |-> arts, seen |-> {}, left |-> MaxActions]
<1>1. x \in JobRec /\ x.at = "search" /\ x.scope = s /\ x.arts = arts
  BY MemoryAssumption DEF JobRec
<1> HIDE DEF x
<1>2. job' = [job EXCEPT ![w] = x] /\ job \in [Workers -> JobRec] /\ job[w].arts = {}
  BY DEF Process, x, MemIInv, MemTypes, TypeOK, JobRec, Hands
<1>3. job' \in [Workers -> JobRec] /\ job'[w] = x /\ \A v \in Workers : v # w => job'[v] = job[v]
  BY <1>1, <1>2
<1>4. InJob(w) = {} /\ InJob(w)' = Copies(s, arts)
  BY <1>1, <1>2, <1>3, CopiesOf DEF InJob
<1>5. \A v \in Workers : v # w => InJob(v)' = InJob(v)
  BY <1>3 DEF InJob
<1>6. InJobs' = InJobs \union Copies(s, arts)
  BY <1>4, <1>5 DEF InJobs, Workers
<1> QED  BY <1>1, <1>3, <1>6

LEMMA ProcessTakenStep ==
  ASSUME MemIInv, NEW win \in taken, ProcessTaken(win)
  PROVE  MemIInv'
<1> USE DEF MemIInv
<1>1. /\ pc["flusher"] \in {"flush", "drain"} /\ job["flusher"].at = "none" /\ taken' = taken \ {win}
      /\ Process("flusher", win.scope, win.arts) /\ win.scope \in Scopes /\ win.arts \in SUBSET Articles
      /\ UNCHANGED <<now, window, ctxDone, module, pc, scopes, scope, prune, rec, used, history, timedOut, straggler>>
  BY DEF ProcessTaken, MemTypes, TypeOK
<1>2. /\ job' \in [Workers -> JobRec] /\ job'["flusher"].at = "search"
      /\ \A v \in Workers : v # "flusher" => job'[v] = job[v]
      /\ InJobs' = InJobs \union Copies(win.scope, win.arts)
  BY <1>1, JobStarts DEF Workers
<1>3. MemTypes'
  BY <1>1, <1>2 DEF MemTypes, TypeOK, JobRec
<1>4. Hands'
  BY <1>1, <1>2 DEF Hands, Workers
<1>5. Leaving'
  BY <1>1 DEF Leaving
<1>6. InWindows' = InWindows /\ InTaken = InTaken' \union Copies(win.scope, win.arts)
  BY <1>1 DEF InWindows, InWindow, InTaken
<1>7. NothingLost'
  BY <1>1, <1>2, <1>6, HeldParts DEF NothingLost, history
<1> QED  BY <1>3, <1>4, <1>5, <1>7

LEMMA LoopOverStep ==
  ASSUME MemIInv, LoopOver
  PROVE  MemIInv'
<1> USE DEF MemIInv
<1>1. /\ pc["flusher"] \in {"flush", "drain"} /\ job["flusher"].at = "none" /\ (taken = {} \/ ctxDone)
      /\ dropped' = dropped \union InTaken /\ taken' = {}
      /\ pc' = [pc EXCEPT !["flusher"] = IF pc["flusher"] = "flush" THEN "loop" ELSE "gone"]
      /\ UNCHANGED <<now, window, ctxDone, module, scopes, scope, prune, job, rec, used,
                     accepted, formed, failed, timedOut, straggler>>
  BY DEF LoopOver, Goto, AfterScan, InTaken
<1>2. /\ pc' \in [Workers -> Labels] /\ pc'["consolidator"] = pc["consolidator"]
      /\ pc'["flusher"] = IF pc["flusher"] = "flush" THEN "loop" ELSE "gone"
  BY <1>1 DEF MemTypes, Workers, Labels
<1>3. MemTypes'
  BY <1>1, <1>2 DEF MemTypes, TypeOK
<1>4. Hands'
  <2>1. module # "new"
    BY <1>1 DEF Hands, Workers
  <2> QED  BY <1>1, <1>2, <2>1 DEF Hands
<1>5. Leaving'
  BY <1>1, <1>2 DEF Leaving
<1>6. NothingLost'
  <2>1. InWindows' = InWindows /\ InTaken' = {} /\ InJobs' = InJobs
    BY <1>1 DEF InWindows, InWindow, InTaken, InJobs, InJob
  <2>2. InTaken = {} \/ ctxDone
    BY <1>1 DEF InTaken
  <2> QED  BY <1>1, <2>1, <2>2, HeldParts DEF NothingLost
<1> QED  BY <1>3, <1>4, <1>5, <1>6

(* A job ends as processed or as a recorded failure.                         *)
LEMMA JobEnds ==
  ASSUME MemIInv, NEW w \in Workers, JobFails(w) \/ JobDone(w)
  PROVE  MemIInv'
<1> USE DEF MemIInv
<1>1. /\ job' = [job EXCEPT ![w] = NoJob] /\ formed' \union failed' = (formed \union failed) \union InJob(w)
      /\ UNCHANGED <<now, window, ctxDone, module, pc, taken, scopes, scope, prune, rec, used,
                     accepted, dropped, timedOut, straggler>>
  BY DEF JobFails, JobDone, Finish, Report, InJob
<1>2. /\ job' \in [Workers -> JobRec] /\ job'[w] = NoJob /\ NoJob.at = "none" /\ NoJob.arts = {}
      /\ \A v \in Workers : v # w => job'[v] = job[v]
  <2>1. NoJob \in JobRec /\ NoJob.at = "none" /\ NoJob.arts = {}
    BY MemoryAssumption DEF NoJob, JobRec
  <2> QED  BY <1>1, <2>1 DEF MemTypes, TypeOK, JobRec
<1>3. MemTypes'
  BY <1>1, <1>2 DEF MemTypes, TypeOK, JobRec
<1>4. Hands' /\ Leaving'
  BY <1>1, <1>2 DEF Hands, Leaving, Workers
<1>5. NothingLost'
  <2>1. InWindows' = InWindows /\ InTaken' = InTaken
    BY <1>1 DEF InWindows, InWindow, InTaken
  <2>2. InJob(w)' = {} /\ \A v \in Workers : v # w => InJob(v)' = InJob(v)
    BY <1>2, CopiesOf DEF InJob
  <2>3. InJobs = InJobs' \union InJob(w)
    BY <2>2 DEF InJobs, Workers
  <2> QED  BY <1>1, <2>1, <2>3, HeldParts DEF NothingLost
<1> QED  BY <1>3, <1>4, <1>5

LEMMA ScopeBeginStep ==
  ASSUME MemIInv, NEW s \in Scopes, ScopeBegin(s)
  PROVE  MemIInv'
<1> USE DEF MemIInv
<1>1. /\ pc["consolidator"] = "cycle" /\ scopes' = scopes \ {s} /\ scope' = s
      /\ pc' = [pc EXCEPT !["consolidator"] = "list"]
      /\ UNCHANGED <<now, ctxDone, module, taken, prune, rec, used, history, timedOut, straggler>>
      /\ job["consolidator"].at = "none" /\ module # "new" /\ window \in [Scopes -> Window]
  BY DEF ScopeBegin, Goto, Hands, MemTypes, Workers
<1>2. /\ pc' \in [Workers -> Labels] /\ pc'["flusher"] = pc["flusher"] /\ pc'["consolidator"] = "list"
  BY <1>1 DEF MemTypes, Workers, Labels
<1>3. CASE s \in Pending
  <2> DEFINE arts == Range(window[s].arts)
  <2>1. arts \in SUBSET Articles
    BY <1>1 DEF Window, Range
  <2>2. Process("consolidator", s, arts) /\ Reset({s})
    BY <1>3 DEF ScopeBegin
  <2> HIDE DEF arts
  <2>3. /\ job' \in [Workers -> JobRec] /\ \A v \in Workers : v # "consolidator" => job'[v] = job[v]
        /\ job'["consolidator"].at = "search"
        /\ InJobs' = InJobs \union Copies(s, arts)
    BY <1>1, <2>1, <2>2, JobStarts DEF Workers
  <2>4. /\ InWindows = InWindows' \union UNION {InWindow(t) : t \in {s}}
        /\ window' \in [Scopes -> Window] /\ \A t \in {s} : window'[t] = Empty
        /\ \A t \in Scopes \ {s} : window'[t] = window[t]
    BY <1>1, <2>2, WindowsReset
  <2>5. MemTypes'
    <3>1. \A t \in Scopes : /\ window'[t].arts \in Seq(Articles) /\ IsInjective(window'[t].arts)
                            /\ window'[t].first <= window'[t].last /\ window'[t].last <= now
      <4> SUFFICES ASSUME NEW t \in Scopes
                   PROVE  /\ window'[t].arts \in Seq(Articles) /\ IsInjective(window'[t].arts)
                          /\ window'[t].first <= window'[t].last /\ window'[t].last <= now
        OBVIOUS
      <4>1. CASE t = s
        <5>1. window'[t] = Empty /\ now >= 0
          BY <2>4, <4>1, MemoryAssumption DEF MemTypes, TypeOK, Time
        <5>2. Empty.arts = << >> /\ Empty.first = 0 /\ Empty.last = 0 /\ IsInjective(<< >>)
          BY DEF Empty, IsInjective
        <5> QED  BY <5>1, <5>2
      <4>2. CASE t # s
        BY <2>4, <4>2 DEF MemTypes, TypeOK
      <4> QED  BY <4>1, <4>2
    <3> QED  BY <1>1, <1>2, <2>3, <2>4, <3>1 DEF MemTypes, TypeOK, JobRec
  <2>6. Hands'
    BY <1>1, <1>2, <2>3 DEF Hands, Workers
  <2>7. Leaving'
    BY <1>1, <1>2, <2>4 DEF Leaving, Empty
  <2>8. NothingLost'
    <3>1. UNION {InWindow(t) : t \in {s}} = Copies(s, arts) /\ InTaken' = InTaken
      BY <1>1 DEF InWindow, InTaken, arts
    <3> QED  BY <1>1, <2>3, <2>4, <3>1, HeldParts DEF NothingLost, history
  <2> QED  BY <2>5, <2>6, <2>7, <2>8
<1>4. CASE s \notin Pending
  <2>1. UNCHANGED <<job, window>>
    BY <1>4 DEF ScopeBegin
  <2>2. MemTypes' /\ Hands' /\ Leaving'
    BY <1>1, <1>2, <2>1 DEF MemTypes, TypeOK, Hands, Leaving
  <2>3. NothingLost'
    BY <1>1, <2>1, HeldStays DEF NothingLost, history
  <2> QED  BY <2>2, <2>3
<1> QED  BY <1>3, <1>4

-----------------------------------------------------------------------------
LEMMA FormationBegins ==
  ASSUME Init
  PROVE  MemIInv
<1>1. NoJob \in JobRec /\ NoJob.at = "none" /\ NoJob.arts = {}
  BY MemoryAssumption DEF NoJob, JobRec
<1>2. /\ Empty \in Window /\ Empty.arts = << >> /\ Empty.first = 0 /\ Empty.last = 0
      /\ IsInjective(<< >>) /\ Range(<< >>) = {}
  BY DEF Empty, Window, IsInjective, Range
<1>3. now = 0 /\ now \in Time
  BY MemoryAssumption DEF Init, Time
<1>4. /\ window \in [Scopes -> Window] /\ \A s \in Scopes : window[s] = Empty
      /\ job \in [Workers -> JobRec] /\ \A w \in Workers : job[w] = NoJob
      /\ pc \in [Workers -> Labels] /\ \A w \in Workers : pc[w] = "off"
      /\ rec \in [Records -> {Absent, Forever} \union Time]
  BY <1>1, <1>2 DEF Init, Labels
<1>5. "flusher" \in Workers /\ "consolidator" \in Workers
  BY DEF Workers
<1>6. MemTypes
  <2>1. \A s \in Scopes : /\ window[s].arts \in Seq(Articles) /\ IsInjective(window[s].arts)
                          /\ window[s].first <= window[s].last /\ window[s].last <= now
    <3> SUFFICES ASSUME NEW s \in Scopes
                 PROVE  /\ window[s].arts \in Seq(Articles) /\ IsInjective(window[s].arts)
                        /\ window[s].first <= window[s].last /\ window[s].last <= now
      OBVIOUS
    <3>1. window[s] = Empty
      BY <1>4
    <3>2. << >> \in Seq(Articles) /\ 0 <= 0 /\ 0 <= now
      BY <1>3
    <3> QED  BY <1>2, <3>1, <3>2
  <2>2. /\ ctxDone \in BOOLEAN /\ timedOut \in BOOLEAN /\ straggler \in BOOLEAN /\ module = "new" /\ taken = {}
        /\ scopes = {} /\ scope = None /\ prune = {} /\ used = {}
    BY DEF Init
  <2>3. pc["flusher"] = "off" /\ pc["consolidator"] = "off"
    BY <1>4, <1>5
  <2> QED  BY <1>3, <1>4, <2>1, <2>2, <2>3 DEF MemTypes, TypeOK, JobRec
<1>7. Hands /\ Leaving
  BY <1>1, <1>4, <1>5 DEF Init, Hands, Leaving
<1>8. NothingLost
  <2>1. InWindows = {} /\ InTaken = {} /\ InJobs = {}
    BY <1>1, <1>2, <1>4, <1>5, NothingHeld DEF Init
  <2> QED  BY <2>1, HeldParts DEF Init, NothingLost
<1> QED  BY <1>6, <1>7, <1>8 DEF MemIInv

LEMMA FormationStep ==
  ASSUME MemIInv, [Next]_vars
  PROVE  MemIInv'
<1>1. ASSUME NEW w \in Workers, JobStep(w)
      PROVE  MemIInv'
  BY <1>1, SearchStep, ApplyStep, JobEnds DEF JobStep
<1>2. CASE Flusher
  BY <1>1, <1>2, FlushStep, LoopOverStep, ProcessTakenStep DEF Flusher, Workers
<1>3. CASE Consolidator
  BY <1>1, <1>3, ScopeBeginStep, ConsolidatorStep, PruneStep DEF Consolidator, Workers
<1>4. CASE UNCHANGED vars
  <2> USE <1>4 DEF MemIInv, vars, workVars, history
  <2>1. MemTypes' /\ Hands' /\ Leaving'
    BY DEF MemTypes, TypeOK, Hands, Leaving
  <2>2. NothingLost'
    BY HeldStays DEF NothingLost
  <2> QED  BY <2>1, <2>2
<1> QED  BY <1>2, <1>3, <1>4, TickStep, EnqueueStep, FlushStep, ConsolidatorStep, HookStep DEF Next

LEMMA FormationInvariant == Spec => []MemIInv
  BY FormationBegins, FormationStep, PTL DEF Spec

(* Windows, jobs, records and the clock keep their types; a window holds an  *)
(* article once.                                                             *)
THEOREM FormationTypes == Spec => []TypeOK
<1>1. MemIInv => TypeOK
  BY DEF MemIInv, MemTypes
<1> QED  BY <1>1, FormationInvariant, PTL

(* For any scopes, triggers and interleaving of the two workers, an accepted *)
(* article is waiting, processed or reported as a failure; it is dropped     *)
(* only once the workers' context is done.                                   *)
THEOREM ArticlesAreKept == Spec => []NothingLost
<1>1. MemIInv => NothingLost
  BY DEF MemIInv
<1> QED  BY <1>1, FormationInvariant, PTL

(* When OnShutdown returns without a timeout, after a close of the           *)
(* subscriptions without one, and the workers' context lives, no article     *)
(* waits any more.                                                           *)
THEOREM ShutdownLeavesNone == Spec => []ShutdownDrains
<1>1. ASSUME MemIInv, module = "down", ~timedOut, ~straggler, ~ctxDone
      PROVE  Held = {}
  <2>1. /\ pc["flusher"] = "gone" /\ pc["consolidator"] = "gone"
        /\ \A s \in Scopes : window[s].arts = << >>
    BY <1>1 DEF MemIInv, Leaving
  <2>2. taken = {} /\ \A w \in Workers : job[w].arts = {}
    BY <1>1, <2>1 DEF MemIInv, Hands, Workers
  <2>3. InWindows = {} /\ InTaken = {} /\ InJobs = {}
    BY <2>1, <2>2, NothingHeld
  <2> QED  BY <2>3, HeldParts
<1>2. MemIInv => ShutdownDrains
  BY <1>1 DEF ShutdownDrains
<1> QED  BY <1>2, FormationInvariant, PTL

(* A record that was deleted never comes back, whatever the other worker had *)
(* read before.                                                              *)
THEOREM DeletionIsFinal == Spec => DeletedStaysDeleted
<1>1. ASSUME MemIInv, [Next]_vars
      PROVE  [\A k \in used : rec[k] = Absent => rec'[k] = Absent]_vars
  <2> SUFFICES ASSUME Next, NEW k \in used, rec[k] = Absent PROVE rec'[k] = Absent
    BY <1>1
  <2>1. k \in Records /\ rec \in [Records -> {Absent, Forever} \union Time]
    BY <1>1 DEF MemIInv, MemTypes, TypeOK
  <2>2. ASSUME NEW w \in Workers, JobStep(w)
        PROVE  rec'[k] = Absent
    <3>1. CASE Search(w) \/ JobFails(w) \/ JobDone(w)
      BY <3>1 DEF Search, JobFails, JobDone
    <3>2. ASSUME NEW n \in Records, ApplyDelete(w, n)
          PROVE  rec'[k] = Absent
      BY <2>1, <3>2 DEF ApplyDelete
    <3>3. ASSUME NEW n \in Records, NEW deadline \in {now, Forever},
                 ApplyNew(w, n, deadline) \/ ApplyUpdate(w, n, deadline)
          PROVE  rec'[k] = Absent
      BY <2>1, <3>3 DEF ApplyNew, ApplyUpdate, RowExists
    <3> QED  BY <2>2, <3>1, <3>2, <3>3 DEF JobStep
  <2>3. CASE Flusher
    BY <2>2, <2>3 DEF Flusher, DrainAll, LoopOver, ProcessTaken, Workers
  <2>4. CASE Consolidator
    BY <2>1, <2>2, <2>4 DEF Consolidator, ScopeBegin, ListScope, PruneRecord, ScopeEnd, CycleEnd,
                            ConsolidationExits, Workers
  <2> QED  BY <2>3, <2>4 DEF Next, Tick, Enqueue, FlushReady, CycleBegin, OnStart, CancelHook, Hooks,
                             OnShutdown, Stopped
<1> QED  BY <1>1, FormationInvariant, PTL DEF Spec, DeletedStaysDeleted
=============================================================================
