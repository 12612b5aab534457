----------------------------- MODULE KernelProofs -----------------------------
(***************************************************************************)
(* The kernel's life for any modules, names, commands, subscriptions,       *)
(* drivers and calls of Run: registration is all or nothing, handlers run   *)
(* within their module's life, and a Run that returns nil has left nothing  *)
(* behind.                                                                  *)
(*                                                                         *)
(* The capability gate, for every module, route and event: a subscription   *)
(* that was let through is allowed by a capability, an event in its hands   *)
(* was matched by its filter, and what a filter that names the capability's *)
(* dimensions matches, the capability matches.                              *)
(***************************************************************************)
EXTENDS Kernel, Negotiation, SequenceTheorems, TLAPS

-----------------------------------------------------------------------------
(* The inductive invariant.  First what registration keeps: a module is in   *)
(* the order from its claim to the end of its rollback, and a command has an *)
(* owner that will take it back.                                             *)
Staged(m) ==
  regPc[m] \in {"claimed", "hook", "handlers", "registered",
                "rollback", "rollbackCommands", "rollbackRecord"}

Membership == \A m \in Mods : m \in Claimed <=> Staged(m)

CommandsOwned ==
  \A m \in Mods : regPc[m] \in {"hook", "handlers", "registered"} =>
    \A c \in CommandsOf[m] : commands[c] = NameOf[m]

CommandsBacked ==
  \A c \in Commands : commands[c] # None =>
    \E m \in Claimed : /\ NameOf[m] = commands[c] /\ c \in CommandsOf[m]
                       /\ regPc[m] # "rollbackRecord"

RegInv == Membership /\ CommandsOwned /\ CommandsBacked

(* Where a subscription is.  An open one is tracked by its owner or still to *)
(* be closed by a rollback or a Run, one that is out of the bus is in the    *)
(* hands of whoever closes it; a rollback holds only its own module's.       *)
Tracks ==
  \A m \in Mods : \A s \in tracked[m] :
    /\ Owner[s] = m /\ sub[s] # "none"
    /\ regPc[m] \in {"hook", "handlers", "registered", "rollback"}

Closes(x, s) == closing[x] = s \/ (AtBus(x) /\ s \in left[x])

Held ==
  \A s \in Subs :
    /\ sub[s] = "open" => s \in tracked[Owner[s]] \/ \E x \in Closers : s \in left[x]
    /\ sub[s] = "out" => \E x \in Closers : Closes(x, s)

OneCloser ==
  /\ \A x \in Closers, s \in Subs : Closes(x, s) => sub[s] = "out"
  /\ \A x, y \in Closers, s \in Subs : Closes(x, s) /\ Closes(y, s) => x = y
  /\ \A x \in Closers, s \in Subs : closing[x] = s => s \notin left[x]

InHands ==
  /\ \A m \in Mods, s \in Subs : InHand(m, s) => Owner[s] = m /\ regPc[m] = "rollbackCommands"
  /\ \A r \in Runs, s \in Subs : InHand(r, s) => run[r].pc \in {"closing", "bus"}

BusDown == busClosed => \A s \in Subs : sub[s] # "open"

(* What is registered or on its way stays wired until a Run shuts down.      *)
Wired ==
  ~ShutsDown => \A m \in Mods : regPc[m] \in {"hook", "handlers", "registered"} =>
    \A s \in SubsOf(m) : sub[s] # "none" => s \in tracked[m] /\ sub[s] = "open"

Complete ==
  \A m \in Mods : \A s \in SubsOf(m) :
    /\ regPc[m] \in {"new", "claimed"} => sub[s] = "none"
    /\ regPc[m] = "registered" => sub[s] # "none"

SubInv == Tracks /\ Held /\ OneCloser /\ InHands /\ BusDown /\ Wired /\ Complete

(* What a Run's own variables say of how it got there.                       *)
AllReturned(x) == \A d \in Drivers : x.drv[d] = "returned"

RunOK(x) ==
  /\ x.pc \in {"idle", "starting"} =>
       x.fatal = {} /\ x.errCh = "empty" /\ \A d \in Drivers : x.drv[d] = "off"
  /\ x.pc \in {"idle", "starting", "serving"} => x.runErr = "none"
  /\ x.pc = "serving" =>
       /\ x.fatal # {} => x.errCh = "fatal"
       /\ x.errCh = "canceled" => AllReturned(x) /\ x.fatal = {}
  /\ x.pc \in {"winding", "drivers", "modules", "closing", "bus"} => x.runErr # "none"
  /\ x.runErr = "canceled" => ctxDone \/ (AllReturned(x) /\ x.fatal = {})
  /\ x.result # "none" => x.pc = "returned"
  /\ x.result = "nil" => x.runErr = "canceled"
  /\ x.pc = "bus" \/ (x.pc = "returned" /\ \E d \in Drivers : x.drv[d] # "off") => busClosed

OneActive ==
  /\ \A q, r \in Runs : run[q].pc \in Active /\ run[r].pc \in Active => q = r
  /\ running <=> \E r \in Runs : run[r].pc \in Active

RunInv == OneActive /\ \A r \in Runs : RunOK(run[r])

(* Of the modules that were registered before a Run: they go up in order and *)
(* come down in reverse order; while drivers may publish, one that has a     *)
(* subscription which is not closed is up; an event that is queued or        *)
(* handled is of a subscription that is not closed, or its close ended in a  *)
(* timeout, which a Run reports, or a rollback did.                          *)
Served == \E r \in Runs, d \in Drivers : run[r].drv[d] # "off"

ReadyStay == \A m \in ready : regPc[m] = "registered"

UpOK(x) ==
  /\ x.pc = "starting" =>
       /\ x.at >= 1 /\ \A i \in 1..Len(x.plan) : i < x.at => x.plan[i] \in up
       /\ \A m \in ready : \E i \in 1..Len(x.plan) : x.plan[i] = m
  /\ x.pc \in {"modules", "closing"} =>
       x.at <= Len(x.plan) /\ \A m \in up \cap ready : \E i \in 1..x.at : x.plan[i] = m
  /\ x.pc = "closing" =>
       x.at >= 1 /\ (x.plan[x.at] \in ready => tracked[x.plan[x.at]] = {})
  /\ x.pc = "bus" => up \cap ready = {}

UpInOrder == \A r \in Runs : UpOK(run[r])

OpenIsUp ==
  Served => \A s \in Subs : sub[s] \in {"open", "out"} /\ Owner[s] \in ready => Owner[s] \in up

EventsAreDue ==
  \A s \in queued \cup busy : s \in late \/ (Served /\ sub[s] \in {"open", "out"})

Tells(x) == (x.pc \in {"modules", "closing", "bus"} /\ x.shutErr) \/ x.result = "error"

LateIsTold ==
  \A s \in late : \/ regPc[Owner[s]] \in {"rollbackCommands", "rollbackRecord", "undone"}
                  \/ \E r \in Runs : Tells(run[r])

NilLeavesNone ==
  \A r \in Runs : run[r].result = "nil" =>
    up \cap ready = {} \/ \E q \in Runs : run[q].pc \in Active \/ run[q].result = "error"

LifeInv ==
  ReadyStay /\ UpInOrder /\ OpenIsUp /\ EventsAreDue /\ LateIsTold /\ NilLeavesNone

KernelIInv == TypeOK /\ RegInv /\ SubInv /\ RunInv /\ LifeInv
-----------------------------------------------------------------------------
(* The order as the keys of a map.                                           *)
LEMMA OrderIsKeyed ==
  ASSUME TypeOK
  PROVE  /\ Claimed \subseteq Mods
         /\ \A m : m \in Claimed <=> \E i \in 1..Len(order) : order[i] = m
         /\ \A m, n \in Claimed : NameOf[m] = NameOf[n] => m = n
<1>1. /\ Len(order) \in Nat /\ DOMAIN order = 1..Len(order)
      /\ \A i \in 1..Len(order) : order[i] \in Mods
  BY DEF TypeOK
<1>2. \A i, j \in 1..Len(order) : NameOf[order[i]] = NameOf[order[j]] => i = j
  BY DEF TypeOK
<1>3. \A m : m \in Claimed <=> \E i \in 1..Len(order) : order[i] = m
  BY <1>1 DEF Claimed, Range
<1> QED  BY <1>1, <1>2, <1>3

LEMMA OrderGrows ==
  ASSUME TypeOK, NEW m \in Mods, NameFree(m), order' = Append(order, m)
  PROVE  /\ order' \in Seq(Mods) /\ Claimed' = Claimed \cup {m}
         /\ \A i, j \in 1..Len(order') : NameOf[order'[i]] = NameOf[order'[j]] => i = j
<1>1. /\ order' \in Seq(Mods) /\ Len(order') = Len(order) + 1 /\ order'[Len(order')] = m
      /\ \A i \in 1..Len(order) : order'[i] = order[i]
      /\ \A i \in 1..Len(order') : i \in 1..Len(order) \/ i = Len(order')
  BY DEF TypeOK
<1>2. \A i \in 1..Len(order) : NameOf[order[i]] # NameOf[m]
  BY OrderIsKeyed DEF NameFree
<1>3. \A i, j \in 1..Len(order') : NameOf[order'[i]] = NameOf[order'[j]] => i = j
  BY <1>1, <1>2 DEF TypeOK
<1>4. Claimed' = Claimed \cup {m}
  <2>1. \A n : n \in Claimed' <=> \E i \in 1..Len(order') : order'[i] = n
    BY <1>1 DEF Claimed, Range
  <2>2. Len(order') \in 1..Len(order') /\ \A i \in 1..Len(order) : i \in 1..Len(order')
    BY <1>1 DEF TypeOK
  <2> QED  BY <1>1, <2>1, <2>2, OrderIsKeyed
<1> QED  BY <1>1, <1>3, <1>4

LEMMA OrderShrinks ==
  ASSUME TypeOK, NEW m \in Claimed, NEW i \in 1..Len(order),
         NameOf[order[i]] = NameOf[m], order' = RemoveAt(order, i)
  PROVE  /\ order' \in Seq(Mods) /\ Claimed' = Claimed \ {m}
         /\ \A j, k \in 1..Len(order') : NameOf[order'[j]] = NameOf[order'[k]] => j = k
<1> DEFINE n == Len(order)
<1>1. order[i] = m
  BY OrderIsKeyed
<1>2. /\ order' \in Seq(Mods) /\ Len(order') = n - 1
      /\ \A j \in 1..(n - 1) : order'[j] = IF j < i THEN order[j] ELSE order[j + 1]
  <2> DEFINE front == SubSeq(order, 1, i - 1)
             back  == SubSeq(order, i + 1, n)
  <2>1. /\ front \in Seq(Mods) /\ Len(front) = i - 1
        /\ \A j \in 1..(i - 1) : front[j] = order[j]
    BY DEF TypeOK
  <2>2. /\ back \in Seq(Mods) /\ Len(back) = n - i
        /\ \A j \in 1..(n - i) : back[j] = order[i + j]
    BY DEF TypeOK
  <2>3. order' = front \o back
    BY DEF RemoveAt
  <2> HIDE DEF front, back
  <2>4. /\ front \o back \in Seq(Mods) /\ Len(front \o back) = Len(front) + Len(back)
        /\ \A j \in 1..(Len(front) + Len(back)) :
             (front \o back)[j] = IF j <= Len(front) THEN front[j] ELSE back[j - Len(front)]
    BY <2>1, <2>2, ConcatProperties, Zenon
  <2> DEFINE both == front \o back
  <2> HIDE DEF both
  <2>5. both \in Seq(Mods) /\ Len(both) = n - 1 /\ order' = both
    BY <2>1, <2>2, <2>3, <2>4 DEF both, TypeOK
  <2>6. ASSUME NEW j \in 1..(n - 1)
        PROVE  both[j] = IF j < i THEN order[j] ELSE order[j + 1]
    <3>1. n \in Nat /\ j \in 1..(Len(front) + Len(back))
      BY <2>1, <2>2 DEF TypeOK
    <3>2. both[j] = IF j <= i - 1 THEN front[j] ELSE back[j - (i - 1)]
      BY <2>1, <2>4, <3>1 DEF both
    <3>3. CASE j < i
      BY <2>1, <3>2, <3>3
    <3>4. CASE ~(j < i)
      <4>1. j - (i - 1) \in 1..(n - i) /\ i + (j - (i - 1)) = j + 1
        BY <3>1, <3>4
      <4> QED  BY <2>2, <3>2, <3>4, <4>1
    <3> QED  BY <3>3, <3>4
  <2> QED  BY <2>5, <2>6
<1>3. \A j, k \in 1..Len(order') : NameOf[order'[j]] = NameOf[order'[k]] => j = k
  <2>1. \A j, k \in 1..n : NameOf[order[j]] = NameOf[order[k]] => j = k
    BY DEF TypeOK
  <2> DEFINE at(j) == IF j < i THEN j ELSE j + 1
  <2>2. \A j \in 1..(n - 1) : at(j) \in 1..n /\ order'[j] = order[at(j)]
    BY <1>2 DEF TypeOK
  <2>3. \A j, k \in 1..(n - 1) : at(j) = at(k) => j = k
    OBVIOUS
  <2> HIDE DEF at
  <2>4. ASSUME NEW j \in 1..(n - 1), NEW k \in 1..(n - 1), NameOf[order'[j]] = NameOf[order'[k]]
        PROVE  j = k
    <3>1. NameOf[order[at(j)]] = NameOf[order[at(k)]]
      BY <2>2, <2>4
    <3>2. at(j) = at(k)
      BY <2>1, <2>2, <3>1
    <3> QED  BY <2>3, <3>2
  <2>5. Len(order') = n - 1
    BY <1>2
  <2> QED  BY <2>4, <2>5
<1>4. Claimed' = Claimed \ {m}
  <2>1. \A x : x \in Claimed' <=> \E j \in 1..Len(order') : order'[j] = x
    BY <1>2 DEF Claimed, Range
  <2>2. ASSUME NEW x \in Claimed' PROVE x \in Claimed \ {m}
    <3>1. PICK j \in 1..(n - 1) : order'[j] = x
      BY <1>2, <2>1, <2>2
    <3>2. PICK k \in 1..n : order[k] = x /\ k # i
      BY <1>2, <3>1 DEF TypeOK
    <3> QED  BY <1>1, <3>2, OrderIsKeyed DEF TypeOK
  <2>4. 1..Len(order') = 1..(n - 1)
    BY <1>2
  <2>3. ASSUME NEW x \in Claimed, x # m PROVE x \in Claimed'
    <3>1. PICK k \in 1..n : order[k] = x
      BY OrderIsKeyed
    <3>2. k # i
      BY <1>1, <2>3, <3>1
    <3>3. CASE k < i
      <4>1. k \in 1..(n - 1) /\ order'[k] = x
        BY <1>2, <3>1, <3>3 DEF TypeOK
      <4> QED  BY <2>1, <2>4, <4>1
    <3>4. CASE k > i
      <4>1. k - 1 \in 1..(n - 1) /\ order'[k - 1] = x
        BY <1>2, <3>1, <3>4 DEF TypeOK
      <4> QED  BY <2>1, <2>4, <4>1
    <3> QED  BY <3>1, <3>2, <3>3, <3>4
  <2> QED  BY <2>2, <2>3
<1> QED  BY <1>2, <1>3, <1>4

-----------------------------------------------------------------------------
(* Registration.  The steps that only move it on touch no subscription and   *)
(* no Run.                                                                  *)
Apart ==
  UNCHANGED <<closing, queued, busy, late, busClosed, ctxDone, running, up, ready, run>>

MovesOn(m, to) ==
  \/ regPc[m] = "new" /\ to \in {"claimed", "refused"}
  \/ regPc[m] = "claimed" /\ to \in {"hook", "rollback"}
  \/ regPc[m] \in {"hook", "handlers"} /\ to \in {"hook", "handlers", "rollback"}
  \/ regPc[m] = "handlers" /\ to = "registered" /\ \A s \in SubsOf(m) : sub[s] # "none"
  \/ regPc[m] = "rollbackCommands" /\ to = "rollbackRecord" /\ AllClosed(m)
  \/ regPc[m] = "rollbackRecord" /\ to = "undone"

LEMMA MoveOnKeeps ==
  ASSUME KernelIInv, NEW m \in Mods, NEW to, MovesOn(m, to),
         regPc' = [regPc EXCEPT ![m] = to], Apart, UNCHANGED <<tracked, left, sub>>,
         TypeOK', RegInv'
  PROVE  KernelIInv'
<1> USE DEF KernelIInv, Apart
<1>1. regPc'[m] = to /\ \A n \in Mods : n # m => regPc'[n] = regPc[n]
  BY DEF TypeOK
<1>2. Tracks'
  BY <1>1 DEF SubInv, Tracks, MovesOn
<1>3. InHands'
  BY <1>1, KernelAssumption DEF SubInv, InHands, InHand, MovesOn, AllClosed
<1>4. Wired'
  BY <1>1 DEF SubInv, Wired, Complete, ShutsDown, MovesOn, SubsOf
<1>5. Complete'
  BY <1>1 DEF SubInv, Complete, MovesOn, SubsOf
<1>6. Held' /\ OneCloser' /\ BusDown'
  BY DEF SubInv, Held, OneCloser, BusDown, Closes, AtBus
<1>7. RunInv'
  BY DEF RunInv, OneActive, RunOK, AllReturned
<1>8. ReadyStay'
  BY <1>1 DEF LifeInv, ReadyStay, TypeOK, MovesOn
<1>9. LateIsTold'
  <2> SUFFICES ASSUME NEW s \in late, ~\E r \in Runs : Tells(run[r])
               PROVE  regPc'[Owner[s]] \in {"rollbackCommands", "rollbackRecord", "undone"}
    BY DEF LateIsTold, Tells
  <2>1. /\ Owner[s] \in Mods
        /\ regPc[Owner[s]] \in {"rollbackCommands", "rollbackRecord", "undone"}
    BY KernelAssumption DEF LifeInv, LateIsTold, TypeOK
  <2> QED  BY <1>1, <2>1 DEF MovesOn
<1>10. UpInOrder' /\ OpenIsUp' /\ EventsAreDue' /\ NilLeavesNone'
  BY DEF LifeInv, UpInOrder, UpOK, OpenIsUp, EventsAreDue, NilLeavesNone, Served
<1> QED  BY <1>2, <1>3, <1>4, <1>5, <1>6, <1>7, <1>8, <1>9, <1>10 DEF SubInv, LifeInv

(* Most of them change neither the order nor a command.                      *)
LEMMA PlainMoveKeeps ==
  ASSUME KernelIInv, NEW m \in Mods,
         NEW to \in {"refused", "hook", "handlers", "registered", "rollback"}, MovesOn(m, to),
         regPc' = [regPc EXCEPT ![m] = to], Apart,
         UNCHANGED <<order, commands, tracked, left, sub>>,
         services' \in [Services -> Mods \union {None}],
         regPc[m] = "claimed" => to = "rollback"
  PROVE  KernelIInv'
<1> USE DEF KernelIInv, Apart
<1>1. Claimed' = Claimed
  BY DEF Claimed
<1>2. TypeOK'
  BY DEF TypeOK
<1>3. Membership'
  BY <1>1 DEF RegInv, Membership, Staged, TypeOK, MovesOn
<1>4. CommandsOwned'
  BY DEF RegInv, CommandsOwned, TypeOK, MovesOn
<1>5. CommandsBacked'
  BY <1>1, OrderIsKeyed DEF RegInv, CommandsBacked, TypeOK
<1> QED  BY <1>2, <1>3, <1>4, <1>5, MoveOnKeeps DEF RegInv

LEMMA ClaimStep ==
  ASSUME KernelIInv, NEW m \in Mods, Claim(m)
  PROVE  KernelIInv'
<1> USE DEF KernelIInv
<1>1. /\ order' \in Seq(Mods) /\ Claimed' = Claimed \cup {m}
      /\ \A i, j \in 1..Len(order') : NameOf[order'[i]] = NameOf[order'[j]] => i = j
  BY OrderGrows DEF Claim
<1>2. /\ regPc' = [regPc EXCEPT ![m] = "claimed"] /\ regPc[m] = "new" /\ Apart
      /\ UNCHANGED <<commands, services, tracked, left, sub>>
  BY DEF Claim, RegStep, Apart
<1>3. TypeOK'
  BY <1>1, <1>2 DEF TypeOK, Apart
<1>4. Membership'
  BY <1>1, <1>2 DEF RegInv, Membership, Staged, TypeOK
<1>5. CommandsOwned'
  BY <1>2 DEF RegInv, CommandsOwned, TypeOK
<1>6. CommandsBacked'
  BY <1>1, <1>2, OrderIsKeyed DEF RegInv, CommandsBacked, TypeOK
<1>7. MovesOn(m, "claimed")
  BY <1>2 DEF MovesOn
<1> QED  BY <1>2, <1>3, <1>4, <1>5, <1>6, <1>7, MoveOnKeeps DEF RegInv

(* The steps that give and take.  Commands go by the module's name, which no *)
(* other module in the order has.                                            *)
LEMMA RegisterCommandsStep ==
  ASSUME KernelIInv, NEW m \in Mods, RegisterCommands(m)
  PROVE  KernelIInv'
<1> USE DEF KernelIInv
<1>1. /\ regPc' = [regPc EXCEPT ![m] = "hook"] /\ regPc[m] = "claimed" /\ Apart
      /\ CommandsFree(m)
      /\ commands' = [c \in Commands |-> IF c \in CommandsOf[m] THEN NameOf[m] ELSE commands[c]]
      /\ UNCHANGED <<order, services, tracked, left, sub>>
  BY DEF RegisterCommands, RegStep, Apart
<1>2. Claimed' = Claimed /\ m \in Claimed /\ NameOf[m] \in Names /\ NameOf[m] # None
  BY <1>1, KernelAssumption DEF Claimed, RegInv, Membership, Staged, Names
<1>3. TypeOK'
  BY <1>1, <1>2 DEF TypeOK, Apart
<1>4. Membership'
  BY <1>1, <1>2 DEF RegInv, Membership, Staged, TypeOK
<1>5. CommandsOwned'
  <2> SUFFICES ASSUME NEW n \in Mods, regPc'[n] \in {"hook", "handlers", "registered"},
                      NEW c \in CommandsOf[n]
               PROVE  commands'[c] = NameOf[n]
    BY DEF CommandsOwned
  <2>1. c \in Commands
    BY KernelAssumption DEF Commands
  <2>2. CASE n = m
    BY <1>1, <2>1, <2>2
  <2>3. CASE n # m
    <3>1. commands[c] = NameOf[n] /\ NameOf[n] # None
      BY <1>1, <2>3, KernelAssumption DEF TypeOK, RegInv, CommandsOwned, Names
    <3> QED  BY <1>1, <2>1, <3>1 DEF CommandsFree
  <2> QED  BY <2>2, <2>3
<1>6. CommandsBacked'
  <2> SUFFICES ASSUME NEW c \in Commands, commands'[c] # None
               PROVE  \E n \in Claimed' : /\ NameOf[n] = commands'[c] /\ c \in CommandsOf[n]
                                          /\ regPc'[n] # "rollbackRecord"
    BY DEF CommandsBacked
  <2>1. regPc'[m] = "hook" /\ \A n \in Mods : n # m => regPc'[n] = regPc[n]
    BY <1>1 DEF TypeOK
  <2>2. CASE c \in CommandsOf[m]
    <3>1. commands'[c] = NameOf[m]
      BY <1>1, <2>2
    <3> QED  BY <1>2, <2>1, <2>2, <3>1
  <2>3. CASE c \notin CommandsOf[m]
    <3>1. commands'[c] = commands[c]
      BY <1>1, <2>3
    <3>2. PICK n \in Claimed : /\ NameOf[n] = commands[c] /\ c \in CommandsOf[n]
                               /\ regPc[n] # "rollbackRecord"
      BY <3>1 DEF RegInv, CommandsBacked
    <3>3. n \in Mods /\ n # m
      BY <2>3, <3>2, OrderIsKeyed
    <3> QED  BY <1>2, <2>1, <3>1, <3>2, <3>3
  <2> QED  BY <2>2, <2>3
<1>7. MovesOn(m, "hook")
  BY <1>1 DEF MovesOn
<1> QED  BY <1>1, <1>3, <1>4, <1>5, <1>6, <1>7, MoveOnKeeps DEF RegInv

LEMMA RollbackCommandsStep ==
  ASSUME KernelIInv, NEW m \in Mods, RollbackCommands(m)
  PROVE  KernelIInv'
<1> USE DEF KernelIInv
<1>1. /\ regPc' = [regPc EXCEPT ![m] = "rollbackRecord"] /\ regPc[m] = "rollbackCommands"
      /\ AllClosed(m) /\ Apart
      /\ commands' = [c \in Commands |-> IF commands[c] = NameOf[m] THEN None ELSE commands[c]]
      /\ UNCHANGED <<order, services, tracked, left, sub>>
  BY DEF RollbackCommands, UnregisterCommands, RegStep, Apart
<1>2. Claimed' = Claimed /\ m \in Claimed
  BY <1>1 DEF Claimed, RegInv, Membership, Staged
<1>3. TypeOK'
  BY <1>1 DEF TypeOK, Apart
<1>4. Membership'
  BY <1>1, <1>2 DEF RegInv, Membership, Staged, TypeOK
<1>5. CommandsOwned'
  <2> SUFFICES ASSUME NEW n \in Mods, regPc'[n] \in {"hook", "handlers", "registered"},
                      NEW c \in CommandsOf[n]
               PROVE  commands'[c] = NameOf[n]
    BY DEF CommandsOwned
  <2>1. c \in Commands
    BY KernelAssumption DEF Commands
  <2>2. n # m /\ n \in Claimed /\ commands[c] = NameOf[n]
    BY <1>1 DEF TypeOK, RegInv, CommandsOwned, Membership, Staged
  <2>3. NameOf[n] # NameOf[m]
    BY <1>2, <2>2, OrderIsKeyed
  <2> QED  BY <1>1, <2>1, <2>2, <2>3
<1>6. CommandsBacked'
  BY <1>1, <1>2, OrderIsKeyed DEF RegInv, CommandsBacked, TypeOK
<1>7. MovesOn(m, "rollbackRecord")
  BY <1>1 DEF MovesOn
<1> QED  BY <1>1, <1>3, <1>4, <1>5, <1>6, <1>7, MoveOnKeeps DEF RegInv

LEMMA RollbackRecordStep ==
  ASSUME KernelIInv, NEW m \in Mods, RollbackRecord(m)
  PROVE  KernelIInv'
<1> USE DEF KernelIInv
<1>1. /\ regPc' = [regPc EXCEPT ![m] = "undone"] /\ regPc[m] = "rollbackRecord" /\ Apart
      /\ UNCHANGED <<commands, services, tracked, left, sub>>
  BY DEF RollbackRecord, RegStep, Apart
<1>2. m \in Claimed
  BY <1>1 DEF RegInv, Membership, Staged
<1>3. /\ order' \in Seq(Mods) /\ Claimed' = Claimed \ {m}
      /\ \A i, j \in 1..Len(order') : NameOf[order'[i]] = NameOf[order'[j]] => i = j
  BY <1>2, OrderShrinks DEF RollbackRecord
<1>4. TypeOK'
  BY <1>1, <1>3 DEF TypeOK, Apart
<1>5. Membership'
  BY <1>1, <1>3 DEF RegInv, Membership, Staged, TypeOK
<1>6. CommandsOwned'
  BY <1>1 DEF RegInv, CommandsOwned, TypeOK
<1>7. CommandsBacked'
  BY <1>1, <1>3, OrderIsKeyed DEF RegInv, CommandsBacked, TypeOK
<1>8. MovesOn(m, "undone")
  BY <1>1 DEF MovesOn
<1> QED  BY <1>1, <1>4, <1>5, <1>6, <1>7, <1>8, MoveOnKeeps DEF RegInv

(* A subscription is made by a module that is not registered yet.            *)
LEMMA SubscribeStep ==
  ASSUME KernelIInv, NEW m \in Mods, NEW s \in Subs, Subscribe(m, s)
  PROVE  KernelIInv'
<1> USE DEF KernelIInv
<1>1. /\ regPc[m] \in {"hook", "handlers"} /\ regPc' = regPc /\ ~busClosed
      /\ Owner[s] = m /\ sub[s] = "none"
      /\ sub' = [sub EXCEPT ![s] = "open"]
      /\ tracked' = [tracked EXCEPT ![m] = @ \union {s}]
      /\ Apart /\ UNCHANGED <<order, commands, services, left>>
  BY DEF Subscribe, RegStep, SubsOf, TypeOK, Stage, Apart
<1>2. /\ sub'[s] = "open" /\ \A u \in Subs : u # s => sub'[u] = sub[u]
      /\ tracked'[m] = tracked[m] \cup {s} /\ \A n \in Mods : n # m => tracked'[n] = tracked[n]
  BY <1>1 DEF TypeOK
<1>3. TypeOK'
  BY <1>1 DEF TypeOK, Apart
<1>4. RegInv'
  BY <1>1 DEF RegInv, Membership, Staged, Claimed, CommandsOwned, CommandsBacked
<1>5. Tracks'
  BY <1>1, <1>2 DEF SubInv, Tracks, TypeOK
<1>6. Held'
  BY <1>1, <1>2, KernelAssumption DEF SubInv, Held, Closes, AtBus, Apart
<1>7. OneCloser'
  BY <1>1, <1>2 DEF SubInv, OneCloser, Closes, AtBus, Apart
<1>8. InHands' /\ BusDown'
  BY <1>1 DEF SubInv, InHands, InHand, BusDown, Apart
<1>9. Wired' /\ Complete'
  BY <1>1, <1>2 DEF SubInv, Wired, Complete, ShutsDown, SubsOf, Apart
<1>10. RunInv'
  BY <1>1 DEF RunInv, OneActive, RunOK, AllReturned, Apart
<1>11. m \notin ready
  BY <1>1 DEF LifeInv, ReadyStay
<1>12. ReadyStay' /\ LateIsTold' /\ NilLeavesNone'
  BY <1>1 DEF LifeInv, ReadyStay, LateIsTold, NilLeavesNone, Tells, Apart
<1>13. UpInOrder'
  <2> SUFFICES ASSUME NEW r \in Runs PROVE UpOK(run[r])'
    BY <1>1 DEF UpInOrder, Apart
  <2>1. UpOK(run[r]) /\ run'[r] = run[r] /\ up' = up /\ ready' = ready /\ ready \subseteq Mods
    BY <1>1 DEF LifeInv, UpInOrder, Apart, TypeOK
  <2>2. \A n \in ready : tracked'[n] = tracked[n]
    BY <1>2, <1>11, <2>1
  <2> QED  BY <2>1, <2>2 DEF UpOK
<1>14. OpenIsUp'
  BY <1>1, <1>2, <1>11 DEF LifeInv, OpenIsUp, Served, Apart
<1>15. EventsAreDue'
  BY <1>1, <1>2 DEF LifeInv, EventsAreDue, Served, Apart, TypeOK
<1> QED  BY <1>3, <1>4, <1>5, <1>6, <1>7, <1>8, <1>9, <1>10, <1>12, <1>13, <1>14, <1>15
         DEF SubInv, LifeInv

(* A rollback takes its module's subscriptions; it has nothing in hand yet.  *)
LEMMA RollbackSubscriptionsStep ==
  ASSUME KernelIInv, NEW m \in Mods, RollbackSubscriptions(m)
  PROVE  KernelIInv'
<1> USE DEF KernelIInv
<1>1. /\ regPc' = [regPc EXCEPT ![m] = "rollbackCommands"] /\ regPc[m] = "rollback"
      /\ left' = [left EXCEPT ![m] = tracked[m]] /\ tracked' = [tracked EXCEPT ![m] = {}]
      /\ Apart /\ UNCHANGED <<order, commands, services, sub>>
  BY DEF RollbackSubscriptions, Take, RegStep, Apart
<1>2. /\ m \in Closers /\ m \notin Runs /\ left'[m] = tracked[m] /\ tracked'[m] = {}
      /\ regPc'[m] = "rollbackCommands"
      /\ \A x \in Closers : x # m => left'[x] = left[x]
      /\ \A n \in Mods : n # m => tracked'[n] = tracked[n] /\ regPc'[n] = regPc[n]
      /\ \A r \in Runs : r \in Closers
  BY <1>1, KernelAssumption DEF TypeOK, Closers
<1>3. \A s \in Subs : ~InHand(m, s)
  BY <1>1 DEF SubInv, InHands
<1>4. TypeOK'
  <2>1. tracked[m] \in SUBSET Subs
    BY DEF TypeOK
  <2> QED  BY <1>1, <2>1 DEF TypeOK, Apart
<1>5. RegInv'
  BY <1>1, OrderIsKeyed DEF RegInv, Membership, Staged, Claimed, CommandsOwned, CommandsBacked, TypeOK
<1>6. Tracks' /\ Complete' /\ BusDown'
  BY <1>1, <1>2 DEF SubInv, Tracks, Complete, BusDown, SubsOf, Apart
<1>7. \A x \in Closers, s \in Subs : Closes(x, s)' <=> Closes(x, s)
  BY <1>1, <1>2 DEF Closes, AtBus, Apart
<1>8. Held'
  <2> SUFFICES ASSUME NEW s \in Subs
               PROVE  /\ sub[s] = "open" => s \in tracked'[Owner[s]] \/ \E x \in Closers : s \in left'[x]
                      /\ sub[s] = "out" => \E x \in Closers : Closes(x, s)
    BY <1>1, <1>7 DEF Held
  <2>1. /\ sub[s] = "open" => s \in tracked[Owner[s]] \/ \E x \in Closers : s \in left[x]
        /\ sub[s] = "out" => \E x \in Closers : Closes(x, s)
    BY DEF SubInv, Held
  <2>2. Owner[s] \in Mods /\ s \notin left[m]
    BY <1>3, KernelAssumption DEF InHand
  <2> QED  BY <1>2, <2>1, <2>2
<1>9. OneCloser'
  <2>1. \A x \in Closers, s \in Subs : closing[x] = s => s \notin left'[x]
    BY <1>2, <1>3 DEF SubInv, OneCloser, InHand
  <2> QED  BY <1>1, <1>7, <2>1 DEF SubInv, OneCloser, Apart
<1>10. InHands'
  <2>1. \A s \in tracked[m] : Owner[s] = m
    BY DEF SubInv, Tracks
  <2>2. \A x \in Closers, s \in Subs : x # m => (InHand(x, s)' <=> InHand(x, s))
    BY <1>1, <1>2 DEF InHand, Apart
  <2>3. \A s \in Subs : InHand(m, s)' => s \in tracked[m]
    BY <1>1, <1>2, <1>3 DEF InHand, Apart
  <2>4. \A n \in Mods : n \in Closers
    BY DEF Closers
  <2> QED  BY <1>1, <1>2, <2>1, <2>2, <2>3, <2>4 DEF SubInv, InHands, Apart
<1>11. Wired'
  BY <1>1, <1>2 DEF SubInv, Wired, ShutsDown, SubsOf, Apart
<1>12. RunInv'
  BY <1>1 DEF RunInv, OneActive, RunOK, AllReturned, Apart
<1>13. ReadyStay' /\ LateIsTold'
  BY <1>1, <1>2, KernelAssumption DEF LifeInv, ReadyStay, LateIsTold, Tells, Apart, TypeOK
<1>14. UpInOrder'
  <2> SUFFICES ASSUME NEW r \in Runs PROVE UpOK(run[r])'
    BY <1>1 DEF UpInOrder, Apart
  <2>1. UpOK(run[r]) /\ run'[r] = run[r] /\ up' = up /\ ready' = ready /\ ready \subseteq Mods
    BY <1>1 DEF LifeInv, UpInOrder, Apart, TypeOK
  <2>2. \A n \in ready : tracked'[n] \subseteq tracked[n]
    BY <1>2, <2>1
  <2> QED  BY <2>1, <2>2 DEF UpOK
<1>15. OpenIsUp' /\ EventsAreDue' /\ NilLeavesNone'
  BY <1>1 DEF LifeInv, OpenIsUp, EventsAreDue, NilLeavesNone, Served, Apart
<1> QED  BY <1>4, <1>5, <1>6, <1>8, <1>9, <1>10, <1>11, <1>12, <1>13, <1>14, <1>15
         DEF SubInv, LifeInv

LEMMA RegistrationStep ==
  ASSUME KernelIInv, NEW m \in Mods, Register(m)
  PROVE  KernelIInv' \/ CloserStep(m)
<1> USE DEF RegStep, Apart, MovesOn
<1>1. services \in [Services -> Mods \union {None}]
  BY DEF KernelIInv, TypeOK
<1>2. CASE Refuse(m)
  <2>1. regPc[m] = "new" /\ regPc' = [regPc EXCEPT ![m] = "refused"]
    BY <1>2 DEF Refuse, AfterRefusal
  <2> QED  BY <1>1, <1>2, <2>1, PlainMoveKeeps DEF Refuse
<1>3. CASE CommandTaken(m)
  BY <1>1, <1>3, PlainMoveKeeps DEF CommandTaken
<1>4. ASSUME NEW v \in Services, HookProvides(m, v) PROVE KernelIInv'
  <2>1. services' \in [Services -> Mods \union {None}]
    BY <1>1, <1>4 DEF HookProvides
  <2> QED  BY <1>4, <2>1, PlainMoveKeeps DEF HookProvides
<1>5. CASE HookReturns(m)
  BY <1>1, <1>5, PlainMoveKeeps DEF HookReturns
<1>6. CASE RegistrationFails(m)
  <2>1. regPc[m] \in {"hook", "handlers"} /\ regPc' = [regPc EXCEPT ![m] = "rollback"]
    BY <1>6 DEF RegistrationFails
  <2> QED  BY <1>1, <1>6, <2>1, PlainMoveKeeps DEF RegistrationFails
<1>7. CASE RegistrationDone(m)
  BY <1>1, <1>7, PlainMoveKeeps DEF RegistrationDone
<1> QED
  BY <1>2, <1>3, <1>4, <1>5, <1>6, <1>7, ClaimStep, RegisterCommandsStep, SubscribeStep,
     RollbackSubscriptionsStep, RollbackCommandsStep, RollbackRecordStep DEF Register

-----------------------------------------------------------------------------
(* Closing.  A closer changes the subscriptions it has in hand and, if it is *)
(* a Run, notes an error.                                                    *)
RunRec ==
  [pc : Active \union {"idle", "returned"}, plan : Seq(Mods), at : Nat,
   errCh : {"empty", "fatal", "canceled"}, runErr : {"none", "fatal", "canceled"},
   shutErr : BOOLEAN, result : {"none", "busy", "error", "nil"},
   drv : [Drivers -> {"off", "running", "returned"}], fatal : SUBSET Drivers]

RunsGoOn ==
  /\ run' \in [Runs -> RunRec]
  /\ \A r \in Runs :
       /\ run'[r].pc = run[r].pc /\ run'[r].plan = run[r].plan /\ run'[r].at = run[r].at
       /\ run'[r].errCh = run[r].errCh /\ run'[r].runErr = run[r].runErr
       /\ run'[r].result = run[r].result /\ run'[r].drv = run[r].drv
       /\ run'[r].fatal = run[r].fatal
       /\ run[r].shutErr => run'[r].shutErr

LEMMA RunsStay ==
  ASSUME TypeOK, run' = run
  PROVE  RunsGoOn
  BY DEF TypeOK, RunsGoOn, RunRec

LEMMA ErrorIsJoined ==
  ASSUME KernelIInv, NEW r \in Runs, JoinError(r)
  PROVE  RunsGoOn /\ run'[r].shutErr
<1>1. run \in [Runs -> RunRec]
  BY DEF KernelIInv, TypeOK, RunRec
<1> DEFINE x == [run[r] EXCEPT !.shutErr = TRUE]
<1>2. run' = [run EXCEPT ![r] = x]
  BY DEF JoinError
<1>3. /\ x \in RunRec /\ x.pc = run[r].pc /\ x.plan = run[r].plan /\ x.at = run[r].at
      /\ x.errCh = run[r].errCh /\ x.runErr = run[r].runErr /\ x.result = run[r].result
      /\ x.drv = run[r].drv /\ x.fatal = run[r].fatal /\ x.shutErr
  BY <1>1 DEF RunRec
<1> HIDE DEF x
<1>4. run'[r] = x /\ \A q \in Runs : q # r => run'[q] = run[q]
  BY <1>1, <1>2
<1>5. run' \in [Runs -> RunRec]
  BY <1>1, <1>2, <1>3
<1> QED  BY <1>3, <1>4, <1>5 DEF RunsGoOn

(* Whoever has a subscription in hand is its module's rollback or a Run that *)
(* shuts down.                                                               *)
LEMMA HandsAreClosers ==
  ASSUME KernelIInv, NEW x \in Closers, NEW s \in Subs, InHand(x, s)
  PROVE  \/ x \in Mods /\ Owner[s] = x /\ regPc[x] = "rollbackCommands"
         \/ x \in Runs /\ run[x].pc \in {"closing", "bus"} /\ ShutsDown
  BY DEF KernelIInv, SubInv, InHands, Closers, RunInv, RunOK, ShutsDown

LEMMA CloserKeeps ==
  ASSUME KernelIInv, RunsGoOn,
         UNCHANGED <<regVars, tracked, queued, busy, busClosed, ctxDone, running, up, ready>>,
         left' \in [Closers -> SUBSET Subs], closing' \in [Closers -> Subs \union {None}],
         sub' \in [Subs -> {"none", "open", "out", "closed"}], late' \subseteq Subs,
         late \subseteq late',
         \A s \in Subs : \/ sub'[s] = sub[s]
                         \/ /\ sub[s] \in {"open", "out"} /\ sub'[s] \in {"out", "closed"}
                            /\ \E x \in Closers : InHand(x, s),
         \A s \in Subs : sub'[s] = "closed" => sub[s] = "closed" \/ Quiet(s) \/ s \in late',
         \A x \in Closers, s \in Subs : InHand(x, s)' => InHand(x, s),
         Held', OneCloser', LateIsTold'
  PROVE  KernelIInv'
<1> USE DEF KernelIInv
<1>1. TypeOK'
  BY DEF TypeOK, RunsGoOn, RunRec, regVars
<1>2. RegInv'
  BY DEF RegInv, Membership, Staged, Claimed, CommandsOwned, CommandsBacked, regVars
<1>3. Tracks' /\ BusDown' /\ Complete'
  <2>1. \A s \in Subs : (sub'[s] = "none" <=> sub[s] = "none") /\ (sub'[s] = "open" => sub[s] = "open")
    OBVIOUS
  <2>2. \A m \in Mods : tracked[m] \subseteq Subs
    BY DEF TypeOK
  <2> QED  BY <2>1, <2>2 DEF SubInv, Tracks, BusDown, Complete, SubsOf, regVars
<1>4. InHands'
  <2>1. \A m \in Mods : m \in Closers
    BY DEF Closers
  <2>2. \A r \in Runs : r \in Closers
    BY DEF Closers
  <2> QED  BY <2>1, <2>2 DEF SubInv, InHands, RunsGoOn, regVars
<1>5. Wired'
  <2> SUFFICES ASSUME ~ShutsDown', NEW m \in Mods, regPc[m] \in {"hook", "handlers", "registered"},
                      NEW s \in SubsOf(m), sub'[s] # "none"
               PROVE  s \in tracked[m] /\ sub'[s] = "open"
    BY DEF Wired, regVars, SubsOf
  <2>1. ~ShutsDown /\ s \in Subs /\ Owner[s] = m
    BY DEF ShutsDown, RunsGoOn, SubsOf
  <2>2. sub'[s] = sub[s]
    BY <2>1, HandsAreClosers
  <2> QED  BY <2>1, <2>2 DEF SubInv, Wired
<1>6. RunInv'
  <2>1. OneActive'
    BY DEF RunInv, OneActive, RunsGoOn
  <2>2. \A r \in Runs : RunOK(run'[r])
    BY DEF RunInv, RunOK, AllReturned, RunsGoOn
  <2>3. \A r \in Runs : RunOK(run[r])' <=> RunOK(run'[r])
    BY DEF RunOK, AllReturned
  <2> QED  BY <2>1, <2>2, <2>3 DEF RunInv
<1>7. ReadyStay' /\ NilLeavesNone'
  BY DEF LifeInv, ReadyStay, NilLeavesNone, RunsGoOn, regVars
<1>8. UpInOrder'
  BY DEF LifeInv, UpInOrder, UpOK, RunsGoOn
<1>9. Served' <=> Served
  BY DEF Served, RunsGoOn
<1>10. OpenIsUp'
  BY <1>9 DEF LifeInv, OpenIsUp
<1>11. EventsAreDue'
  BY <1>9 DEF LifeInv, EventsAreDue, Quiet, TypeOK
<1> QED  BY <1>1, <1>2, <1>3, <1>4, <1>5, <1>6, <1>7, <1>8, <1>10, <1>11 DEF SubInv, LifeInv

LEMMA CloseNextStep ==
  ASSUME KernelIInv, NEW x \in Closers, NEW s \in Subs, CloseNext(x, s)
  PROVE  KernelIInv'
<1> USE DEF KernelIInv
<1>1. /\ closing[x] = None /\ s \in left[x] /\ (sub[s] = "open" \/ AtBus(x))
      /\ left' = [left EXCEPT ![x] = @ \ {s}] /\ closing' = [closing EXCEPT ![x] = s]
      /\ sub' = [sub EXCEPT ![s] = "out"]
      /\ UNCHANGED <<regVars, tracked, queued, busy, late, busClosed, ctxDone, running, up, ready, run>>
  BY DEF CloseNext
<1>2. /\ sub'[s] = "out" /\ \A u \in Subs : u # s => sub'[u] = sub[u]
      /\ left'[x] = left[x] \ {s} /\ closing'[x] = s /\ s # None
      /\ \A y \in Closers : y # x => left'[y] = left[y] /\ closing'[y] = closing[y]
      /\ \A y \in Closers : left'[y] \subseteq left[y]
  BY <1>1, KernelAssumption DEF TypeOK
<1>3. sub[s] \in {"open", "out"} /\ \A y \in Closers : Closes(y, s) => y = x
  BY <1>1 DEF SubInv, OneCloser, Closes
<1>4. \A y \in Closers, u \in Subs : u # s => (Closes(y, u)' <=> Closes(y, u))
  BY <1>1, <1>2, KernelAssumption DEF Closes, AtBus
<1>5. \A y \in Closers : Closes(y, s)' <=> y = x
  BY <1>1, <1>2, <1>3 DEF Closes, AtBus
<1>6. Held'
  <2> SUFFICES ASSUME NEW u \in Subs
               PROVE  /\ sub'[u] = "open" => u \in tracked[Owner[u]] \/ \E y \in Closers : u \in left'[y]
                      /\ sub'[u] = "out" => \E y \in Closers : Closes(y, u)'
    BY <1>1 DEF Held
  <2>1. CASE u = s
    BY <1>2, <1>5, <2>1
  <2>2. CASE u # s
    BY <1>2, <1>4, <2>2 DEF SubInv, Held
  <2> QED  BY <2>1, <2>2
<1>7. OneCloser'
  <2>1. \A y \in Closers, u \in Subs : Closes(y, u)' => sub'[u] = "out"
    BY <1>2, <1>4 DEF SubInv, OneCloser
  <2>2. \A y, z \in Closers, u \in Subs : Closes(y, u)' /\ Closes(z, u)' => y = z
    BY <1>4, <1>5 DEF SubInv, OneCloser
  <2>3. \A y \in Closers, u \in Subs : closing'[y] = u => u \notin left'[y]
    BY <1>2 DEF SubInv, OneCloser
  <2> QED  BY <2>1, <2>2, <2>3 DEF OneCloser
<1>8. \A y \in Closers, u \in Subs : InHand(y, u)' => InHand(y, u)
  BY <1>1, <1>2 DEF InHand
<1>9. InHand(x, s)
  BY <1>1 DEF InHand
<1>10. LateIsTold' /\ RunsGoOn
  BY <1>1, RunsStay DEF LifeInv, LateIsTold, Tells, regVars
<1>11. /\ left' \in [Closers -> SUBSET Subs] /\ closing' \in [Closers -> Subs \union {None}]
       /\ sub' \in [Subs -> {"none", "open", "out", "closed"}] /\ late' \subseteq Subs
  BY <1>1 DEF TypeOK
<1>12. \A u \in Subs : \/ sub'[u] = sub[u]
                       \/ /\ sub[u] \in {"open", "out"} /\ sub'[u] \in {"out", "closed"}
                          /\ \E y \in Closers : InHand(y, u)
  BY <1>2, <1>3, <1>9
<1>13. \A u \in Subs : sub'[u] = "closed" => sub[u] = "closed" \/ Quiet(u) \/ u \in late'
  BY <1>2
<1> HIDE DEF KernelIInv
<1> QED  BY <1>1, <1>6, <1>7, <1>8, <1>10, <1>11, <1>12, <1>13, CloserKeeps

LEMMA NothingToCloseStep ==
  ASSUME KernelIInv, NEW x \in Closers, NEW s \in Subs, NothingToClose(x, s)
  PROVE  KernelIInv'
<1> USE DEF KernelIInv
<1>1. /\ sub[s] # "open" /\ ~AtBus(x) /\ left' = [left EXCEPT ![x] = @ \ {s}]
      /\ UNCHANGED <<regVars, tracked, closing, sub, queued, busy, late, busClosed, ctxDone, running,
                     up, ready, run>>
  BY DEF NothingToClose
<1>2. /\ left'[x] = left[x] \ {s} /\ \A y \in Closers : y # x => left'[y] = left[y]
  BY <1>1 DEF TypeOK
<1>3. \A y \in Closers, u \in Subs : Closes(y, u)' <=> Closes(y, u)
  BY <1>1, <1>2 DEF Closes, AtBus
<1>4. Held'
  <2> SUFFICES ASSUME NEW u \in Subs
               PROVE  /\ sub[u] = "open" => u \in tracked[Owner[u]] \/ \E y \in Closers : u \in left'[y]
                      /\ sub[u] = "out" => \E y \in Closers : Closes(y, u)'
    BY <1>1 DEF Held
  <2> QED  BY <1>1, <1>2, <1>3 DEF SubInv, Held
<1>5. OneCloser'
  <2>1. \A y \in Closers, u \in Subs : closing[y] = u => u \notin left'[y]
    BY <1>2 DEF SubInv, OneCloser
  <2> QED  BY <1>1, <1>3, <2>1 DEF SubInv, OneCloser
<1>6. \A y \in Closers, u \in Subs : InHand(y, u)' => InHand(y, u)
  BY <1>1, <1>2 DEF InHand
<1>7. LateIsTold' /\ RunsGoOn
  BY <1>1, RunsStay DEF LifeInv, LateIsTold, Tells, regVars
<1>8. /\ left' \in [Closers -> SUBSET Subs] /\ closing' \in [Closers -> Subs \union {None}]
      /\ sub' \in [Subs -> {"none", "open", "out", "closed"}] /\ late' \subseteq Subs
  BY <1>1 DEF TypeOK
<1> HIDE DEF KernelIInv
<1> QED  BY <1>1, <1>4, <1>5, <1>6, <1>7, <1>8, CloserKeeps

(* Either way out of a close, whoever closed it has it in hand no more.      *)
LEMMA ClosedKeeps ==
  ASSUME KernelIInv, NEW x \in Closers, NEW s \in Subs, Closed(x, s), RunsGoOn,
         late' \subseteq Subs, late \subseteq late', Quiet(s) \/ s \in late', LateIsTold'
  PROVE  KernelIInv'
<1> USE DEF KernelIInv
<1>1. /\ closing[x] = s /\ closing' = [closing EXCEPT ![x] = None]
      /\ sub' = [sub EXCEPT ![s] = "closed"]
      /\ UNCHANGED <<regVars, tracked, left, queued, busy, busClosed, ctxDone, running, up, ready>>
  BY DEF Closed
<1>2. /\ sub'[s] = "closed" /\ \A u \in Subs : u # s => sub'[u] = sub[u]
      /\ closing'[x] = None /\ None \notin Subs
      /\ \A y \in Closers : y # x => closing'[y] = closing[y]
  BY <1>1, KernelAssumption DEF TypeOK
<1>3. /\ sub[s] = "out" /\ InHand(x, s) /\ \A y \in Closers : Closes(y, s) => y = x
      /\ s \notin left[x]
  BY <1>1 DEF SubInv, OneCloser, Closes, InHand
<1>4. \A y : AtBus(y)' <=> AtBus(y)
  BY DEF AtBus, RunsGoOn
<1>5. \A y \in Closers, u \in Subs : u # s => (Closes(y, u)' <=> Closes(y, u))
  BY <1>1, <1>2, <1>4 DEF Closes
<1>6. \A y \in Closers : ~Closes(y, s)'
  BY <1>1, <1>2, <1>3, <1>4 DEF Closes
<1>7. Held'
  <2> SUFFICES ASSUME NEW u \in Subs
               PROVE  /\ sub'[u] = "open" => u \in tracked[Owner[u]] \/ \E y \in Closers : u \in left[y]
                      /\ sub'[u] = "out" => \E y \in Closers : Closes(y, u)'
    BY <1>1 DEF Held
  <2> QED  BY <1>2, <1>5 DEF SubInv, Held
<1>8. OneCloser'
  <2>1. \A y \in Closers, u \in Subs : Closes(y, u)' => sub'[u] = "out"
    BY <1>2, <1>5, <1>6 DEF SubInv, OneCloser
  <2>2. \A y, z \in Closers, u \in Subs : Closes(y, u)' /\ Closes(z, u)' => y = z
    BY <1>5, <1>6 DEF SubInv, OneCloser
  <2>3. \A y \in Closers, u \in Subs : closing'[y] = u => u \notin left'[y]
    BY <1>1, <1>2 DEF SubInv, OneCloser
  <2> QED  BY <2>1, <2>2, <2>3 DEF OneCloser
<1>9. \A y \in Closers, u \in Subs : InHand(y, u)' => InHand(y, u)
  BY <1>1, <1>2 DEF InHand
<1>10. /\ left' \in [Closers -> SUBSET Subs] /\ closing' \in [Closers -> Subs \union {None}]
       /\ sub' \in [Subs -> {"none", "open", "out", "closed"}]
  BY <1>1 DEF TypeOK
<1>11. \A u \in Subs : \/ sub'[u] = sub[u]
                       \/ /\ sub[u] \in {"open", "out"} /\ sub'[u] \in {"out", "closed"}
                          /\ \E y \in Closers : InHand(y, u)
  BY <1>2, <1>3
<1>12. \A u \in Subs : sub'[u] = "closed" => sub[u] = "closed" \/ Quiet(u) \/ u \in late'
  BY <1>2
<1> HIDE DEF KernelIInv
<1> QED  BY <1>1, <1>7, <1>8, <1>9, <1>10, <1>11, <1>12, CloserKeeps

LEMMA CloserStepKeeps ==
  ASSUME KernelIInv, NEW x \in Closers, CloserStep(x)
  PROVE  KernelIInv'
<1>1. ASSUME NEW s \in Subs, CloseReturnsNil(x, s)
      PROVE  KernelIInv'
  <2>1. late' = late /\ Quiet(s) /\ Closed(x, s) /\ RunsGoOn
    BY <1>1, RunsStay DEF CloseReturnsNil, KernelIInv
  <2>2. late \subseteq Subs
    BY DEF KernelIInv, TypeOK
  <2>3. LateIsTold'
    BY <2>1 DEF KernelIInv, LifeInv, LateIsTold, Tells, RunsGoOn, Closed, regVars
  <2> QED  BY <2>1, <2>2, <2>3, ClosedKeeps
<1>2. ASSUME NEW s \in Subs, CloseTimesOut(x, s)
      PROVE  KernelIInv'
  <2>1. /\ late' = late \cup {s} /\ Closed(x, s) /\ regPc' = regPc /\ InHand(x, s)
        /\ IF x \in Runs THEN JoinError(x) ELSE UNCHANGED run
    BY <1>2 DEF CloseTimesOut, Closed, InHand, regVars
  <2>2. RunsGoOn /\ (x \in Runs => run'[x].shutErr)
    BY <2>1, RunsStay, ErrorIsJoined DEF KernelIInv
  <2>3. late \subseteq Subs
    BY DEF KernelIInv, TypeOK
  <2>4. \/ regPc[Owner[s]] = "rollbackCommands"
        \/ \E r \in Runs : Tells(run'[r])
    BY <2>1, <2>2, HandsAreClosers DEF Tells, RunsGoOn
  <2>5. \A r \in Runs : Tells(run[r]) => Tells(run'[r])
    BY <2>2 DEF Tells, RunsGoOn
  <2>6. \A r \in Runs : Tells(run[r])' <=> Tells(run'[r])
    BY DEF Tells
  <2>7. LateIsTold'
    BY <2>1, <2>4, <2>5, <2>6 DEF KernelIInv, LifeInv, LateIsTold
  <2> QED  BY <2>1, <2>2, <2>3, <2>7, ClosedKeeps
<1> QED  BY <1>1, <1>2, CloseNextStep, NothingToCloseStep DEF CloserStep

LEMMA RegisterStep ==
  ASSUME KernelIInv, NEW m \in Mods, Register(m)
  PROVE  KernelIInv'
<1>1. m \in Closers
  BY DEF Closers
<1> QED  BY <1>1, RegistrationStep, CloserStepKeeps

-----------------------------------------------------------------------------
(* Run.  A step of one Run changes that Run's record alone.                  *)
LEMMA RunStepKeeps ==
  ASSUME KernelIInv, NEW r \in Runs, NEW x \in RunRec, run' = [run EXCEPT ![r] = x],
         UNCHANGED <<regVars, subVars, ctxDone>>, RunOK(x), OneActive' /\ running' \in BOOLEAN,
         x.pc # run[r].pc => \A s \in Subs : ~InHand(r, s),
         run[r].pc \in {"modules", "closing"} => x.pc \in {"modules", "closing"},
         up' \subseteq Mods, ready' \subseteq Mods, LifeInv'
  PROVE  KernelIInv'
<1> USE DEF KernelIInv
<1>1. run \in [Runs -> RunRec]
  BY DEF TypeOK, RunRec
<1>2. /\ run' \in [Runs -> RunRec] /\ run'[r] = x
      /\ \A q \in Runs : q # r => run'[q] = run[q]
  BY <1>1
<1>3. TypeOK'
  BY <1>2 DEF TypeOK, RunRec, regVars, subVars
<1>4. RegInv'
  BY DEF RegInv, Membership, Staged, Claimed, CommandsOwned, CommandsBacked, regVars
<1>5. SubInv'
  <2>1. \A y \in Closers, s \in Subs : Closes(y, s)' <=> Closes(y, s)
    BY <1>2 DEF Closes, AtBus, InHand, subVars
  <2>2. Held' /\ OneCloser'
    BY <2>1 DEF SubInv, Held, OneCloser, subVars
  <2>3. InHands'
    BY <1>2 DEF SubInv, InHands, InHand, subVars, regVars
  <2>4. Wired'
    <3>1. ShutsDown => ShutsDown'
      BY <1>2 DEF ShutsDown, subVars
    <3> QED  BY <3>1 DEF SubInv, Wired, subVars, regVars
  <2>5. Tracks' /\ BusDown' /\ Complete'
    BY DEF SubInv, Tracks, BusDown, Complete, subVars, regVars
  <2> QED  BY <2>2, <2>3, <2>4, <2>5 DEF SubInv
<1>6. RunInv'
  <2>1. \A q \in Runs : RunOK(run[q])' <=> RunOK(run'[q])
    BY DEF RunOK, AllReturned, subVars
  <2>2. \A q \in Runs : RunOK(run'[q])
    BY <1>2 DEF RunInv
  <2> QED  BY <2>1, <2>2 DEF RunInv
<1> QED  BY <1>3, <1>4, <1>5, <1>6

LEMMA EmptyHanded ==
  ASSUME KernelIInv, NEW r \in Runs, run[r].pc \notin {"closing", "bus"} \/ AllClosed(r)
  PROVE  \A s \in Subs : ~InHand(r, s)
  BY KernelAssumption DEF KernelIInv, SubInv, InHands, InHand, AllClosed

(* What a step has to show of a Run's record, before and after, so that the  *)
(* modules' part of the invariant is kept, when it starts and stops no       *)
(* module or driver.                                                         *)
Continues(o, x) ==
  /\ o.pc \in {"modules", "closing"} => x.pc \in {"modules", "closing"}
  /\ \A d \in Drivers : x.drv[d] # "off" <=> o.drv[d] # "off"
  /\ UpOK(x)
  /\ Tells(o) => Tells(x)
  /\ o.result = "error" => x.result = "error"
  /\ o.pc \in Active => x.pc \in Active \/ x.result = "error" \/ up \cap ready = {}
  /\ x.result = "nil" => o.result = "nil" \/ up \cap ready = {}

LEMMA QuietStepKeeps ==
  ASSUME KernelIInv, NEW r \in Runs, NEW x \in RunRec, run' = [run EXCEPT ![r] = x],
         UNCHANGED <<regVars, subVars, ctxDone, up, ready>>,
         RunOK(x), OneActive' /\ running' \in BOOLEAN, Continues(run[r], x),
         x.pc = run[r].pc \/ run[r].pc \notin {"closing", "bus"} \/ AllClosed(r)
  PROVE  KernelIInv'
<1>1. /\ run \in [Runs -> RunRec] /\ run' \in [Runs -> RunRec] /\ run'[r] = x
      /\ \A q \in Runs : q # r => run'[q] = run[q]
  BY DEF KernelIInv, TypeOK, RunRec
<1>2. UpInOrder'
  <2>1. \A q \in Runs : UpOK(run'[q])
    BY <1>1 DEF KernelIInv, LifeInv, UpInOrder, Continues
  <2>2. \A q \in Runs : UpOK(run[q])' <=> UpOK(run'[q])
    BY DEF UpOK, subVars
  <2> QED  BY <2>1, <2>2 DEF UpInOrder
<1>3. Served' <=> Served
  BY <1>1 DEF Served, Continues
<1>4. ReadyStay' /\ OpenIsUp' /\ EventsAreDue'
  BY <1>3 DEF KernelIInv, LifeInv, ReadyStay, OpenIsUp, EventsAreDue, subVars, regVars
<1>5. LateIsTold'
  <2>1. \A q \in Runs : Tells(run[q]) => Tells(run'[q])
    BY <1>1 DEF Continues
  <2>2. \A q \in Runs : Tells(run[q])' <=> Tells(run'[q])
    BY DEF Tells
  <2> QED  BY <2>1, <2>2 DEF KernelIInv, LifeInv, LateIsTold, subVars, regVars
<1>6. NilLeavesNone'
  BY <1>1 DEF KernelIInv, LifeInv, NilLeavesNone, Continues
<1>7. up' \subseteq Mods /\ ready' \subseteq Mods
  BY DEF KernelIInv, TypeOK
<1>8. x.pc # run[r].pc => \A s \in Subs : ~InHand(r, s)
  BY EmptyHanded
<1> QED  BY <1>2, <1>4, <1>5, <1>6, <1>7, <1>8, RunStepKeeps DEF LifeInv, Continues

(* Which Run is active: it starts when none is, and ends the only one.       *)
LEMMA ActiveStays ==
  ASSUME TypeOK, OneActive, NEW r \in Runs, NEW x \in RunRec, run' = [run EXCEPT ![r] = x],
         \/ (x.pc \in Active <=> run[r].pc \in Active) /\ running' = running
         \/ x.pc \in Active /\ ~running /\ running' = TRUE
         \/ x.pc \notin Active /\ run[r].pc \in Active /\ running' = FALSE
  PROVE  OneActive' /\ running' \in BOOLEAN
<1>1. /\ run \in [Runs -> RunRec] /\ run'[r] = x
      /\ \A q \in Runs : q # r => run'[q] = run[q]
  BY DEF TypeOK, RunRec
<1>2. running \in BOOLEAN
  BY DEF TypeOK
<1>3. \A p, q \in Runs : run'[p].pc \in Active /\ run'[q].pc \in Active => p = q
  BY <1>1, <1>2 DEF OneActive
<1>4. running' <=> \E q \in Runs : run'[q].pc \in Active
  BY <1>1, <1>2 DEF OneActive
<1> QED  BY <1>2, <1>3, <1>4 DEF OneActive

LEMMA RunAsItIs ==
  ASSUME KernelIInv, NEW r \in Runs
  PROVE  TypeOK /\ OneActive /\ run[r] \in RunRec /\ RunOK(run[r]) /\ UpOK(run[r])
  BY DEF KernelIInv, TypeOK, RunRec, RunInv, LifeInv, UpInOrder

(* The steps of a Run that start and stop no module.                         *)
LEMMA AlreadyRunningStep ==
  ASSUME KernelIInv, NEW r \in Runs, AlreadyRunning(r)
  PROVE  KernelIInv'
<1> DEFINE x == [run[r] EXCEPT !.pc = "returned", !.result = "busy"]
<1>1. TypeOK /\ OneActive /\ run[r] \in RunRec /\ RunOK(run[r]) /\ run[r].pc = "idle"
  BY RunAsItIs DEF AlreadyRunning
<1>2. /\ x \in RunRec /\ x.pc = "returned" /\ x.result = "busy" /\ x.errCh = run[r].errCh
      /\ x.runErr = run[r].runErr /\ x.drv = run[r].drv /\ x.fatal = run[r].fatal
  BY <1>1 DEF RunRec
<1>3. run' = [run EXCEPT ![r] = x] /\ running' = running /\ UNCHANGED <<regVars, subVars, ctxDone, up, ready>>
  BY DEF AlreadyRunning
<1> HIDE DEF x
<1>4. RunOK(x)
  BY <1>1, <1>2 DEF RunOK, AllReturned
<1>5. OneActive' /\ running' \in BOOLEAN
  BY <1>1, <1>2, <1>3, ActiveStays DEF Active
<1>6. Continues(run[r], x)
  BY <1>1, <1>2 DEF Continues, RunOK, UpOK, Tells, Active
<1> QED  BY <1>1, <1>2, <1>3, <1>4, <1>5, <1>6, QuietStepKeeps

LEMMA StartFailsStep ==
  ASSUME KernelIInv, NEW r \in Runs, StartFails(r)
  PROVE  KernelIInv'
<1> DEFINE x == [run[r] EXCEPT !.pc = "returned", !.result = "error"]
<1>1. TypeOK /\ OneActive /\ run[r] \in RunRec /\ RunOK(run[r]) /\ run[r].pc = "starting"
  BY RunAsItIs DEF StartFails
<1>2. /\ x \in RunRec /\ x.pc = "returned" /\ x.result = "error" /\ x.errCh = run[r].errCh
      /\ x.runErr = run[r].runErr /\ x.drv = run[r].drv /\ x.fatal = run[r].fatal
  BY <1>1 DEF RunRec
<1>3. run' = [run EXCEPT ![r] = x] /\ running' = FALSE /\ UNCHANGED <<regVars, subVars, ctxDone, up, ready>>
  BY DEF StartFails
<1> HIDE DEF x
<1>4. RunOK(x)
  BY <1>1, <1>2 DEF RunOK, AllReturned
<1>5. OneActive' /\ running' \in BOOLEAN
  BY <1>1, <1>2, <1>3, ActiveStays DEF Active
<1>6. Continues(run[r], x)
  BY <1>1, <1>2 DEF Continues, RunOK, UpOK, Tells, Active
<1> QED  BY <1>1, <1>2, <1>3, <1>4, <1>5, <1>6, QuietStepKeeps

(* What the driver goroutines make of the channel: a Run goes on meanwhile.  *)
LEMMA GoroutineKeeps ==
  ASSUME KernelIInv, NEW r \in Runs, NEW x \in RunRec, run' = [run EXCEPT ![r] = x], RunOK(x),
         UNCHANGED <<regVars, subVars, ctxDone, running, up, ready>>,
         x.pc = run[r].pc, x.plan = run[r].plan, x.at = run[r].at,
         x.shutErr = run[r].shutErr, x.result = run[r].result,
         \A d \in Drivers : x.drv[d] # "off" <=> run[r].drv[d] # "off"
  PROVE  KernelIInv'
<1>1. TypeOK /\ OneActive /\ UpOK(run[r])
  BY RunAsItIs
<1>2. OneActive' /\ running' \in BOOLEAN
  BY <1>1, ActiveStays
<1>3. Continues(run[r], x)
  BY <1>1 DEF Continues, UpOK, Tells
<1> QED  BY <1>2, <1>3, QuietStepKeeps

LEMMA DriverReturnsStep ==
  ASSUME KernelIInv, NEW r \in Runs, NEW d \in Drivers, DriverReturns(r, d)
  PROVE  KernelIInv'
<1> DEFINE x == [run[r] EXCEPT !.drv[d] = "returned"]
<1>1. run[r] \in RunRec /\ RunOK(run[r]) /\ run[r].drv[d] = "running"
  BY RunAsItIs DEF DriverReturns
<1>2. /\ x \in RunRec /\ x.pc = run[r].pc /\ x.plan = run[r].plan /\ x.at = run[r].at
      /\ x.errCh = run[r].errCh /\ x.runErr = run[r].runErr /\ x.shutErr = run[r].shutErr
      /\ x.result = run[r].result /\ x.fatal = run[r].fatal
      /\ x.drv[d] = "returned" /\ \A e \in Drivers : e # d => x.drv[e] = run[r].drv[e]
  BY <1>1 DEF RunRec
<1>3. /\ run' = [run EXCEPT ![r] = x]
      /\ UNCHANGED <<regVars, subVars, ctxDone, running, up, ready>>
  BY DEF DriverReturns
<1> HIDE DEF x
<1>4. RunOK(x)
  BY <1>1, <1>2 DEF RunOK, AllReturned
<1> QED  BY <1>1, <1>2, <1>3, <1>4, GoroutineKeeps

LEMMA DriverFailsStep ==
  ASSUME KernelIInv, NEW r \in Runs, NEW d \in Drivers, DriverFails(r, d)
  PROVE  KernelIInv'
<1> DEFINE e == IF run[r].errCh = "empty" THEN "fatal" ELSE run[r].errCh
           x == [run[r] EXCEPT !.drv[d] = "returned", !.errCh = e, !.fatal = @ \union {d}]
<1>1. run[r] \in RunRec /\ RunOK(run[r]) /\ run[r].drv[d] = "running"
  BY RunAsItIs DEF DriverFails
<1>2. /\ x \in RunRec /\ x.pc = run[r].pc /\ x.plan = run[r].plan /\ x.at = run[r].at
      /\ x.errCh = e /\ x.runErr = run[r].runErr /\ x.shutErr = run[r].shutErr
      /\ x.result = run[r].result /\ x.fatal = run[r].fatal \cup {d}
      /\ x.drv[d] = "returned" /\ \A f \in Drivers : f # d => x.drv[f] = run[r].drv[f]
  BY <1>1 DEF RunRec
<1>3. /\ run' = [run EXCEPT ![r] = x]
      /\ UNCHANGED <<regVars, subVars, ctxDone, running, up, ready>>
  BY DEF DriverFails, TrySend
<1> HIDE DEF x
<1>4. RunOK(x)
  <2>1. ~AllReturned(run[r]) /\ run[r].pc \notin {"idle", "starting"}
    BY <1>1 DEF AllReturned, RunOK
  <2>2. run[r].pc = "serving" => e = "fatal"
    BY <1>1, <2>1 DEF RunOK, RunRec
  <2> HIDE DEF e
  <2>3. run[r].runErr = "canceled" => ctxDone
    BY <1>1, <2>1 DEF RunOK
  <2>4. (\E f \in Drivers : x.drv[f] # "off") => \E f \in Drivers : run[r].drv[f] # "off"
    BY <1>1
  <2> QED  BY <1>1, <1>2, <2>1, <2>2, <2>3, <2>4 DEF RunOK
<1> QED  BY <1>1, <1>2, <1>3, <1>4, GoroutineKeeps

LEMMA AnnounceDoneStep ==
  ASSUME KernelIInv, NEW r \in Runs, AnnounceDone(r)
  PROVE  KernelIInv'
<1> DEFINE x == [run[r] EXCEPT !.errCh = "canceled"]
<1>1. /\ run[r] \in RunRec /\ RunOK(run[r])
      /\ run[r].pc \in {"serving", "winding"} /\ run[r].errCh = "empty" /\ AllReturned(run[r])
  BY RunAsItIs DEF AnnounceDone, DriversDone, AllReturned
<1>2. /\ x \in RunRec /\ x.pc = run[r].pc /\ x.plan = run[r].plan /\ x.at = run[r].at
      /\ x.errCh = "canceled" /\ x.runErr = run[r].runErr /\ x.shutErr = run[r].shutErr
      /\ x.result = run[r].result /\ x.fatal = run[r].fatal /\ x.drv = run[r].drv
  BY <1>1 DEF RunRec
<1>3. /\ run' = [run EXCEPT ![r] = x]
      /\ UNCHANGED <<regVars, subVars, ctxDone, running, up, ready>>
  BY DEF AnnounceDone
<1> HIDE DEF x
<1>4. RunOK(x)
  BY <1>1, <1>2 DEF RunOK, AllReturned
<1> QED  BY <1>1, <1>2, <1>3, <1>4, GoroutineKeeps

(* The select, and the wait for the drivers.                                 *)
LEMMA WindingKeeps ==
  ASSUME KernelIInv, NEW r \in Runs, NEW x \in RunRec, run' = [run EXCEPT ![r] = x], RunOK(x),
         UNCHANGED <<regVars, subVars, ctxDone, running, up, ready>>,
         run[r].pc \in {"serving", "winding"}, x.pc \in {"winding", "drivers"},
         x.result = run[r].result, x.drv = run[r].drv
  PROVE  KernelIInv'
<1>1. TypeOK /\ OneActive
  BY RunAsItIs
<1>2. OneActive' /\ running' \in BOOLEAN
  BY <1>1, ActiveStays DEF Active
<1>3. Continues(run[r], x)
  BY DEF Continues, UpOK, Tells, Active, RunOK
<1> QED  BY <1>2, <1>3, QuietStepKeeps

LEMMA SeeCancelStep ==
  ASSUME KernelIInv, NEW r \in Runs, SeeCancel(r)
  PROVE  KernelIInv'
<1> DEFINE x == [run[r] EXCEPT !.pc = "winding", !.runErr = "canceled"]
<1>1. run[r] \in RunRec /\ RunOK(run[r]) /\ run[r].pc = "serving" /\ ctxDone
  BY RunAsItIs DEF SeeCancel
<1>2. /\ x \in RunRec /\ x.pc = "winding" /\ x.errCh = run[r].errCh /\ x.runErr = "canceled"
      /\ x.result = run[r].result /\ x.drv = run[r].drv /\ x.fatal = run[r].fatal
  BY <1>1 DEF RunRec, Active
<1>3. /\ run' = [run EXCEPT ![r] = x]
      /\ UNCHANGED <<regVars, subVars, ctxDone, running, up, ready>>
  BY DEF SeeCancel
<1> HIDE DEF x
<1>4. RunOK(x)
  BY <1>1, <1>2 DEF RunOK, AllReturned
<1> QED  BY <1>1, <1>2, <1>3, <1>4, WindingKeeps

LEMMA SeeDriverErrorStep ==
  ASSUME KernelIInv, NEW r \in Runs, SeeDriverError(r)
  PROVE  KernelIInv'
<1> DEFINE x == [run[r] EXCEPT !.pc = "winding", !.runErr = run[r].errCh, !.errCh = "empty"]
<1>1. /\ run[r] \in RunRec /\ RunOK(run[r]) /\ run[r].pc = "serving"
      /\ run[r].errCh \in {"fatal", "canceled"}
  BY RunAsItIs DEF SeeDriverError, RunRec
<1>2. /\ x \in RunRec /\ x.pc = "winding" /\ x.errCh = "empty" /\ x.runErr = run[r].errCh
      /\ x.result = run[r].result /\ x.drv = run[r].drv /\ x.fatal = run[r].fatal
  BY <1>1 DEF RunRec, Active
<1>3. /\ run' = [run EXCEPT ![r] = x]
      /\ UNCHANGED <<regVars, subVars, ctxDone, running, up, ready>>
  BY DEF SeeDriverError
<1> HIDE DEF x
<1>4. RunOK(x)
  BY <1>1, <1>2 DEF RunOK, AllReturned
<1> QED  BY <1>1, <1>2, <1>3, <1>4, WindingKeeps

LEMMA WaitDriversStep ==
  ASSUME KernelIInv, NEW r \in Runs, WaitDrivers(r)
  PROVE  KernelIInv'
<1> DEFINE x == [run[r] EXCEPT !.pc = "drivers"]
<1>1. run[r] \in RunRec /\ RunOK(run[r]) /\ run[r].pc = "winding"
  BY RunAsItIs DEF WaitDrivers
<1>2. /\ x \in RunRec /\ x.pc = "drivers" /\ x.errCh = run[r].errCh /\ x.runErr = run[r].runErr
      /\ x.result = run[r].result /\ x.drv = run[r].drv /\ x.fatal = run[r].fatal
  BY <1>1 DEF RunRec, Active
<1>3. /\ run' = [run EXCEPT ![r] = x]
      /\ UNCHANGED <<regVars, subVars, ctxDone, running, up, ready>>
  BY DEF WaitDrivers
<1> HIDE DEF x
<1>4. RunOK(x)
  BY <1>1, <1>2 DEF RunOK, AllReturned
<1> QED  BY <1>1, <1>2, <1>3, <1>4, WindingKeeps

(* The modules are stopped from the last one of the order, all of them: what *)
(* was registered before the Run is still in it.                             *)
LEMMA StopDriversStep ==
  ASSUME KernelIInv, NEW r \in Runs, StopDrivers(r)
  PROVE  KernelIInv'
<1>1. PICK failed \in BOOLEAN :
        run' = [run EXCEPT ![r].pc = "modules", ![r].plan = order, ![r].at = Len(order),
                           ![r].shutErr = failed]
  BY DEF StopDrivers
<1> DEFINE x == [run[r] EXCEPT !.pc = "modules", !.plan = order, !.at = Len(order), !.shutErr = failed]
<1>2. /\ TypeOK /\ OneActive /\ run[r] \in RunRec /\ RunOK(run[r]) /\ run[r].pc = "drivers"
      /\ order \in Seq(Mods) /\ Len(order) \in Nat
      /\ UNCHANGED <<regVars, subVars, ctxDone, running, up, ready>>
  BY RunAsItIs DEF StopDrivers, TypeOK
<1>3. /\ x \in RunRec /\ x.pc = "modules" /\ x.plan = order /\ x.at = Len(order)
      /\ x.errCh = run[r].errCh /\ x.runErr = run[r].runErr
      /\ x.result = run[r].result /\ x.drv = run[r].drv /\ x.fatal = run[r].fatal
  BY <1>2 DEF RunRec, Active
<1>4. run' = [run EXCEPT ![r] = x]
  BY <1>1
<1> HIDE DEF x
<1>5. RunOK(x)
  BY <1>2, <1>3 DEF RunOK, AllReturned
<1>6. OneActive' /\ running' \in BOOLEAN
  BY <1>2, <1>3, <1>4, ActiveStays DEF Active
<1>7. UpOK(x)
  <2>1. \A m \in ready : m \in Claimed
    BY <1>2 DEF KernelIInv, LifeInv, ReadyStay, RegInv, Membership, Staged, TypeOK
  <2>2. \A m \in ready : \E i \in 1..Len(order) : order[i] = m
    BY <1>2, <2>1, OrderIsKeyed
  <2> QED  BY <1>2, <1>3, <2>2 DEF UpOK
<1>8. Continues(run[r], x)
  BY <1>2, <1>3, <1>7 DEF Continues, Tells, Active, RunOK
<1> QED  BY <1>2, <1>3, <1>4, <1>5, <1>6, <1>8, QuietStepKeeps

(* Run's result: nothing is up any more, and nil only without an error.      *)
LEMMA RunReturnsStep ==
  ASSUME KernelIInv, NEW r \in Runs, RunReturns(r)
  PROVE  KernelIInv'
<1> DEFINE x == [run[r] EXCEPT !.pc = "returned", !.result = Outcome(r)]
<1>1. /\ TypeOK /\ OneActive /\ run[r] \in RunRec /\ RunOK(run[r]) /\ UpOK(run[r])
      /\ run[r].pc = "bus" /\ AllClosed(r)
      /\ running' = FALSE /\ UNCHANGED <<regVars, subVars, ctxDone, up, ready>>
  BY RunAsItIs DEF RunReturns
<1>2. /\ Outcome(r) \in {"error", "nil"}
      /\ Outcome(r) = "nil" => run[r].runErr = "canceled" /\ ~run[r].shutErr
  BY <1>1 DEF Outcome, RunRec, RunOK
<1>3. /\ x \in RunRec /\ x.pc = "returned" /\ x.errCh = run[r].errCh /\ x.runErr = run[r].runErr
      /\ x.result = Outcome(r) /\ x.drv = run[r].drv /\ x.fatal = run[r].fatal
  BY <1>1, <1>2 DEF RunRec, Active
<1>4. run' = [run EXCEPT ![r] = x]
  BY DEF RunReturns
<1> HIDE DEF x
<1>5. RunOK(x)
  BY <1>1, <1>2, <1>3 DEF RunOK, AllReturned
<1>6. OneActive' /\ running' \in BOOLEAN
  BY <1>1, <1>3, <1>4, ActiveStays DEF Active
<1>7. Continues(run[r], x)
  BY <1>1, <1>2, <1>3 DEF Continues, RunOK, UpOK, Tells, Active
<1> QED  BY <1>1, <1>3, <1>4, <1>5, <1>6, <1>7, QuietStepKeeps

-----------------------------------------------------------------------------
(* The steps that start and stop modules and drivers.  The Run that takes    *)
(* them is the active one, so no other Run's loop is at work.  UpThen is     *)
(* UpOK after the step, of the record the step leaves.                       *)
UpThen(x) ==
  /\ x.pc = "starting" =>
       /\ x.at >= 1 /\ \A i \in 1..Len(x.plan) : i < x.at => x.plan[i] \in up'
       /\ \A m \in ready' : \E i \in 1..Len(x.plan) : x.plan[i] = m
  /\ x.pc \in {"modules", "closing"} =>
       x.at <= Len(x.plan) /\ \A m \in up' \cap ready' : \E i \in 1..x.at : x.plan[i] = m
  /\ x.pc = "closing" =>
       x.at >= 1 /\ (x.plan[x.at] \in ready' => tracked'[x.plan[x.at]] = {})
  /\ x.pc = "bus" => up' \cap ready' = {}

LEMMA AloneAtWork ==
  ASSUME KernelIInv, NEW r \in Runs, run[r].pc \in Active,
         NEW x \in RunRec, run' = [run EXCEPT ![r] = x], x.pc \in Active, running' = running,
         run[r].result = x.result
  PROVE  /\ \A q \in Runs : q # r => run'[q] = run[q] /\ run[q].pc \notin Active
         /\ run'[r] = x /\ OneActive' /\ running' \in BOOLEAN /\ NilLeavesNone'
         /\ UpThen(x) => UpInOrder'
<1>1. /\ run \in [Runs -> RunRec] /\ run'[r] = x
      /\ \A q \in Runs : q # r => run'[q] = run[q]
  BY DEF KernelIInv, TypeOK, RunRec
<1>2. \A q \in Runs : q # r => run[q].pc \notin Active
  BY DEF KernelIInv, RunInv, OneActive
<1>3. OneActive' /\ running' \in BOOLEAN
  BY ActiveStays DEF KernelIInv, RunInv
<1>4. NilLeavesNone'
  BY <1>1 DEF NilLeavesNone, Active
<1>5. UpThen(x) => UpInOrder'
  BY <1>1, <1>2 DEF UpInOrder, UpOK, UpThen, Active
<1> QED  BY <1>1, <1>2, <1>3, <1>4, <1>5

(* A Run starts when none is active.  One that had run drivers has closed    *)
(* the bus, so whoever has been registered since has no subscription left.   *)
LEMMA StartRunStep ==
  ASSUME KernelIInv, NEW r \in Runs, StartRun(r)
  PROVE  KernelIInv'
<1> DEFINE x == [run[r] EXCEPT !.pc = "starting", !.plan = order, !.at = 1]
<1>1. /\ TypeOK /\ OneActive /\ run[r] \in RunRec /\ RunOK(run[r]) /\ run[r].pc = "idle"
      /\ order \in Seq(Mods) /\ ~running /\ running' = TRUE
      /\ ready' = ready \cup {m \in Mods : regPc[m] = "registered"}
      /\ UNCHANGED <<regVars, subVars, ctxDone, up>>
  BY RunAsItIs DEF StartRun, FreeToRun, TypeOK
<1>2. /\ x \in RunRec /\ x.pc = "starting" /\ x.plan = order /\ x.at = 1
      /\ x.errCh = run[r].errCh /\ x.runErr = run[r].runErr
      /\ x.result = run[r].result /\ x.drv = run[r].drv /\ x.fatal = run[r].fatal
  BY <1>1 DEF RunRec, Active
<1>3. run' = [run EXCEPT ![r] = x]
  BY DEF StartRun
<1> HIDE DEF x
<1>4. RunOK(x)
  BY <1>1, <1>2 DEF RunOK, AllReturned
<1>5. OneActive' /\ running' \in BOOLEAN
  BY <1>1, <1>2, <1>3, ActiveStays DEF Active
<1>6. /\ \A q \in Runs : run[q].pc \notin Active
      /\ run'[r] = x /\ \A q \in Runs : q # r => run'[q] = run[q]
  BY <1>1, <1>3 DEF OneActive, TypeOK
<1>7. ready' \subseteq Mods /\ up' \subseteq Mods /\ ReadyStay'
  BY <1>1 DEF KernelIInv, LifeInv, ReadyStay, TypeOK, regVars
<1>8. UpInOrder'
  <2>1. \A m \in ready' : m \in Claimed
    BY <1>1, <1>7 DEF KernelIInv, LifeInv, ReadyStay, RegInv, Membership, Staged, TypeOK, regVars
  <2>2. \A m \in ready' : \E i \in 1..Len(order) : order[i] = m
    BY <1>1, <2>1, OrderIsKeyed
  <2>3. UpThen(x)
    BY <1>2, <2>2 DEF UpThen
  <2> QED  BY <1>6, <2>3 DEF UpInOrder, UpOK, UpThen, Active
<1>9. Served' <=> Served
  BY <1>2, <1>6 DEF Served
<1>10. OpenIsUp'
  <2> SUFFICES ASSUME Served, NEW s \in Subs, sub[s] \in {"open", "out"}, Owner[s] \in ready'
               PROVE  FALSE
    BY <1>1, <1>9 DEF OpenIsUp, subVars
  <2>1. PICK q \in Runs : \E d \in Drivers : run[q].drv[d] # "off"
    BY DEF Served
  <2>2. RunOK(run[q]) /\ run[q] \in RunRec /\ run[q].pc \notin Active
    BY <1>6, RunAsItIs
  <2>3. busClosed
    BY <2>1, <2>2 DEF RunOK, RunRec
  <2>4. sub[s] = "out"
    BY <2>3 DEF KernelIInv, SubInv, BusDown
  <2>5. PICK y \in Closers : Closes(y, s)
    BY <2>4 DEF KernelIInv, SubInv, Held
  <2>6. regPc[Owner[s]] = "registered"
    BY <1>1, <1>7 DEF ReadyStay, regVars
  <2>7. InHand(y, s)
    BY <2>5 DEF Closes, InHand
  <2> QED  BY <1>6, <2>6, <2>7, HandsAreClosers DEF Active
<1>11. EventsAreDue'
  BY <1>1, <1>9 DEF KernelIInv, LifeInv, EventsAreDue, subVars
<1>12. LateIsTold'
  BY <1>1, <1>2, <1>6 DEF KernelIInv, LifeInv, LateIsTold, Tells, RunOK, subVars, regVars
<1>13. NilLeavesNone'
  BY <1>2, <1>6 DEF NilLeavesNone, Active
<1>14. \A s \in Subs : ~InHand(r, s)
  BY <1>1, EmptyHanded
<1> QED  BY <1>1, <1>2, <1>3, <1>4, <1>5, <1>7, <1>8, <1>10, <1>11, <1>12, <1>13, <1>14, RunStepKeeps
         DEF LifeInv

LEMMA StartModuleStep ==
  ASSUME KernelIInv, NEW r \in Runs, StartModule(r)
  PROVE  KernelIInv'
<1> DEFINE x == [run[r] EXCEPT !.at = @ + 1]
           m == run[r].plan[run[r].at]
<1>1. /\ TypeOK /\ OneActive /\ run[r] \in RunRec /\ RunOK(run[r]) /\ UpOK(run[r])
      /\ run[r].pc = "starting" /\ run[r].at <= Len(run[r].plan)
      /\ UNCHANGED <<regVars, subVars, ctxDone, running, ready>>
      /\ up' = up \cup {m} /\ run' = [run EXCEPT ![r] = x]
  BY RunAsItIs DEF StartModule
<1>2. /\ x \in RunRec /\ x.pc = "starting" /\ x.plan = run[r].plan /\ x.at = run[r].at + 1
      /\ x.errCh = run[r].errCh /\ x.runErr = run[r].runErr
      /\ x.result = run[r].result /\ x.drv = run[r].drv /\ x.fatal = run[r].fatal
  BY <1>1 DEF RunRec, Active
<1> HIDE DEF x
<1>3. RunOK(x)
  BY <1>1, <1>2 DEF RunOK, AllReturned
<1>4. /\ \A q \in Runs : q # r => run'[q] = run[q] /\ run[q].pc \notin Active
      /\ run'[r] = x /\ OneActive' /\ running' \in BOOLEAN /\ NilLeavesNone'
      /\ UpThen(x) => UpInOrder'
  BY <1>1, <1>2, AloneAtWork DEF Active
<1>5. run[r].plan \in Seq(Mods) /\ run[r].at \in Nat /\ run[r].at >= 1
  BY <1>1 DEF RunRec, UpOK
<1>6. up' \subseteq Mods /\ ready' \subseteq Mods
  BY <1>1, <1>5 DEF TypeOK
<1>7. UpInOrder'
  <2>1. \A i \in 1..Len(x.plan) : i < x.at => x.plan[i] \in up'
    <3> SUFFICES ASSUME NEW i \in 1..Len(x.plan), i < x.at PROVE x.plan[i] \in up'
      OBVIOUS
    <3>1. i = run[r].at \/ i < run[r].at
      BY <1>2, <1>5
    <3> QED  BY <1>1, <1>2, <3>1 DEF UpOK
  <2>2. UpThen(x)
    BY <1>1, <1>2, <1>5, <2>1 DEF UpOK, UpThen
  <2> QED  BY <1>4, <2>2
<1>8. Served' <=> Served
  BY <1>2, <1>4 DEF Served
<1>9. ReadyStay' /\ OpenIsUp' /\ EventsAreDue'
  BY <1>1, <1>8 DEF KernelIInv, LifeInv, ReadyStay, OpenIsUp, EventsAreDue, subVars, regVars
<1>10. LateIsTold'
  BY <1>1, <1>2, <1>4 DEF KernelIInv, LifeInv, LateIsTold, Tells, subVars, regVars
<1> QED  BY <1>1, <1>2, <1>3, <1>4, <1>6, <1>7, <1>9, <1>10, RunStepKeeps DEF LifeInv

(* Once the drivers run, every module that was registered has been started.  *)
LEMMA StartDriversStep ==
  ASSUME KernelIInv, NEW r \in Runs, StartDrivers(r)
  PROVE  KernelIInv'
<1> DEFINE x == [run[r] EXCEPT !.pc = "serving", !.drv = [d \in Drivers |-> "running"]]
<1>1. /\ TypeOK /\ OneActive /\ run[r] \in RunRec /\ RunOK(run[r]) /\ UpOK(run[r])
      /\ run[r].pc = "starting" /\ run[r].at > Len(run[r].plan)
      /\ UNCHANGED <<regVars, subVars, ctxDone, up, running, ready>> /\ run' = [run EXCEPT ![r] = x]
  BY RunAsItIs DEF StartDrivers, ModulesStarted
<1>2. /\ x \in RunRec /\ x.pc = "serving" /\ x.errCh = run[r].errCh /\ x.runErr = run[r].runErr
      /\ x.result = run[r].result /\ x.fatal = run[r].fatal
      /\ x.drv = [d \in Drivers |-> "running"]
  BY <1>1 DEF RunRec, Active
<1> HIDE DEF x
<1>3. RunOK(x)
  BY <1>1, <1>2 DEF RunOK, AllReturned
<1>4. /\ \A q \in Runs : q # r => run'[q] = run[q] /\ run[q].pc \notin Active
      /\ run'[r] = x /\ OneActive' /\ running' \in BOOLEAN /\ NilLeavesNone'
      /\ UpThen(x) => UpInOrder'
  BY <1>1, <1>2, AloneAtWork DEF Active
<1>5. up' \subseteq Mods /\ ready' \subseteq Mods
  BY <1>1 DEF TypeOK
<1>6. UpInOrder'
  BY <1>2, <1>4 DEF UpThen
<1>7. Served => Served'
  BY <1>2, <1>4 DEF Served
<1>8. OpenIsUp'
  <2>1. ready \subseteq up
    <3> SUFFICES ASSUME NEW m \in ready PROVE m \in up
      OBVIOUS
    <3>1. PICK i \in 1..Len(run[r].plan) : run[r].plan[i] = m
      BY <1>1 DEF UpOK
    <3>2. i < run[r].at
      BY <1>1 DEF RunRec
    <3> QED  BY <1>1, <3>1, <3>2 DEF UpOK
  <2> QED  BY <1>1, <2>1 DEF OpenIsUp
<1>9. ReadyStay' /\ EventsAreDue'
  BY <1>1, <1>7 DEF KernelIInv, LifeInv, ReadyStay, EventsAreDue, subVars, regVars
<1>10. LateIsTold'
  BY <1>1, <1>2, <1>4 DEF KernelIInv, LifeInv, LateIsTold, Tells, subVars, regVars
<1>11. \A s \in Subs : ~InHand(r, s)
  BY <1>1, EmptyHanded
<1> QED  BY <1>1, <1>2, <1>3, <1>4, <1>5, <1>6, <1>8, <1>9, <1>10, <1>11, RunStepKeeps DEF LifeInv

(* A module is stopped when its last subscription is closed: it had been     *)
(* registered, so it has made none since they were taken from it.            *)
LEMMA StopModuleStep ==
  ASSUME KernelIInv, NEW r \in Runs, StopModule(r)
  PROVE  KernelIInv'
<1> DEFINE m == run[r].plan[run[r].at]
<1>1. PICK failed \in BOOLEAN :
        run' = [run EXCEPT ![r].pc = "modules", ![r].at = @ - 1, ![r].shutErr = @ \/ failed]
  BY DEF StopModule
<1> DEFINE x == [run[r] EXCEPT !.pc = "modules", !.at = @ - 1, !.shutErr = @ \/ failed]
<1>2. /\ TypeOK /\ OneActive /\ run[r] \in RunRec /\ RunOK(run[r]) /\ UpOK(run[r])
      /\ run[r].pc = "closing" /\ AllClosed(r)
      /\ UNCHANGED <<regVars, subVars, ctxDone, running, ready>> /\ up' = up \ {m}
  BY RunAsItIs DEF StopModule
<1>3. run[r].at \in Nat /\ run[r].at >= 1 /\ run[r].at <= Len(run[r].plan) /\ run[r].plan \in Seq(Mods)
  BY <1>2 DEF RunRec, UpOK
<1>4. /\ x \in RunRec /\ x.pc = "modules" /\ x.plan = run[r].plan /\ x.at = run[r].at - 1
      /\ x.errCh = run[r].errCh /\ x.runErr = run[r].runErr
      /\ x.result = run[r].result /\ x.drv = run[r].drv /\ x.fatal = run[r].fatal
      /\ x.shutErr = (run[r].shutErr \/ failed)
  <2>1. run[r].at - 1 \in Nat /\ (run[r].shutErr \/ failed) \in BOOLEAN
    BY <1>3
  <2>2. x \in RunRec
    BY <1>2, <2>1, Zenon DEF RunRec, Active
  <2> QED  BY <1>2, <2>2 DEF RunRec
<1>5. run' = [run EXCEPT ![r] = x]
  BY <1>1
<1> HIDE DEF x
<1>6. RunOK(x)
  BY <1>2, <1>4 DEF RunOK, AllReturned
<1>7. /\ \A q \in Runs : q # r => run'[q] = run[q] /\ run[q].pc \notin Active
      /\ run'[r] = x /\ OneActive' /\ running' \in BOOLEAN /\ NilLeavesNone'
      /\ UpThen(x) => UpInOrder'
  BY <1>2, <1>4, <1>5, AloneAtWork DEF Active
<1>8. up' \subseteq Mods /\ ready' \subseteq Mods
  BY <1>2 DEF TypeOK
<1>9. UpInOrder'
  <2>1. ASSUME NEW n \in up' \cap ready PROVE \E i \in 1..x.at : x.plan[i] = n
    <3>1. PICK i \in 1..run[r].at : run[r].plan[i] = n
      BY <1>2, <2>1 DEF UpOK
    <3>2. i # run[r].at
      BY <1>2, <2>1, <3>1
    <3> QED  BY <1>3, <1>4, <3>1, <3>2
  <2>2. x.at <= Len(x.plan)
    BY <1>3, <1>4
  <2>3. UpThen(x)
    BY <1>2, <1>4, <2>1, <2>2 DEF UpOK, UpThen
  <2> QED  BY <1>7, <2>3
<1>10. Served' <=> Served
  BY <1>4, <1>7 DEF Served
<1>11. \A s \in Subs : ~InHand(r, s)
  BY <1>2, EmptyHanded
<1>12. OpenIsUp'
  <2> SUFFICES ASSUME Served, NEW s \in Subs, sub[s] \in {"open", "out"}, Owner[s] \in ready
               PROVE  Owner[s] \in up'
    BY <1>2, <1>10 DEF OpenIsUp, subVars
  <2>1. Owner[s] \in up /\ regPc[Owner[s]] = "registered"
    BY DEF KernelIInv, LifeInv, OpenIsUp, ReadyStay
  <2>2. ASSUME Owner[s] = m PROVE FALSE
    <3>1. s \notin tracked[Owner[s]]
      BY <1>2, <2>2 DEF UpOK
    <3>2. PICK y \in Closers : InHand(y, s)
      BY <3>1 DEF KernelIInv, SubInv, Held, Closes, InHand
    <3>3. y \in Runs /\ run[y].pc \in {"closing", "bus"}
      BY <2>1, <3>2, HandsAreClosers
    <3>4. y = r
      BY <1>7, <3>3 DEF Active
    <3> QED  BY <1>11, <3>2, <3>4
  <2> QED  BY <1>2, <2>1, <2>2
<1>13. ReadyStay' /\ EventsAreDue'
  BY <1>2, <1>10 DEF KernelIInv, LifeInv, ReadyStay, EventsAreDue, subVars, regVars
<1>14. LateIsTold'
  <2>1. \A q \in Runs : Tells(run[q]) => Tells(run'[q])
    BY <1>2, <1>4, <1>7 DEF Tells
  <2>2. \A q \in Runs : Tells(run[q])' <=> Tells(run'[q])
    BY DEF Tells
  <2> QED  BY <1>2, <2>1, <2>2 DEF KernelIInv, LifeInv, LateIsTold, subVars, regVars
<1> QED  BY <1>2, <1>4, <1>5, <1>6, <1>7, <1>8, <1>9, <1>11, <1>12, <1>13, <1>14, RunStepKeeps DEF LifeInv

(* Two steps of a shutdown take subscriptions in hand.                       *)
LEMMA TakingKeeps ==
  ASSUME KernelIInv, NEW r \in Runs, NEW x \in RunRec, run' = [run EXCEPT ![r] = x],
         UNCHANGED <<regVars, closing, queued, busy, late, ctxDone, running, up, ready>>,
         run[r].pc = "modules", x.pc \in {"closing", "bus"},
         x.errCh = run[r].errCh, x.runErr = run[r].runErr, x.shutErr = run[r].shutErr,
         x.result = run[r].result, x.drv = run[r].drv, x.fatal = run[r].fatal,
         x.pc = "bus" => busClosed', busClosed => busClosed', busClosed' \in BOOLEAN,
         tracked' \in [Mods -> SUBSET Subs], left' \in [Closers -> SUBSET Subs],
         sub' \in [Subs -> {"none", "open", "out", "closed"}],
         \A m \in Mods : tracked'[m] \subseteq tracked[m],
         \A y \in Closers : y # r => left'[y] = left[y],
         \A s \in Subs : sub'[s] = sub[s] \/ (sub[s] = "open" /\ sub'[s] = "out"),
         Held', OneCloser', BusDown', UpThen(x)
  PROVE  KernelIInv'
<1> USE DEF KernelIInv
<1>1. run[r].pc \in Active /\ x.pc \in Active
  BY DEF Active
<1>2. /\ \A q \in Runs : q # r => run'[q] = run[q] /\ run[q].pc \notin Active
      /\ run'[r] = x /\ OneActive' /\ running' \in BOOLEAN /\ NilLeavesNone' /\ UpInOrder'
  BY <1>1, AloneAtWork
<1>3. TypeOK'
  <2>1. run' \in [Runs -> RunRec]
    BY <1>2 DEF TypeOK, RunRec
  <2> QED  BY <1>2, <2>1 DEF TypeOK, RunRec, regVars
<1>4. RegInv'
  BY DEF RegInv, Membership, Staged, Claimed, CommandsOwned, CommandsBacked, regVars
<1>5. Tracks' /\ Complete'
  BY DEF SubInv, Tracks, Complete, SubsOf, regVars, TypeOK
<1>6. InHands'
  <2>1. \A m \in Mods : m \in Closers /\ m # r
    BY KernelAssumption DEF Closers
  <2>2. \A q \in Runs : q \in Closers
    BY DEF Closers
  <2> QED  BY <1>2, <2>1, <2>2 DEF SubInv, InHands, InHand, regVars
<1>7. ShutsDown'
  BY <1>2 DEF ShutsDown
<1>8. Wired'
  BY <1>7 DEF Wired
<1>9. RunInv'
  <2>1. \A q \in Runs : RunOK(run[q])'
    BY <1>2 DEF RunInv, RunOK, AllReturned
  <2> QED  BY <1>2, <2>1 DEF RunInv
<1>10. Served' <=> Served
  BY <1>2 DEF Served
<1>11. ReadyStay' /\ OpenIsUp' /\ EventsAreDue'
  BY <1>10 DEF LifeInv, ReadyStay, OpenIsUp, EventsAreDue, regVars, TypeOK
<1>12. LateIsTold'
  <2>1. \A q \in Runs : Tells(run[q]) => Tells(run'[q])
    BY <1>2 DEF Tells
  <2>2. \A q \in Runs : Tells(run[q])' <=> Tells(run'[q])
    BY DEF Tells
  <2> QED  BY <2>1, <2>2 DEF LifeInv, LateIsTold, regVars
<1> QED  BY <1>2, <1>3, <1>4, <1>5, <1>6, <1>8, <1>9, <1>11, <1>12 DEF SubInv, LifeInv

LEMMA TakeSubscriptionsStep ==
  ASSUME KernelIInv, NEW r \in Runs, TakeSubscriptions(r)
  PROVE  KernelIInv'
<1> DEFINE x == [run[r] EXCEPT !.pc = "closing"]
           m == run[r].plan[run[r].at]
<1>1. /\ TypeOK /\ run[r] \in RunRec /\ UpOK(run[r]) /\ run[r].pc = "modules" /\ run[r].at > 0
      /\ left' = [left EXCEPT ![r] = tracked[m]] /\ tracked' = [tracked EXCEPT ![m] = {}]
      /\ UNCHANGED <<regVars, closing, sub, queued, busy, late, busClosed, ctxDone, running, up, ready>>
      /\ run' = [run EXCEPT ![r] = x]
  BY RunAsItIs DEF TakeSubscriptions, Take
<1>2. /\ x \in RunRec /\ x.pc = "closing" /\ x.plan = run[r].plan /\ x.at = run[r].at
      /\ x.errCh = run[r].errCh /\ x.runErr = run[r].runErr /\ x.shutErr = run[r].shutErr
      /\ x.result = run[r].result /\ x.drv = run[r].drv /\ x.fatal = run[r].fatal
  BY <1>1 DEF RunRec, Active
<1> HIDE DEF x
<1>3. run[r].at \in Nat /\ run[r].at <= Len(run[r].plan) /\ m \in Mods /\ r \in Closers
  BY <1>1 DEF RunRec, UpOK, Closers
<1> HIDE DEF m
<1>4. /\ left'[r] = tracked[m] /\ \A y \in Closers : y # r => left'[y] = left[y]
      /\ tracked'[m] = {} /\ \A n \in Mods : n # m => tracked'[n] = tracked[n]
      /\ tracked[m] \subseteq Subs
  BY <1>1, <1>3 DEF TypeOK
<1>5. \A s \in Subs : ~InHand(r, s)
  BY <1>1, EmptyHanded
<1>6. /\ tracked' \in [Mods -> SUBSET Subs] /\ left' \in [Closers -> SUBSET Subs]
      /\ sub' \in [Subs -> {"none", "open", "out", "closed"}] /\ busClosed' \in BOOLEAN
  BY <1>1, <1>4 DEF TypeOK
<1>7. \A y : AtBus(y)' <=> AtBus(y)
  BY <1>1, <1>2 DEF AtBus, TypeOK
<1>8. \A y \in Closers, s \in Subs : Closes(y, s)' <=> Closes(y, s)
  BY <1>1, <1>4, <1>7 DEF Closes, AtBus
<1>9. Held'
  <2> SUFFICES ASSUME NEW s \in Subs
               PROVE  /\ sub[s] = "open" => s \in tracked'[Owner[s]] \/ \E y \in Closers : s \in left'[y]
                      /\ sub[s] = "out" => \E y \in Closers : Closes(y, s)
    BY <1>1, <1>8 DEF Held
  <2>1. /\ sub[s] = "open" => s \in tracked[Owner[s]] \/ \E y \in Closers : s \in left[y]
        /\ sub[s] = "out" => \E y \in Closers : Closes(y, s)
    BY DEF KernelIInv, SubInv, Held
  <2>2. Owner[s] \in Mods /\ s \notin left[r]
    BY <1>5, KernelAssumption DEF InHand
  <2> QED  BY <1>3, <1>4, <2>1, <2>2
<1>10. OneCloser'
  <2>1. \A y \in Closers, s \in Subs : closing[y] = s => s \notin left'[y]
    BY <1>4, <1>5 DEF KernelIInv, SubInv, OneCloser, InHand
  <2> QED  BY <1>1, <1>8, <2>1 DEF KernelIInv, SubInv, OneCloser
<1>11. BusDown'
  BY <1>1 DEF KernelIInv, SubInv, BusDown
<1>12. UpThen(x)
  <2>1. x.plan[x.at] = m
    BY <1>2 DEF m
  <2>2. x.at <= Len(x.plan) /\ x.at >= 1 /\ tracked'[x.plan[x.at]] = {}
    BY <1>1, <1>2, <1>3, <1>4, <2>1
  <2>3. \A n \in up \cap ready : \E i \in 1..x.at : x.plan[i] = n
    BY <1>1, <1>2 DEF UpOK
  <2> QED  BY <1>1, <1>2, <2>2, <2>3 DEF UpOK, UpThen
<1>13. \A n \in Mods : tracked'[n] \subseteq tracked[n]
  BY <1>4
<1> QED  BY <1>1, <1>2, <1>4, <1>6, <1>9, <1>10, <1>11, <1>12, <1>13, TakingKeeps

LEMMA CloseBusStep ==
  ASSUME KernelIInv, NEW r \in Runs, CloseBus(r)
  PROVE  KernelIInv'
<1> DEFINE x == [run[r] EXCEPT !.pc = "bus"]
<1>1. /\ TypeOK /\ run[r] \in RunRec /\ UpOK(run[r]) /\ run[r].pc = "modules" /\ run[r].at = 0
      /\ left' = [left EXCEPT ![r] = InBus] /\ busClosed' = TRUE
      /\ sub' = [s \in Subs |-> IF s \in InBus THEN "out" ELSE sub[s]]
      /\ UNCHANGED <<regVars, tracked, closing, queued, busy, late, ctxDone, running, up, ready>>
      /\ run' = [run EXCEPT ![r] = x]
  BY RunAsItIs DEF CloseBus
<1>2. /\ x \in RunRec /\ x.pc = "bus"
      /\ x.errCh = run[r].errCh /\ x.runErr = run[r].runErr /\ x.shutErr = run[r].shutErr
      /\ x.result = run[r].result /\ x.drv = run[r].drv /\ x.fatal = run[r].fatal
  BY <1>1 DEF RunRec, Active
<1> HIDE DEF x
<1>3. r \in Closers /\ InBus \subseteq Subs /\ \A s \in Subs : s \in InBus <=> sub[s] = "open"
  BY DEF Closers, InBus
<1>4. /\ left'[r] = InBus /\ \A y \in Closers : y # r => left'[y] = left[y]
      /\ \A s \in Subs : sub'[s] = IF s \in InBus THEN "out" ELSE sub[s]
  BY <1>1, <1>3 DEF TypeOK
<1>5. \A s \in Subs : ~InHand(r, s)
  BY <1>1, EmptyHanded
<1>6. /\ tracked' \in [Mods -> SUBSET Subs] /\ left' \in [Closers -> SUBSET Subs]
      /\ sub' \in [Subs -> {"none", "open", "out", "closed"}]
  BY <1>1, <1>3, <1>4 DEF TypeOK
<1>7. \A s \in Subs : sub'[s] # "open" /\ (sub'[s] = sub[s] \/ (sub[s] = "open" /\ sub'[s] = "out"))
  BY <1>3, <1>4
<1>8. \A y \in Closers, s \in Subs : y # r => (Closes(y, s)' <=> Closes(y, s))
  BY <1>1, <1>4 DEF Closes, AtBus, TypeOK
<1>9. \A s \in Subs : Closes(r, s)' <=> s \in InBus
  <2>1. AtBus(r)'
    BY <1>1, <1>2 DEF AtBus, TypeOK
  <2> QED  BY <1>1, <1>4, <1>5, <2>1 DEF Closes, InHand
<1>10. Held'
  <2> SUFFICES ASSUME NEW s \in Subs, sub'[s] = "out" PROVE \E y \in Closers : Closes(y, s)'
    BY <1>7 DEF Held
  <2>1. CASE s \in InBus
    BY <1>3, <1>9, <2>1
  <2>2. CASE s \notin InBus
    <3>1. PICK y \in Closers : Closes(y, s)
      BY <1>4, <2>2 DEF KernelIInv, SubInv, Held
    <3>2. y # r
      BY <1>5, <3>1 DEF Closes, InHand
    <3> QED  BY <1>8, <3>1, <3>2
  <2> QED  BY <2>1, <2>2
<1>11. OneCloser'
  <2>1. \A y \in Closers, s \in Subs : Closes(y, s) => sub[s] = "out" /\ s \notin InBus
    BY <1>3 DEF KernelIInv, SubInv, OneCloser
  <2>2. \A y \in Closers, s \in Subs : Closes(y, s)' => sub'[s] = "out"
    BY <1>4, <1>8, <1>9, <2>1
  <2>3. \A y, z \in Closers, s \in Subs : Closes(y, s)' /\ Closes(z, s)' => y = z
    <3> SUFFICES ASSUME NEW y \in Closers, NEW z \in Closers, NEW s \in Subs,
                        Closes(y, s)', Closes(z, s)', y # z
                 PROVE  FALSE
      OBVIOUS
    <3>1. CASE y # r /\ z # r
      BY <1>8, <3>1 DEF KernelIInv, SubInv, OneCloser
    <3>2. CASE y = r
      BY <1>8, <1>9, <2>1, <3>2
    <3>3. CASE z = r
      BY <1>8, <1>9, <2>1, <3>3
    <3> QED  BY <3>1, <3>2, <3>3
  <2>4. \A y \in Closers, s \in Subs : closing'[y] = s => s \notin left'[y]
    BY <1>1, <1>4, <1>5 DEF KernelIInv, SubInv, OneCloser, InHand
  <2> QED  BY <2>2, <2>3, <2>4 DEF OneCloser
<1>12. BusDown'
  BY <1>7 DEF BusDown
<1>13. UpThen(x)
  <2>1. up \cap ready = {}
    BY <1>1 DEF UpOK
  <2> QED  BY <1>1, <1>2, <2>1 DEF UpOK, UpThen
<1>14. \A m \in Mods : tracked'[m] \subseteq tracked[m]
  BY <1>1
<1> QED  BY <1>1, <1>2, <1>4, <1>6, <1>7, <1>10, <1>11, <1>12, <1>13, <1>14, TakingKeeps

-----------------------------------------------------------------------------
(* Events and the context.                                                   *)
LEMMA EventStep ==
  ASSUME KernelIInv, NEW s \in Subs,
         (\E r \in Runs, d \in Drivers : Publish(r, d, s)) \/ HandlerStarts(s)
           \/ HandlerEnds(s) \/ Abandon(s)
  PROVE  KernelIInv'
<1> USE DEF KernelIInv
<1>1. /\ UNCHANGED <<regVars, tracked, left, closing, sub, late, busClosed, ctxDone, running, up,
                     ready, run>>
      /\ queued' \subseteq queued \cup {s} /\ busy' \subseteq busy \cup {s}
      /\ (Served /\ sub[s] = "open") \/ s \in queued \cup busy
  BY DEF Publish, HandlerStarts, HandlerEnds, Abandon, Served
<1>2. TypeOK'
  BY <1>1 DEF TypeOK, regVars
<1>3. RegInv'
  BY <1>1 DEF RegInv, Membership, Staged, Claimed, CommandsOwned, CommandsBacked, regVars
<1>4. SubInv'
  BY <1>1 DEF SubInv, Tracks, Held, OneCloser, InHands, BusDown, Wired, Complete, Closes, InHand,
              AtBus, ShutsDown, regVars
<1>5. RunInv'
  BY <1>1 DEF RunInv, OneActive, RunOK, AllReturned
<1>6. ReadyStay' /\ UpInOrder' /\ OpenIsUp' /\ LateIsTold' /\ NilLeavesNone'
  BY <1>1 DEF LifeInv, ReadyStay, UpInOrder, UpOK, OpenIsUp, LateIsTold, Tells, NilLeavesNone, Served,
              regVars
<1>7. EventsAreDue'
  BY <1>1 DEF LifeInv, EventsAreDue, Served
<1> QED  BY <1>2, <1>3, <1>4, <1>5, <1>6, <1>7 DEF LifeInv

(* The context enters the invariant as a reason for an end, no more.         *)
LEMMA ContextStepKeeps ==
  ASSUME KernelIInv, ctxDone => ctxDone', ctxDone' \in BOOLEAN,
         UNCHANGED <<regVars, subVars, running, up, ready, run>>
  PROVE  KernelIInv'
<1> USE DEF KernelIInv
<1>1. TypeOK'
  BY DEF TypeOK, regVars, subVars
<1>2. RegInv'
  BY DEF RegInv, Membership, Staged, Claimed, CommandsOwned, CommandsBacked, regVars
<1>3. SubInv'
  BY DEF SubInv, Tracks, Held, OneCloser, InHands, BusDown, Wired, Complete, Closes, InHand,
         AtBus, ShutsDown, regVars, subVars
<1>4. RunInv'
  BY DEF RunInv, OneActive, RunOK, AllReturned, subVars
<1>5. LifeInv'
  BY DEF LifeInv, ReadyStay, UpInOrder, UpOK, OpenIsUp, EventsAreDue, LateIsTold, Tells,
         NilLeavesNone, Served, regVars, subVars
<1> QED  BY <1>1, <1>2, <1>3, <1>4, <1>5

LEMMA KernelBegins ==
  ASSUME Init
  PROVE  KernelIInv
<1> USE DEF Init
<1>1. NewRun \in RunRec
  BY DEF NewRun, RunRec
<1>2. \A r \in Runs : /\ run[r] = NewRun /\ run[r].pc = "idle" /\ run[r].result = "none"
                      /\ run[r].fatal = {} /\ run[r].errCh = "empty" /\ run[r].runErr = "none"
                      /\ \A d \in Drivers : run[r].drv[d] = "off"
  BY DEF NewRun
<1>3. TypeOK
  <2>1. order \in Seq(Mods) /\ Len(order) = 0
    OBVIOUS
  <2> HIDE DEF NewRun
  <2>2. run \in [Runs -> RunRec]
    BY <1>1
  <2>3. /\ regPc \in [Mods -> {"new", "claimed", "hook", "handlers", "registered", "refused",
                              "rollback", "rollbackCommands", "rollbackRecord", "undone"}]
        /\ commands \in [Commands -> Names \union {None}]
        /\ services \in [Services -> Mods \union {None}]
    OBVIOUS
  <2>4. /\ tracked \in [Mods -> SUBSET Subs]
        /\ left \in [Closers -> SUBSET Subs] /\ closing \in [Closers -> Subs \union {None}]
        /\ sub \in [Subs -> {"none", "open", "out", "closed"}]
    OBVIOUS
  <2>5. /\ queued \subseteq Subs /\ busy \subseteq Subs /\ late \subseteq Subs
        /\ busClosed \in BOOLEAN /\ ctxDone \in BOOLEAN /\ running \in BOOLEAN
        /\ up \subseteq Mods /\ ready \subseteq Mods
    OBVIOUS
  <2> HIDE DEF Init
  <2>6. \A i, j \in 1..Len(order) : NameOf[order[i]] = NameOf[order[j]] => i = j
    BY <2>1
  <2> QED  BY <2>1, <2>2, <2>3, <2>4, <2>5, <2>6, Zenon DEF TypeOK, RunRec
<1>4. Claimed = {}
  BY DEF Claimed, Range
<1>5. RegInv
  BY <1>4, KernelAssumption DEF RegInv, Membership, Staged, CommandsOwned, CommandsBacked
<1>6. SubInv
  <2>1. \A x \in Closers, s \in Subs : ~InHand(x, s) /\ closing[x] # s /\ s \notin left[x]
    BY KernelAssumption DEF InHand
  <2>2. \A x \in Closers, s \in Subs : ~Closes(x, s)
    BY <2>1 DEF Closes
  <2>3. \A m \in Mods : m \in Closers
    BY DEF Closers
  <2>4. \A r \in Runs : r \in Closers
    BY DEF Closers
  <2>5. \A s \in Subs : sub[s] = "none"
    OBVIOUS
  <2>6. InHands
    BY <2>1, <2>3, <2>4 DEF InHands
  <2>7. Held /\ OneCloser
    BY <2>1, <2>2, <2>5 DEF Held, OneCloser
  <2> QED  BY <2>5, <2>6, <2>7 DEF SubInv, Tracks, BusDown, Wired, Complete, SubsOf
<1>7. RunInv
  <2> HIDE DEF Init
  <2>1. running = FALSE
    BY DEF Init
  <2> HIDE DEF NewRun
  <2> QED  BY <1>2, <2>1 DEF RunInv, OneActive, RunOK, Active
<1>8. LifeInv
  <2>1. \A r \in Runs : UpOK(run[r])
    BY <1>2 DEF UpOK
  <2>2. ~Served
    BY <1>2 DEF Served
  <2> QED  BY <1>2, <2>1, <2>2 DEF LifeInv, ReadyStay, UpInOrder, OpenIsUp, EventsAreDue, LateIsTold,
                                    NilLeavesNone
<1> QED  BY <1>3, <1>5, <1>6, <1>7, <1>8 DEF KernelIInv

LEMMA KernelStep ==
  ASSUME KernelIInv, [Next]_vars
  PROVE  KernelIInv'
<1>1. ASSUME NEW r \in Runs, RunStep(r)
      PROVE  KernelIInv'
  <2>1. r \in Closers
    BY DEF Closers
  <2> QED
    BY <1>1, <2>1, StartModuleStep, StartFailsStep, StartDriversStep, SeeCancelStep,
       SeeDriverErrorStep, WaitDriversStep, StopDriversStep, TakeSubscriptionsStep, CloserStepKeeps,
       StopModuleStep, CloseBusStep, RunReturnsStep DEF RunStep
<1>2. ASSUME NEW r \in Runs, NEW d \in Drivers, DriverStep(r, d)
      PROVE  KernelIInv'
  BY <1>2, DriverReturnsStep, DriverFailsStep, EventStep DEF DriverStep
<1>3. ASSUME CancelContext \/ UNCHANGED vars
      PROVE  KernelIInv'
  <2>1. /\ ctxDone => ctxDone'
        /\ UNCHANGED <<regVars, subVars, running, up, ready, run>>
    BY <1>3 DEF CancelContext, vars
  <2>2. ctxDone' \in BOOLEAN
    BY <1>3 DEF CancelContext, vars, KernelIInv, TypeOK
  <2> QED  BY <2>1, <2>2, ContextStepKeeps
<1> QED
  BY <1>1, <1>2, <1>3, RegisterStep, StartRunStep, AlreadyRunningStep, AnnounceDoneStep, EventStep
  DEF Next

-----------------------------------------------------------------------------
LEMMA KernelInvariant == Spec => []KernelIInv
  BY KernelBegins, KernelStep, PTL DEF Spec

(* Every kernel variable keeps its type; the names in the order are keys.    *)
THEOREM KernelTypes == Spec => []TypeOK
<1>1. KernelIInv => TypeOK
  BY DEF KernelIInv
<1> QED  BY <1>1, KernelInvariant, PTL

(* A registration is all or nothing, for any modules and any overlap of      *)
(* their registrations with one another and with a Run that starts, serves   *)
(* or shuts down: a rollback takes back what was its own, and what it does   *)
(* not close is in the hands of the Run that shuts down.                     *)
THEOREM RegistrationIsAllOrNothing == Spec => []AllOrNothing
<1>1. KernelIInv => RegisteredIsWired
  <2> SUFFICES ASSUME KernelIInv, NEW m \in Mods, regPc[m] = "registered"
               PROVE  /\ \A c \in CommandsOf[m] : commands[c] = NameOf[m]
                      /\ ~ShutsDown => /\ SubsOf(m) \subseteq tracked[m]
                                       /\ \A s \in SubsOf(m) : sub[s] = "open"
    BY DEF RegisteredIsWired
  <2>1. \A c \in CommandsOf[m] : commands[c] = NameOf[m]
    BY DEF KernelIInv, RegInv, CommandsOwned
  <2>2. ASSUME ~ShutsDown, NEW s \in SubsOf(m)
        PROVE  s \in tracked[m] /\ sub[s] = "open"
    BY <2>2 DEF KernelIInv, SubInv, Wired, Complete
  <2> QED  BY <2>1, <2>2
<1>2. KernelIInv => FailedLeavesNothing
  <2> SUFFICES ASSUME KernelIInv PROVE FailedLeavesNothing
    OBVIOUS
  <2>1. ASSUME NEW m \in Mods, regPc[m] \in {"refused", "undone"}
        PROVE  m \notin Claimed
    BY <2>1 DEF KernelIInv, RegInv, Membership, Staged
  <2>2. ASSUME NEW m \in Mods, regPc[m] \in {"refused", "undone"}, NEW s \in SubsOf(m),
               sub[s] \notin {"none", "closed"}
        PROVE  \E r \in Runs : InHand(r, s)
    <3>1. s \in Subs /\ Owner[s] = m /\ sub[s] \in {"open", "out"}
      BY <2>2 DEF SubsOf, KernelIInv, TypeOK
    <3>2. s \notin tracked[m]
      BY <2>2 DEF KernelIInv, SubInv, Tracks
    <3>3. PICK x \in Closers : InHand(x, s)
      BY <3>1, <3>2 DEF KernelIInv, SubInv, Held, Closes, InHand
    <3> QED  BY <2>2, <3>1, <3>3, HandsAreClosers
  <2>3. \A c \in Commands : commands[c] # None =>
          \E m \in Claimed : NameOf[m] = commands[c] /\ c \in CommandsOf[m]
    BY DEF KernelIInv, RegInv, CommandsBacked
  <2> QED  BY <2>1, <2>2, <2>3 DEF FailedLeavesNothing
<1> QED  BY <1>1, <1>2, KernelInvariant, PTL DEF AllOrNothing

(* Of the modules registered before a Run, no handler runs before its        *)
(* module's OnStart has returned, and none after its OnShutdown unless the   *)
(* close of its subscription timed out.                                      *)
THEOREM HandlersKeepTheirTime == Spec => []HandlersWithinLife
<1>1. KernelIInv => HandlersWithinLife
  BY DEF KernelIInv, TypeOK, LifeInv, EventsAreDue, OpenIsUp, HandlersWithinLife
<1> QED  BY <1>1, KernelInvariant, PTL

(* A Run that returns nil left, of the modules registered before a Run, no   *)
(* handler running and none up, and, unless it was cancelled, had every      *)
(* driver end without a fatal error.                                         *)
THEOREM NilIsClean == Spec => []NilMeansClean
<1>1. ASSUME KernelIInv, NEW r \in Runs, run[r].result = "nil"
      PROVE  /\ ctxDone \/ (DriversDone(r) /\ run[r].fatal = {})
             /\ \/ up \intersect ready = {} /\ \A s \in busy : Owner[s] \notin ready
                \/ \E q \in Runs : run[q].pc \in Active \/ run[q].result = "error"
  <2>1. ctxDone \/ (DriversDone(r) /\ run[r].fatal = {})
    BY <1>1 DEF KernelIInv, RunInv, RunOK, AllReturned, DriversDone
  <2>2. ASSUME \A q \in Runs : run[q].pc \notin Active /\ run[q].result # "error"
        PROVE  up \intersect ready = {} /\ \A s \in busy : Owner[s] \notin ready
    <3>1. up \intersect ready = {}
      BY <1>1, <2>2 DEF KernelIInv, LifeInv, NilLeavesNone
    <3>2. ASSUME NEW s \in busy, Owner[s] \in ready PROVE FALSE
      <4>1. s \in Subs /\ regPc[Owner[s]] = "registered"
        BY <1>1, <3>2 DEF KernelIInv, TypeOK, LifeInv, ReadyStay
      <4>2. s \notin late
        BY <1>1, <2>2, <4>1 DEF KernelIInv, LifeInv, LateIsTold, Tells, Active
      <4>3. Owner[s] \in up
        BY <1>1, <3>2, <4>1, <4>2 DEF KernelIInv, LifeInv, EventsAreDue, OpenIsUp
      <4> QED  BY <3>1, <3>2, <4>3
    <3> QED  BY <3>1, <3>2
  <2> QED  BY <2>1, <2>2
<1>2. KernelIInv => NilMeansClean
  BY <1>1 DEF NilMeansClean
<1> QED  BY <1>2, KernelInvariant, PTL

-----------------------------------------------------------------------------
(* The capability gate.                                                      *)

(* A source that a filter's source covers is covered by whatever covers the  *)
(* filter's source: the wildcards of containsSource compose.                 *)
LEMMA SourcesCompose ==
  ASSUME NEW outer, NEW s, NEW t,
         ContainsSource(outer, s), s.platform \in {Blank, t.platform}, s.id \in {Blank, t.id}
  PROVE  ContainsSource(outer, t)
<1>1. PICK p \in outer : p.platform \in {Blank, s.platform} /\ p.id \in {Blank, s.id}
  BY DEF ContainsSource
<1>2. p.platform \in {Blank, t.platform} /\ p.id \in {Blank, t.id}
  BY <1>1
<1> QED
  BY <1>1, <1>2 DEF ContainsSource

(* A command name that a filter's spelling covers is covered by whatever     *)
(* covers that spelling.                                                     *)
LEMMA NamesCompose ==
  ASSUME NEW outer, NEW n, NEW t,
         ContainsCommandName(outer, n), Normalized[n] = Normalized[t]
  PROVE  ContainsCommandName(outer, t)
  BY DEF ContainsCommandName

(* InterestSet.Allows is sound for filters that name what is restricted:     *)
(* what such a filter matches, the interest that allows it matches too.      *)
THEOREM AllowsIsSound ==
  ASSUME NEW i, NEW filter, NEW e,
         Allows(i, filter), NamesAll(filter, i), Matches(filter, e)
  PROVE  Matches(i, e)
<1>1. i.kinds = {} \/ e.kind \in i.kinds
  BY DEF Allows, NamesAll, Matches
<1>2. i.sources = {} \/ ContainsSource(i.sources, e.source)
  <2> SUFFICES ASSUME i.sources # {} PROVE ContainsSource(i.sources, e.source)
    OBVIOUS
  <2>1. ContainsSource(filter.sources, e.source)
    BY DEF NamesAll, Matches
  <2>2. PICK s \in filter.sources : s.platform \in {Blank, e.source.platform} /\ s.id \in {Blank, e.source.id}
    BY <2>1 DEF ContainsSource
  <2>3. ContainsSource(i.sources, s)
    BY <2>2 DEF Allows
  <2> QED
    BY <2>2, <2>3, SourcesCompose
<1>3. i.require \subseteq e.payloads
  BY DEF Allows, Matches
<1>4. i.commandNames = {} \/ ("command" \in e.payloads /\ ContainsCommandName(i.commandNames, e.command))
  <2> SUFFICES ASSUME i.commandNames # {}
               PROVE  "command" \in e.payloads /\ ContainsCommandName(i.commandNames, e.command)
    OBVIOUS
  <2>1. "command" \in e.payloads /\ ContainsCommandName(filter.commandNames, e.command)
    BY DEF NamesAll, Matches
  <2>2. PICK n \in filter.commandNames : Normalized[n] = Normalized[e.command]
    BY <2>1 DEF ContainsCommandName
  <2>3. ContainsCommandName(i.commandNames, n)
    BY <2>2 DEF Allows
  <2> QED
    BY <2>1, <2>2, <2>3, NamesCompose
<1>5. i.mediaTypes = {} \/ i.mediaTypes \cap MediaOf(e) # {}
  BY DEF Allows, NamesAll, Matches
<1> QED
  BY <1>1, <1>2, <1>3, <1>4, <1>5 DEF Matches

-----------------------------------------------------------------------------
(* The inductive invariant: what the gate let through, what the bus matched, *)
(* and where a handler's filter takes its sources from.                      *)
Gated(s) == AssertSubscriptionAllowed(module, s.interest)
HandlerRouted(s) ==
  (s.by = "handler" /\ Route(module) # {}) => s.interest.sources = Route(module)

GateInv ==
  /\ \A s \in subs : Gated(s) /\ HandlerRouted(s)
  /\ \A d \in seen : Gated(d[1]) /\ HandlerRouted(d[1]) /\ Matches(d[1].interest, d[2])

(* The specification's steps keep the invariant.                             *)
LEMMA GateStep == GateInv /\ [GateNext]_gateVars => GateInv'
<1> SUFFICES ASSUME GateInv, [GateNext]_gateVars PROVE GateInv'
  OBVIOUS
<1>a. ASSUME module' = module PROVE \A s : (Gated(s) <=> Gated(s)') /\ (HandlerRouted(s) <=> HandlerRouted(s)')
  BY <1>a DEF Gated, HandlerRouted, AssertSubscriptionAllowed, Route
<1>1. ASSUME NEW filter, SubscribeTo(filter) PROVE GateInv'
  <2>1. module' = module /\ seen' = seen
    BY <1>1 DEF SubscribeTo
  <2>2. CASE AssertSubscriptionAllowed(module, filter)
    <3>1. subs' = subs \cup {Sub(filter, "module")}
      BY <1>1, <2>2 DEF SubscribeTo
    <3>2. Gated(Sub(filter, "module")) /\ HandlerRouted(Sub(filter, "module"))
      BY <2>2 DEF Sub, Gated, HandlerRouted
    <3> QED
      BY <1>a, <2>1, <3>1, <3>2 DEF GateInv
  <2>3. CASE ~ AssertSubscriptionAllowed(module, filter)
    <3>1. subs' \subseteq subs
      BY <1>1, <2>3 DEF SubscribeTo, Rollback
    <3> QED
      BY <1>a, <2>1, <3>1 DEF GateInv
  <2> QED
    BY <2>2, <2>3
<1>2. ASSUME EndHook PROVE GateInv'
  BY <1>a, <1>2 DEF EndHook, GateInv
<1>3. ASSUME RegisterDeclaredHandler PROVE GateInv'
  <2> DEFINE filter == Routed(module.handlers[wired + 1])
  <2>1. module' = module /\ seen' = seen
    BY <1>3 DEF RegisterDeclaredHandler
  <2>2. CASE AssertSubscriptionAllowed(module, filter)
    <3>1. subs' = subs \cup {Sub(filter, "handler")}
      BY <1>3, <2>2 DEF RegisterDeclaredHandler
    <3>2. Route(module) # {} => filter.sources = Route(module)
      BY DEF Routed
    <3>3. Gated(Sub(filter, "handler")) /\ HandlerRouted(Sub(filter, "handler"))
      BY <2>2, <3>2 DEF Sub, Gated, HandlerRouted
    <3> QED
      BY <1>a, <2>1, <3>1, <3>3 DEF GateInv
  <2>3. CASE ~ AssertSubscriptionAllowed(module, filter)
    <3>1. subs' = {}
      BY <1>3, <2>3 DEF RegisterDeclaredHandler, Rollback
    <3> QED
      BY <1>a, <2>1, <3>1 DEF GateInv
  <2> QED
    BY <2>2, <2>3
<1>4. ASSUME NEW e \in Events, PublishEvent(e) PROVE GateInv'
  <2>1. module' = module /\ subs' = subs
    BY <1>4 DEF PublishEvent
  <2>2. seen' = seen \cup {<<s, e>> : s \in {s \in subs : Matches(s.interest, e)}}
    BY <1>4 DEF PublishEvent
  <2> QED
    BY <1>a, <2>1, <2>2 DEF GateInv
<1>5. ASSUME UNCHANGED gateVars PROVE GateInv'
  BY <1>a, <1>5 DEF gateVars, GateInv
<1> QED
  BY <1>1, <1>2, <1>3, <1>4, <1>5 DEF GateNext

(* The invariant holds in every reachable state.                             *)
THEOREM GateHolds == GateSpec => []GateInv
<1>1. GateInit => GateInv
  BY DEF GateInit, GateInv
<1> QED
  BY <1>1, GateStep, PTL DEF GateSpec

(* Whatever a module declares and asks for, an event it is given through a   *)
(* filter that names its capability's dimensions is one that it declared.    *)
THEOREM GivenIsDeclared == GateSpec => []NamedIsCovered
<1>1. GateInv => NamedIsCovered
  <2> SUFFICES ASSUME GateInv, NEW d \in seen,
                      \A c \in Capabilities(module) : Allows(c, d[1].interest) => NamesAll(d[1].interest, c)
               PROVE  Heard(module, d[2])
    BY DEF NamedIsCovered
  <2>1. PICK c \in Capabilities(module) : Allows(c, d[1].interest)
    BY DEF GateInv, Gated, AssertSubscriptionAllowed
  <2>2. Matches(d[1].interest, d[2])
    BY DEF GateInv
  <2>3. Matches(c, d[2])
    BY <2>1, <2>2, AllowsIsSound
  <2> QED
    BY <2>3 DEF Heard
<1> QED
  BY <1>1, GateHolds, PTL

(* Whatever the routing, a declared handler is only given events of its      *)
(* module's route.                                                           *)
THEOREM HandlersAreRouted == GateSpec => []HandlersStayOnRoute
<1>1. GateInv => HandlersStayOnRoute
  BY DEF GateInv, HandlersStayOnRoute, OnRoute, HandlerRouted, Matches
<1> QED
  BY <1>1, GateHolds, PTL
=============================================================================
