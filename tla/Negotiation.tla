----------------------------- MODULE Negotiation -----------------------------
(***************************************************************************)
(* What a module is allowed to hear.  A module declares capabilities, each *)
(* with an interest set; every subscription it makes, declared or through  *)
(* ModuleRuntime.Subscribe, is let through when one capability's interest  *)
(* "allows" its filter; the bus then delivers the events the filter        *)
(* matches.  The routing configuration replaces the sources of the         *)
(* handlers a module declares.                                             *)
(***************************************************************************)
EXTENDS Naturals, Sequences

CONSTANTS
  Blank,         \* the empty string: no platform, no id, a blank command name
  NoRoute,     \* no routing entry
  Normalized,  \* spelling of a command name -> trimmed and lowered
  Modules,     \* what a module may declare, ask for and be routed to
  Events       \* what a driver may publish

VARIABLES
  module,      \* the module being registered
  phase,       \* "hook", "handlers", "registered" or "refused"
  wired,       \* how many of its declared handlers are bound
  subs,        \* its subscriptions: the filter and who made it
  seen         \* which subscription's handler was given which event
gateVars == <<module, phase, wired, subs, seen>>

-----------------------------------------------------------------------------
\* Interest sets.  An empty set of kinds, sources, names or media restricts nothing.

ContainsSource(sources, target) ==
  \E s \in sources : s.platform \in {Blank, target.platform} /\ s.id \in {Blank, target.id}

ContainsCommandName(names, target) ==
  /\ Normalized[target] # Blank
  /\ \E n \in names : Normalized[n] = Normalized[target]

\* An article's media or, without one, those of a mutation's snapshot.
MediaOf(e) == IF "article" \in e.payloads THEN e.media
              ELSE IF "mutation" \in e.payloads THEN e.snapshot ELSE {}

Matches(i, e) ==
  /\ i.kinds = {} \/ e.kind \in i.kinds
  /\ i.sources = {} \/ ContainsSource(i.sources, e.source)
  /\ i.require \subseteq e.payloads
  /\ i.commandNames = {} \/ ("command" \in e.payloads /\ ContainsCommandName(i.commandNames, e.command))
  /\ i.mediaTypes = {} \/ i.mediaTypes \cap MediaOf(e) # {}

\* Mutant: one common kind is enough.
Loosely(i, filter) ==
  /\ i.kinds = {} \/ filter.kinds \cap i.kinds # {}
  /\ i.require \subseteq filter.require

Allows(i, filter) ==
  /\ i.kinds = {} \/ filter.kinds \subseteq i.kinds
  /\ i.sources = {} \/ \A s \in filter.sources : ContainsSource(i.sources, s)
  /\ i.mediaTypes = {} \/ filter.mediaTypes \subseteq i.mediaTypes
  /\ i.commandNames = {} \/ \A n \in filter.commandNames : ContainsCommandName(i.commandNames, n)
  /\ i.require \subseteq filter.require

-----------------------------------------------------------------------------
\* Events.

RequiredPayloads ==
  [ k \in {"article.created", "article.edited", "article.retracted", "article.reaction.added",
           "article.reaction.removed", "command.received", "system_command.received",
           "member.joined", "member.left", "role.updated", "chat.migrated"} |->
      CASE k = "article.created" -> {"article"}
        [] k \in {"article.edited", "article.retracted"} -> {"mutation"}
        [] k \in {"article.reaction.added", "article.reaction.removed"} -> {"reaction"}
        [] k \in {"command.received", "system_command.received"} -> {"command", "article"}
        [] OTHER -> {"state_change"} ]

Valid(e) ==
  /\ e.kind \in DOMAIN RequiredPayloads
  /\ e.source.platform # Blank
  /\ RequiredPayloads[e.kind] \subseteq e.payloads

-----------------------------------------------------------------------------
\* Registration.

HandlerCapabilities(m) == {m.handlers[n] : n \in DOMAIN m.handlers}
Capabilities(m) == HandlerCapabilities(m) \cup m.additional

\* A module's own route replaces the default one altogether.
Route(m) == IF m.route # NoRoute THEN m.route
            ELSE IF m.defaultRoute # NoRoute THEN m.defaultRoute ELSE {}

AssertSubscriptionAllowed(m, filter) == \E c \in Capabilities(m) : Allows(c, filter)

GateInit ==
  /\ module \in Modules
  /\ phase = "hook"
  /\ wired = 0
  /\ subs = {}
  /\ seen = {}

Sub(filter, by) == [interest |-> filter, by |-> by]

\* A registration that fails closes what it had subscribed.
Rollback ==
  /\ phase' = "refused"
  /\ subs' = {}

\* A module's own call, in OnRegister or later: OnRegister returns the error it gets.
SubscribeTo(filter) ==
  /\ phase \in {"hook", "registered"}
  /\ IF AssertSubscriptionAllowed(module, filter)
     THEN subs' = subs \cup {Sub(filter, "module")} /\ UNCHANGED phase
     ELSE IF phase = "hook" THEN Rollback ELSE UNCHANGED <<phase, subs>>
  /\ UNCHANGED <<module, wired, seen>>

\* Mutant: the route comes on top of declared sources.
Added(interest) == IF interest.sources = {} THEN interest
                   ELSE [interest EXCEPT !.sources = @ \cup Route(module)]

\* A declared handler listens with its capability's interest, from its module's route.
Routed(interest) ==
  [ kinds |-> interest.kinds,
    sources |-> IF Route(module) = {} THEN interest.sources ELSE Route(module),
    commandNames |-> interest.commandNames,
    mediaTypes |-> interest.mediaTypes,
    require |-> interest.require ]

EndHook ==
  /\ phase = "hook"
  /\ phase' = IF module.handlers = <<>> THEN "registered" ELSE "handlers"
  /\ UNCHANGED <<module, wired, subs, seen>>

RegisterDeclaredHandler ==
  /\ phase = "handlers"
  /\ wired < Len(module.handlers)
  /\ LET filter == Routed(module.handlers[wired + 1])
     IN IF AssertSubscriptionAllowed(module, filter)
        THEN /\ subs' = subs \cup {Sub(filter, "handler")}
             /\ wired' = wired + 1
             /\ phase' = IF wired' = Len(module.handlers) THEN "registered" ELSE phase
        ELSE Rollback /\ UNCHANGED wired
  /\ UNCHANGED <<module, seen>>

\* The bus hands a valid event to every subscription whose filter matches it.
PublishEvent(e) ==
  /\ Valid(e)
  /\ seen' = seen \cup {<<s, e>> : s \in {s \in subs : Matches(s.interest, e)}}
  /\ UNCHANGED <<module, phase, wired, subs>>

GateNext ==
  \/ \E filter \in module.asks : SubscribeTo(filter)
  \/ EndHook
  \/ RegisterDeclaredHandler
  \/ \E e \in Events : PublishEvent(e)

GateSpec == GateInit /\ [][GateNext]_gateVars

-----------------------------------------------------------------------------
\* Properties.

\* A filter that says something wherever the capability does.
NamesAll(filter, i) ==
  /\ i.kinds # {} => filter.kinds # {}
  /\ i.sources # {} => filter.sources # {}
  /\ i.mediaTypes # {} => filter.mediaTypes # {}
  /\ i.commandNames # {} => filter.commandNames # {}

\* The state has its shape.
GateTypeOK ==
  /\ module \in Modules
  /\ phase \in {"hook", "handlers", "registered", "refused"}
  /\ wired \in 0 .. Len(module.handlers)
  /\ \A s \in subs : s.by \in {"module", "handler"}
  /\ \A d \in seen : d[2] \in Events

Heard(m, e) == \E c \in Capabilities(m) : Matches(c, e)

\* A module is only given events that one of its capabilities declares, as long as its
\* filter says something about each dimension that a capability allowing it restricts.
NamedIsCovered ==
  \A d \in seen :
    (\A c \in Capabilities(module) : Allows(c, d[1].interest) => NamesAll(d[1].interest, c))
      => Heard(module, d[2])

\* Every event a module is given is declared by one of its capabilities.
Covered == \A d \in seen : Heard(module, d[2])

OnRoute(e) == Route(module) = {} \/ ContainsSource(Route(module), e.source)

\* A declared handler is given events of its module's route only.
HandlersStayOnRoute == \A d \in seen : d[1].by = "handler" => OnRoute(d[2])

\* A routed module is given events of its route only.
RouteConfines == \A d \in seen : OnRoute(d[2])

\* Once registered, each declared handler has a subscription that is given every event
\* of the module's route that the handler's capability declares.
HandlersMissNothing ==
  phase = "registered" =>
    \A n \in DOMAIN module.handlers : \E s \in subs : \A e \in Events :
      (Matches(module.handlers[n], e) /\ OnRoute(e)) => Matches(s.interest, e)
=============================================================================
