------------------------------ MODULE Assembly ------------------------------
(***************************************************************************)
(* From a configuration file to a running bot and back to the platform:     *)
(* cmd/bot/app.go reads and validates the configuration, builds the kernel, *)
(* the drivers (internal/driver/runtime.go, builtin.go), their dispatchers, *)
(* and registers services and modules; whatever a module then sends goes    *)
(* through the module's sink (internal/kernel/runtime.go) to one driver.    *)
(*                                                                         *)
(* An optional value is a set with at most one element; a blank text is     *)
(* Empty.  A setting is a number, below one when the file's text is not a   *)
(* positive duration or number.                                            *)
(***************************************************************************)
EXTENDS Integers, Sequences, SequencesExt, FiniteSets

Empty == ""
Ref(platform, id) == [platform |-> platform, id |-> id]
The(option) == CHOOSE x \in option : TRUE

-----------------------------------------------------------------------------
(* The configuration file: applyConfigFile and parseModuleRoute.            *)

Setting(raw, default) == IF raw = {} THEN default ELSE The(raw)

Defaults == [lifecycle |-> 3, handler |-> 3, shutdown |-> 10, buffer |-> 256, workers |-> 2]

RouteParses(r) ==
  /\ r.sources # {} /\ r.sink # {}
  /\ Ref(Empty, Empty) \notin r.sources \cup r.sink

Parses(raw) ==
  /\ \A s \in DOMAIN Defaults : Setting(raw.settings[s], Defaults[s]) > 0
  /\ \A d \in ToSet(raw.drivers) : d.config # {}
  /\ \A r \in raw.default : RouteParses(r)
  /\ \A m \in DOMAIN raw.routes : RouteParses(raw.routes[m])

Parsed(raw) ==
  [settings |-> [s \in DOMAIN Defaults |-> Setting(raw.settings[s], Defaults[s])],
   drivers  |-> [n \in DOMAIN raw.drivers |->
                   [raw.drivers[n] EXCEPT !.enabled = Setting(@, TRUE)]],
   default  |-> raw.default,
   routes   |-> raw.routes,
   configs  |-> raw.configs,
   managed  |-> Setting(raw.managed, FALSE),
   token    |-> raw.token,
   allowed  |-> raw.allowed \ {Empty},
   bypass   |-> raw.bypass \ {Empty}]

-----------------------------------------------------------------------------
(* NewBuiltinRegistry, and validateAppConfig with the default it derives.   *)

PlatformForType == [telegram |-> "telegram", discord |-> "discord"]

\* runtimeModules, in the order of their registration, and what each one
\* takes from the service registry and puts into it in OnRegister
RuntimeModules ==
  << [name |-> "eventcache",    uses |-> {"logger", "sink"}, provides |-> {"memory"}],
     [name |-> "llmruntime",    uses |-> {"logger"},
      provides |-> {"runtime_config", "llm_providers", "embedding_providers"}],
     [name |-> "semanticstore", uses |-> {"logger", "runtime_config"}, provides |-> {"semantic_store"}],
     [name |-> "quotehelper",   uses |-> {"sink", "memory"}, provides |-> {}],
     [name |-> "duel",          uses |-> {"sink", "moderation", "memory"}, provides |-> {}],
     [name |-> "nbnhhsh",       uses |-> {"sink", "memory"}, provides |-> {}],
     [name |-> "pingpong",      uses |-> {"sink"}, provides |-> {}],
     [name |-> "help",          uses |-> {"sink", "command_catalog"}, provides |-> {}],
     [name |-> "sleep",         uses |-> {"sink", "moderation"}, provides |-> {}],
     [name |-> "memory",
      uses |-> {"logger", "runtime_config", "semantic_store", "memory", "llm_providers",
                "embedding_providers"},
      provides |-> {"semantic_retriever"}],
     [name |-> "llmchat",
      uses |-> {"logger", "runtime_config", "llm_providers", "sink", "memory", "markdown", "media",
                "semantic_retriever"},
      provides |-> {}],
     [name |-> "whoami",        uses |-> {"sink"}, provides |-> {}] >>

ModuleNames == {RuntimeModules[n].name : n \in DOMAIN RuntimeModules}

\* a set, since Valid accepts no two enabled drivers of one name
Enabled(cfg) == {d \in ToSet(cfg.drivers) : d.enabled}
EnabledNames(cfg) == {d.name : d \in Enabled(cfg)}

\* only the ids of a route are looked up, not its platforms
RouteRefsKnown(cfg, r) ==
  \A ref \in r.sources \cup r.sink : ref.id = Empty \/ ref.id \in EnabledNames(cfg)

Valid(cfg) ==
  /\ \A n \in DOMAIN cfg.drivers :
       LET d == cfg.drivers[n]
       IN /\ d.name # Empty /\ d.type # Empty
          /\ \A k \in 1..(n - 1) : cfg.drivers[k].enabled => cfg.drivers[k].name # d.name
          /\ d.enabled => d.type \in DOMAIN PlatformForType
  /\ Enabled(cfg) # {}
  /\ DOMAIN cfg.routes \subseteq ModuleNames
  /\ cfg.configs \cap {"llmchat", "memory", "semanticstore"} = {}
  /\ \A m \in DOMAIN cfg.routes : RouteRefsKnown(cfg, cfg.routes[m])
  /\ \A r \in cfg.default : RouteRefsKnown(cfg, r)
  /\ (Cardinality(Enabled(cfg)) > 1 /\ cfg.default = {}) => ModuleNames \subseteq DOMAIN cfg.routes
  /\ cfg.managed => cfg.token # Empty

SoleRoute(d) ==
  LET ref == Ref(PlatformForType[d.type], d.name) IN [sources |-> {ref}, sink |-> {ref}]

WithDefault(cfg) ==
  IF Cardinality(Enabled(cfg)) = 1 /\ cfg.default = {}
  THEN [cfg EXCEPT !.default = {SoleRoute(The(Enabled(cfg)))}] ELSE cfg

Accepted(raw) == Parses(raw) /\ Valid(Parsed(raw))
LoadConfig(raw) == WithDefault(Parsed(raw))

-----------------------------------------------------------------------------
(* The drivers and what they offer: BuildEnabled, both platforms'           *)
(* BuildRuntimeFromConfig with parseRuntimeConfig, the three dispatchers.   *)

\* a driver's own configuration: its settings are positive or left out, and it
\* can log in; a Telegram account is a bot or a phone, not both
DriverConfigParses(d) ==
  /\ The(d.config).settings \subseteq Nat \ {0}
  /\ IF d.type = "telegram"
     THEN The(d.config).app /\ Cardinality(The(d.config).login) = 1 /\ The(d.config).login \subseteq {"bot", "phone"}
     ELSE The(d.config).login = {"bot"}

BuildsEnabled(cfg) == \A d \in Enabled(cfg) : DriverConfigParses(d)

\* each driver serves its events' source, its sink, its media and its moderation
Runtimes(cfg) == {Ref(PlatformForType[d.type], d.name) : d \in Enabled(cfg)}

Resolved(runtimes, ref) ==
  IF ref.id # Empty
  THEN {r \in runtimes : r.id = ref.id /\ ref.platform \in {Empty, r.platform}}
  ELSE LET there == {r \in runtimes : r.platform = ref.platform}
       IN IF Cardinality(there) = 1 THEN there ELSE {}

\* sinkDispatcher.resolve and moderationDispatcher.resolve: the driver, or none
Resolve(runtimes, target) ==
  IF target.sink # {} THEN Resolved(runtimes, The(target.sink))
  ELSE IF Cardinality(runtimes) = 1 THEN runtimes ELSE {}

\* mediaDispatcher.resolve: by the id of the source alone
ResolveMedia(runtimes, source) ==
  {r \in runtimes : r.id = source.id /\ source.platform \in {Empty, r.platform}}

-----------------------------------------------------------------------------
(* What a module says: OutboundTargetFromEvent and withDefaultSink.         *)

TargetFromEvent(event) ==
  [conversation |-> event.conversation,
   sink |-> IF event.source = Ref(Empty, Empty) THEN {} ELSE {event.source}]

\* Mutant: the module's own sink comes first.
RouteSinkFirst(target, sink) == IF sink = {} THEN target ELSE [target EXCEPT !.sink = sink]

WithDefaultSink(target, sink) ==
  IF target.sink # {} \/ sink = {} THEN target ELSE [target EXCEPT !.sink = sink]

\* moduleRouteFor
RouteOf(cfg, m) == IF m \in DOMAIN cfg.routes THEN {cfg.routes[m]} ELSE cfg.default
SinkOf(cfg, m) == UNION {r.sink : r \in RouteOf(cfg, m)}

\* moduleSinkDispatcher, and the moderation dispatcher, which is not wrapped
SendsTo(cfg, m, target) == Resolve(Runtimes(cfg), WithDefaultSink(target, SinkOf(cfg, m)))
ModeratesAt(cfg, target) == Resolve(Runtimes(cfg), target)

-----------------------------------------------------------------------------
(* run: the services there are when the modules are registered, in order.   *)

KernelServices == {"command_catalog", "markdown"}
ServicesOf(cfg) ==
  KernelServices \cup {"logger", "sink", "media", "moderation"}
    \cup (IF cfg.managed THEN {"recorder", "query"} ELSE {})

ServicesBefore(cfg, n) ==
  ServicesOf(cfg) \cup UNION {RuntimeModules[k].provides : k \in 1..(n - 1)}
ModulesRegister(cfg) ==
  \A n \in DOMAIN RuntimeModules : RuntimeModules[n].uses \subseteq ServicesBefore(cfg, n)

\* run gets as far as the kernel's Run; the management server is one more driver, and
\* RegisterDriver takes a name only once
Starts(cfg) ==
  /\ BuildsEnabled(cfg) /\ ModulesRegister(cfg)
  /\ cfg.managed => "management-http" \notin EnabledNames(cfg)

-----------------------------------------------------------------------------
(* What an accepted configuration gives.                                    *)

EventsOf(cfg) == [source : Runtimes(cfg), conversation : {"c"}]

\* what a module answers, mutes or downloads goes to the driver that the event
\* came from, whatever the routes say
AnswersGoHome(cfg) ==
  \A e \in EventsOf(cfg), m \in ModuleNames :
    LET target == TargetFromEvent(e)
    IN /\ SendsTo(cfg, m, target) = {e.source}
       /\ ModeratesAt(cfg, target) = {e.source}
       /\ ResolveMedia(Runtimes(cfg), e.source) = {e.source}

\* what a module says of its own accord goes where its route says, if the route
\* names a driver by id and not by the wrong platform
RoutesResolve(cfg) ==
  \A m \in ModuleNames : \A s \in SinkOf(cfg, m) :
    LET there == SendsTo(cfg, m, [conversation |-> "c", sink |-> {}])
    IN /\ \A r \in there : s.id \in {Empty, r.id} /\ s.platform \in {Empty, r.platform}
       /\ s.id # Empty /\ s.platform = Empty => there # {}

\* every module has one route, its own or the default
ModulesAreRouted(cfg) == \A m \in ModuleNames : Cardinality(RouteOf(cfg, m)) = 1
=============================================================================
