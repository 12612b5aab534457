--------------------------- MODULE DecisionProofs ---------------------------
(***************************************************************************)
(* What the bot decides from one input, for every input of the form that   *)
(* the platforms, the providers and the readers of files give it            *)
(* (InputsAssumption): a file that is accepted gives routes, services,      *)
(* sinks and agents that fit together; what failed is tried again within    *)
(* the bounds and at the time that was asked for; updates of any length     *)
(* decode to valid events with entities on the same runes; a command is     *)
(* understood the same when it is written again, and its usage binds.       *)
(* The loops are folds, and what they keep comes from FoldLaws.             *)
(***************************************************************************)
EXTENDS Decisions, FiniteSetTheorems, TLAPS

\* Whatever is taken is an input of its scene.
LEMMA AlwaysLooked == DecisionSpec => []Looked
<1>1. Looked /\ UNCHANGED <<scene, input>> => Looked'
  BY DEF Looked
<1> QED  BY <1>1, PTL DEF DecisionSpec

-----------------------------------------------------------------------------
(* Configuration files.                                                      *)

\* A module that is instantiated brings its own names of the library's operators.
LEMMA SameCardinality ==
  \A S : A!Cardinality(S) = Cardinality(S)
  BY DEF A!Cardinality, Cardinality

(* The modules find every service they ask for: whoever registers before     *)
(* a module, and the kernel, provide what the module uses.                   *)
LEMMA ServicesAreThere ==
  ASSUME NEW cfg
  PROVE  A!ModulesRegister(cfg)
<1> DEFINE M == A!RuntimeModules
<1>1. DOMAIN M = 1..12
  BY DEF A!RuntimeModules
<1>2. \A n \in 1..12 : {"command_catalog", "markdown", "logger", "sink", "media", "moderation"}
        \subseteq A!ServicesBefore(cfg, n)
  BY DEF A!ServicesBefore, A!ServicesOf, A!KernelServices
<1>3. \A n \in 2..12 : "memory" \in A!ServicesBefore(cfg, n)
  <2>1. "memory" \in M[1].provides
    BY DEF A!RuntimeModules
  <2> QED  BY <2>1 DEF A!ServicesBefore
<1>4. \A n \in 3..12 : {"runtime_config", "llm_providers", "embedding_providers"}
        \subseteq A!ServicesBefore(cfg, n)
  <2>1. {"runtime_config", "llm_providers", "embedding_providers"} \subseteq M[2].provides
    BY DEF A!RuntimeModules
  <2> QED  BY <2>1 DEF A!ServicesBefore
<1>5. \A n \in 4..12 : "semantic_store" \in A!ServicesBefore(cfg, n)
  <2>1. "semantic_store" \in M[3].provides
    BY DEF A!RuntimeModules
  <2> QED  BY <2>1 DEF A!ServicesBefore
<1>6. \A n \in 11..12 : "semantic_retriever" \in A!ServicesBefore(cfg, n)
  <2>1. "semantic_retriever" \in M[10].provides
    BY DEF A!RuntimeModules
  <2> QED  BY <2>1 DEF A!ServicesBefore
<1>7. /\ M[1].uses = {"logger", "sink"} /\ M[2].uses = {"logger"}
      /\ M[3].uses = {"logger", "runtime_config"} /\ M[4].uses = {"sink", "memory"}
      /\ M[5].uses = {"sink", "moderation", "memory"} /\ M[6].uses = {"sink", "memory"}
      /\ M[7].uses = {"sink"} /\ M[8].uses = {"sink", "command_catalog"}
      /\ M[9].uses = {"sink", "moderation"}
      /\ M[10].uses = {"logger", "runtime_config", "semantic_store", "memory", "llm_providers",
                       "embedding_providers"}
      /\ M[11].uses = {"logger", "runtime_config", "llm_providers", "sink", "memory", "markdown",
                       "media", "semantic_retriever"}
      /\ M[12].uses = {"sink"}
  BY DEF A!RuntimeModules
<1> HIDE DEF M
<1>8. ASSUME NEW n \in 1..12 PROVE M[n].uses \subseteq A!ServicesBefore(cfg, n)
  <2>1. n \in {1, 2} => M[n].uses \subseteq A!ServicesBefore(cfg, n)
    BY <1>2, <1>7
  <2>2. n \in {4, 5, 6, 7, 8, 9, 12} => M[n].uses \subseteq A!ServicesBefore(cfg, n)
    BY <1>2, <1>3, <1>7
  <2>3. n = 3 => M[n].uses \subseteq A!ServicesBefore(cfg, n)
    BY <1>2, <1>4, <1>7
  <2>4. n = 10 => M[n].uses \subseteq A!ServicesBefore(cfg, n)
    BY <1>2, <1>3, <1>4, <1>5, <1>7
  <2>5. n = 11 => M[n].uses \subseteq A!ServicesBefore(cfg, n)
    BY <1>2, <1>3, <1>4, <1>6, <1>7
  <2> QED  BY <2>1, <2>2, <2>3, <2>4, <2>5
<1> QED  BY <1>1, <1>8 DEF A!ModulesRegister, M

(* What an accepted configuration file comes to, part by part.               *)
LEMMA AcceptedConfig ==
  ASSUME NEW f, FileForm(f), A!Accepted(f), NEW cfg, cfg = A!LoadConfig(f)
  PROVE  /\ \A d \in A!Enabled(cfg) : d.name # A!Empty /\ d.type \in {"telegram", "discord"}
         /\ \A m \in A!ModuleNames : A!Cardinality(A!RouteOf(cfg, m)) = 1
         /\ \A m \in A!ModuleNames : \A s, t \in A!SinkOf(cfg, m) : s = t
         /\ \A m \in A!ModuleNames : \A s \in A!SinkOf(cfg, m) :
              s.id = A!Empty \/ s.id \in A!EnabledNames(cfg)
<1> DEFINE p == A!Parsed(f)
           E == A!Enabled(p)
<1>1. A!Valid(p) /\ A!Parses(f)
  BY DEF A!Accepted
<1>2. A!Enabled(cfg) = E /\ cfg.routes = p.routes
  BY DEF A!LoadConfig, A!WithDefault, A!Enabled, A!Parsed
<1>3. \A d \in E : d.name # A!Empty /\ d.type \in {"telegram", "discord"}
  BY <1>1 DEF A!Valid, A!Enabled, A!ToSet, A!PlatformForType
<1>4. IsFiniteSet(E) /\ E # {}
  <2>1. DOMAIN p.drivers = 1..Len(f.drivers) /\ Len(f.drivers) \in Nat
    BY DEF A!Parsed, FileForm, List
  <2>2. IsFiniteSet(A!ToSet(p.drivers))
    <3>1. IsFiniteSet(1..Len(f.drivers))
      BY <2>1, FS_Interval
    <3> DEFINE ds == p.drivers
               T == {ds[n] : n \in 1..Len(f.drivers)}
               g == [n \in 1..Len(f.drivers) |-> ds[n]]
    <3> HIDE DEF ds
    <3>2. g \in Surjection(1..Len(f.drivers), T)
      BY DEF Surjection
    <3> HIDE DEF g, T
    <3>3. IsFiniteSet(T)
      BY <3>1, <3>2, FS_Surjection
    <3> QED  BY <2>1, <3>3 DEF A!ToSet, ds, T
  <2>3. IsFiniteSet(E)
    BY <2>2, FS_Subset DEF A!Enabled
  <2> QED  BY <1>1, <2>3 DEF A!Valid
<1>5. Cardinality(E) \in Nat /\ Cardinality(E) # 0
  BY <1>4, FS_CardinalityType, FS_EmptySet
<1>6. \A m \in A!ModuleNames :
        m \in DOMAIN p.routes \/ p.default # {} \/ Cardinality(E) = 1
  <2>1. (Cardinality(E) > 1 /\ p.default = {}) => A!ModuleNames \subseteq DOMAIN p.routes
    <3> HIDE DEF p
    <3> QED  BY <1>1, SameCardinality DEF A!Valid
  <2> QED  BY <1>5, <2>1
<1>7. \E d \in E : Cardinality(E) = 1 => A!The(E) = d
  BY <1>4 DEF A!The
<1>8. PICK d \in E : Cardinality(E) = 1 => A!The(E) = d
  BY <1>7
<1> DEFINE sole == A!SoleRoute(d)
<1>9. cfg.default = IF Cardinality(E) = 1 /\ p.default = {} THEN {sole} ELSE p.default
  <2>1. cfg = A!WithDefault(p)
    BY DEF A!LoadConfig
  <2>2. p = [p EXCEPT !.default = p.default] /\ "default" \in DOMAIN p
    BY DEF A!Parsed
  <2> HIDE DEF p
  <2> QED  BY <1>8, <2>1, <2>2, SameCardinality DEF A!WithDefault
<1>10. p.default = f.default /\ p.routes = f.routes
  BY DEF A!Parsed
<1>11. \A m \in A!ModuleNames : \E r : A!RouteOf(cfg, m) = {r}
  <2> SUFFICES ASSUME NEW m \in A!ModuleNames PROVE \E r : A!RouteOf(cfg, m) = {r}
    OBVIOUS
  <2>1. CASE m \in DOMAIN p.routes
    BY <1>2, <2>1 DEF A!RouteOf
  <2>2. CASE m \notin DOMAIN p.routes /\ p.default # {}
    <3>1. A!RouteOf(cfg, m) = f.default
      BY <1>2, <1>9, <1>10, <2>2 DEF A!RouteOf
    <3>2. PICK r : r \in f.default
      BY <1>10, <2>2
    <3>3. f.default = {r}
      BY <3>2 DEF FileForm, Optional
    <3> QED  BY <3>1, <3>3
  <2>3. CASE m \notin DOMAIN p.routes /\ p.default = {}
    <3>1. Cardinality(E) = 1
      BY <1>6, <2>3
    <3> QED  BY <1>2, <1>9, <2>3, <3>1 DEF A!RouteOf
  <2> QED  BY <2>1, <2>2, <2>3
<1>12. \A m \in A!ModuleNames : \A r \in A!RouteOf(cfg, m) :
         r \in f.default \cup {f.routes[k] : k \in DOMAIN f.routes} \/ r = sole
  BY <1>2, <1>9, <1>10 DEF A!RouteOf
<1>13. \A s \in sole.sink : s = A!Ref(A!PlatformForType[d.type], d.name)
  BY DEF A!SoleRoute
<1>14. \A r \in f.default \cup {f.routes[k] : k \in DOMAIN f.routes} :
         \A s \in r.sink : s.id = A!Empty \/ s.id \in A!EnabledNames(cfg)
  <2>1. \A r \in f.default : A!RouteRefsKnown(p, r)
    BY <1>1, <1>10 DEF A!Valid
  <2>2. \A k \in DOMAIN f.routes : A!RouteRefsKnown(p, f.routes[k])
    BY <1>1, <1>10 DEF A!Valid
  <2>3. A!EnabledNames(cfg) = A!EnabledNames(p)
    BY <1>2 DEF A!EnabledNames
  <2> HIDE DEF p
  <2> QED  BY <2>1, <2>2, <2>3 DEF A!RouteRefsKnown
<1>15. d.name \in A!EnabledNames(cfg)
  BY <1>2 DEF A!EnabledNames
<1> HIDE DEF p, E, sole
<1>16. \A m \in A!ModuleNames : Cardinality(A!RouteOf(cfg, m)) = 1
  BY <1>11, FS_Singleton
<1>22. \A m \in A!ModuleNames : A!Cardinality(A!RouteOf(cfg, m)) = 1
  BY <1>16, SameCardinality
<1>17. \A r : r \in f.default \cup {f.routes[k] : k \in DOMAIN f.routes} \/ r = sole =>
         \A s, t \in r.sink : s = t
  BY <1>13 DEF FileForm, Optional
<1>18. \A r : r \in f.default \cup {f.routes[k] : k \in DOMAIN f.routes} \/ r = sole =>
         \A s \in r.sink : s.id = A!Empty \/ s.id \in A!EnabledNames(cfg)
  <2>1. A!Ref(A!PlatformForType[d.type], d.name).id = d.name
    BY DEF A!Ref
  <2> QED  BY <1>13, <1>14, <1>15, <2>1
<1>19. ASSUME NEW m \in A!ModuleNames
       PROVE  \E r : A!SinkOf(cfg, m) = r.sink
                     /\ (r \in f.default \cup {f.routes[k] : k \in DOMAIN f.routes} \/ r = sole)
  <2>1. PICK r : A!RouteOf(cfg, m) = {r}
    BY <1>11
  <2>2. A!SinkOf(cfg, m) = r.sink
    BY <2>1 DEF A!SinkOf
  <2> QED  BY <1>12, <2>1, <2>2
<1>20. \A m \in A!ModuleNames : \A s, t \in A!SinkOf(cfg, m) : s = t
  BY <1>17, <1>19
<1>21. \A m \in A!ModuleNames : \A s \in A!SinkOf(cfg, m) :
         s.id = A!Empty \/ s.id \in A!EnabledNames(cfg)
  BY <1>18, <1>19
<1> QED  BY <1>2, <1>3, <1>22, <1>20, <1>21

(* What a module answers goes home: the driver the event came from has the   *)
(* event's source for its reference, and no other driver has.                *)
LEMMA HomeIsFound ==
  ASSUME NEW cfg,
         \A d \in A!Enabled(cfg) : d.name # A!Empty /\ d.type \in {"telegram", "discord"}
  PROVE  A!AnswersGoHome(cfg)
<1> DEFINE Rs == A!Runtimes(cfg)
<1>1. \A r \in Rs : /\ r = [platform |-> r.platform, id |-> r.id]
                    /\ r.id # "" /\ r.platform # ""
  <2> SUFFICES ASSUME NEW r \in Rs
               PROVE  r = [platform |-> r.platform, id |-> r.id] /\ r.id # "" /\ r.platform # ""
    OBVIOUS
  <2>1. PICK d \in A!Enabled(cfg) : r = A!Ref(A!PlatformForType[d.type], d.name)
    BY DEF A!Runtimes
  <2>2. r = [platform |-> A!PlatformForType[d.type], id |-> d.name]
    BY <2>1 DEF A!Ref
  <2>3. d.name # "" /\ d.type \in {"telegram", "discord"}
    BY DEF A!Empty
  <2>4. \A t \in {"telegram", "discord"} : A!PlatformForType[t] = t
    BY DEF A!PlatformForType
  <2> QED  BY <2>2, <2>3, <2>4
<1> HIDE DEF Rs
<1>2. ASSUME NEW e \in A!EventsOf(cfg), NEW m \in A!ModuleNames
      PROVE  LET target == A!TargetFromEvent(e)
             IN /\ A!SendsTo(cfg, m, target) = {e.source}
                /\ A!ModeratesAt(cfg, target) = {e.source}
                /\ A!ResolveMedia(A!Runtimes(cfg), e.source) = {e.source}
  <2> DEFINE s == e.source  target == A!TargetFromEvent(e)
  <2>1. s \in Rs
    BY DEF A!EventsOf, Rs
  <2>2. \A r \in Rs : r.id = s.id /\ s.platform \in {"", r.platform} => r = s
    BY <1>1, <2>1
  <2>3. A!Resolved(Rs, s) = {s} /\ A!ResolveMedia(Rs, s) = {s}
    BY <1>1, <2>1, <2>2 DEF A!Resolved, A!ResolveMedia, A!Empty
  <2>4. s # A!Ref(A!Empty, A!Empty)
    BY <1>1, <2>1 DEF A!Ref, A!Empty
  <2>5. target.sink = {s}
    BY <2>4 DEF A!TargetFromEvent
  <2> HIDE DEF s, target
  <2>6. A!Resolve(Rs, target) = {s}
    BY <2>3, <2>5 DEF A!Resolve, A!The
  <2>7. \A sink : A!WithDefaultSink(target, sink) = target
    BY <2>5 DEF A!WithDefaultSink
  <2> QED  BY <2>3, <2>6, <2>7 DEF A!SendsTo, A!ModeratesAt, Rs, s, target
<1> QED  BY <1>2 DEF A!AnswersGoHome

(* What a module says unasked goes where its route says.                     *)
LEMMA RouteIsFollowed ==
  ASSUME NEW cfg,
         \A m \in A!ModuleNames : \A s, t \in A!SinkOf(cfg, m) : s = t,
         \A m \in A!ModuleNames : \A s \in A!SinkOf(cfg, m) :
           s.id = A!Empty \/ s.id \in A!EnabledNames(cfg)
  PROVE  A!RoutesResolve(cfg)
<1> DEFINE Rs == A!Runtimes(cfg)
<1>1. ASSUME NEW m \in A!ModuleNames, NEW s \in A!SinkOf(cfg, m)
      PROVE  LET there == A!SendsTo(cfg, m, [conversation |-> "c", sink |-> {}])
             IN /\ \A r \in there : s.id \in {A!Empty, r.id} /\ s.platform \in {A!Empty, r.platform}
                /\ s.id # A!Empty /\ s.platform = A!Empty => there # {}
  <2>1. A!SinkOf(cfg, m) = {s}
    OBVIOUS
  <2>2. A!SendsTo(cfg, m, [conversation |-> "c", sink |-> {}]) = A!Resolved(Rs, s)
    BY <2>1 DEF A!SendsTo, A!WithDefaultSink, A!Resolve, A!The
  <2>3. \A r \in A!Resolved(Rs, s) :
          s.id \in {A!Empty, r.id} /\ s.platform \in {A!Empty, r.platform}
    <3> HIDE DEF Rs
    <3> QED  BY DEF A!Resolved
  <2>4. ASSUME s.id # A!Empty, s.platform = A!Empty PROVE A!Resolved(Rs, s) # {}
    <3>1. PICK d \in A!Enabled(cfg) : d.name = s.id
      BY <2>4 DEF A!EnabledNames
    <3> DEFINE r == A!Ref(A!PlatformForType[d.type], d.name)
    <3>2. r \in Rs /\ r.id = s.id
      BY <3>1 DEF A!Runtimes, A!Ref
    <3> HIDE DEF r, Rs
    <3>3. r \in A!Resolved(Rs, s)
      BY <2>4, <3>2 DEF A!Resolved
    <3> QED  BY <3>3
  <2> QED  BY <2>2, <2>3, <2>4
<1> QED  BY <1>1 DEF A!RoutesResolve

LEMMA ConfigIsSound ==
  ASSUME NEW f, FileForm(f), A!Accepted(f), NEW cfg, cfg = A!LoadConfig(f)
  PROVE  A!ModulesAreRouted(cfg) /\ A!AnswersGoHome(cfg) /\ A!RoutesResolve(cfg)
<1>1. /\ \A d \in A!Enabled(cfg) : d.name # A!Empty /\ d.type \in {"telegram", "discord"}
      /\ \A m \in A!ModuleNames : A!Cardinality(A!RouteOf(cfg, m)) = 1
      /\ \A m \in A!ModuleNames : \A s, t \in A!SinkOf(cfg, m) : s = t
      /\ \A m \in A!ModuleNames : \A s \in A!SinkOf(cfg, m) :
           s.id = A!Empty \/ s.id \in A!EnabledNames(cfg)
  BY AcceptedConfig
<1>2. A!ModulesAreRouted(cfg)
  BY <1>1 DEF A!ModulesAreRouted
<1>3. A!AnswersGoHome(cfg)
  BY <1>1, HomeIsFound
<1>4. A!RoutesResolve(cfg)
  BY <1>1, RouteIsFollowed
<1> QED  BY <1>2, <1>3, <1>4

-----------------------------------------------------------------------------
(* The agents' file.                                                         *)

(* A profile that is parsed and valid is one the providers are built from,   *)
(* unless its thinking budget is too large for a request.                    *)
LEMMA ProfilesBuild ==
  ASSUME NEW p, L!ValidProvider(p), \A g \in p.gemini : g.budget \subseteq Int, MaxBudget \in Int
  PROVE  /\ L!EmbeddingBuilds(p)
         /\ L!ProviderBuilds(p) \/ \E g \in p.gemini : \E b \in g.budget : b > MaxBudget
<1>1. L!EmbeddingBuilds(p)
  BY DEF L!ValidProvider, L!EmbeddingBuilds, L!ValidGemini
<1>2. ASSUME ~\E g \in p.gemini : \E b \in g.budget : b > MaxBudget
      PROVE  L!ProviderBuilds(p)
  <2>1. \A g \in p.gemini : \A b \in g.budget : b <= MaxBudget
    BY <1>2
  <2> QED  BY <2>1 DEF L!ValidProvider, L!ProviderBuilds
<1> QED  BY <1>1, <1>2

(* Defaults are settled once: what was parsed is not changed by parsing it   *)
(* once more.                                                                *)
LEMMA ContextIsSettled ==
  ASSUME NEW raw
  PROVE  L!ResolveContext(L!ParseContext(raw)) = L!ParseContext(raw)
<1>1. \A p : L!ResolveContext(L!ResolveContext(p)) = L!ResolveContext(p)
  <2> SUFFICES ASSUME NEW p
               PROVE  L!ResolveContext(L!ResolveContext(p)) = L!ResolveContext(p)
    OBVIOUS
  <2> DEFINE q == L!ResolveContext(p)
  <2>1. \A f \in DOMAIN L!ContextDefaults : L!ContextDefaults[f] # 0
    BY DEF L!ContextDefaults
  <2>2. \A f \in L!ContextFields : f \in DOMAIN L!ContextDefaults => q[f] # 0
    BY <2>1 DEF L!ResolveContext
  <2>3. q = [f \in L!ContextFields |-> q[f]]
    BY DEF L!ResolveContext
  <2>4. \A f \in L!ContextFields : (IF f \in DOMAIN L!ContextDefaults /\ q[f] = 0
                                    THEN L!ContextDefaults[f] ELSE q[f]) = q[f]
    BY <2>2
  <2> HIDE DEF q
  <2>5. L!ResolveContext(q) = [f \in L!ContextFields |-> q[f]]
    BY <2>4 DEF L!ResolveContext
  <2> QED  BY <2>3, <2>5 DEF q
<1> QED  BY <1>1 DEF L!ParseContext

\* Three or all four of the settings are set.
Three(r, x, y, z) == [r EXCEPT !.max = x, !.each = y, !.total = z]
All(r, x, y, z, w) == [r EXCEPT !.max = x, !.each = y, !.total = z, !.detail = w]

LEMMA SettingsAreSet ==
  ASSUME NEW e, NEW a, NEW b, NEW c, NEW d, NEW x, NEW y, NEW z, NEW w,
         NEW r, r = [enabled |-> e, max |-> a, each |-> b, total |-> c, detail |-> d]
  PROVE  /\ Three(r, x, y, z) =
              [enabled |-> e, max |-> x, each |-> y, total |-> z, detail |-> d]
         /\ All(r, x, y, z, w) =
              [enabled |-> e, max |-> x, each |-> y, total |-> z, detail |-> w]
<1> DEFINE r1 == [r EXCEPT !.max = x]
           r2 == [r1 EXCEPT !.each = y]
           r3 == [r2 EXCEPT !.total = z]
<1>1. r1 = [enabled |-> e, max |-> x, each |-> b, total |-> c, detail |-> d]
  OBVIOUS
<1>2. r2 = [enabled |-> e, max |-> x, each |-> y, total |-> c, detail |-> d]
  <2> HIDE DEF r1
  <2> QED  BY <1>1
<1>3. r3 = [enabled |-> e, max |-> x, each |-> y, total |-> z, detail |-> d]
  <2> HIDE DEF r2
  <2> QED  BY <1>2
<1>4. [r3 EXCEPT !.detail = w] = [enabled |-> e, max |-> x, each |-> y, total |-> z, detail |-> w]
  <2> HIDE DEF r3
  <2> QED  BY <1>3
<1> QED  BY <1>3, <1>4, Zenon DEF Three, All

LEMMA ImagesAreSettled ==
  ASSUME NEW raw, raw \subseteq ImagesForm
  PROVE  L!ResolveImages(L!ParseImages(raw)) = L!ParseImages(raw)
<1>1. ASSUME NEW e, NEW a, NEW b, NEW c, NEW d,
             NEW p, p = [enabled |-> e, max |-> a, each |-> b, total |-> c, detail |-> d]
      PROVE  L!ResolveImages(L!ResolveImages(p)) = L!ResolveImages(p)
  <2>1. CASE ~e
    BY <1>1, <2>1 DEF L!ResolveImages
  <2>2. CASE e
    <3>1. L!ResolveImages(p) =
            [enabled |-> e, max |-> IF a = 0 THEN 3 ELSE a, each |-> IF b = 0 THEN 10 ELSE b,
             total |-> IF c = 0 THEN 20 ELSE c, detail |-> IF d = "" THEN "auto" ELSE d]
      BY <1>1, <2>2 DEF L!ResolveImages
    <3> DEFINE x == IF a = 0 THEN 3 ELSE a  y == IF b = 0 THEN 10 ELSE b
               z == IF c = 0 THEN 20 ELSE c  w == IF d = "" THEN "auto" ELSE d
               q == [enabled |-> e, max |-> x, each |-> y, total |-> z, detail |-> w]
    <3>2. x # 0 /\ y # 0 /\ z # 0 /\ w # ""
      <4>1. x # 0
        BY Z3
      <4>2. y # 0
        BY Z3
      <4>3. z # 0
        BY Z3
      <4>4. w # ""
        <5>1. CASE d = ""
          BY <5>1
        <5>2. CASE d # ""
          BY <5>2
        <5> QED  BY <5>1, <5>2
      <4> QED  BY <4>1, <4>2, <4>3, <4>4
    <3> HIDE DEF x, y, z, w
    <3>3. L!ResolveImages(q) = All(q, x, y, z, w)
      BY <2>2, <3>2 DEF L!ResolveImages, All
    <3>4. All(q, x, y, z, w) = q
      <4>1. q = [enabled |-> e, max |-> x, each |-> y, total |-> z, detail |-> w]
        OBVIOUS
      <4> HIDE DEF q
      <4>2. All(q, x, y, z, w) =
              [enabled |-> e, max |-> x, each |-> y, total |-> z, detail |-> w]
        BY <4>1, SettingsAreSet
      <4> QED  BY <4>1, <4>2
    <3> QED  BY <3>1, <3>3, <3>4 DEF x, y, z, w
  <2> QED  BY <2>1, <2>2
<1>2. CASE raw = {}
  BY <1>2 DEF L!ParseImages, L!NoImages, L!ResolveImages
<1>3. CASE raw # {}
  <2> DEFINE r == L!Only(raw)
  <2>1. r \in ImagesForm
    BY <1>3 DEF L!Only
  <2>2. r = [enabled |-> r.enabled, max |-> r.max, each |-> r.each, total |-> r.total,
             detail |-> r.detail]
    BY <2>1 DEF ImagesForm
  <2> HIDE DEF r
  <2>3. [r EXCEPT !.max = L!Or(@, 0), !.each = L!Or(@, 0), !.total = L!Or(@, 0)] =
          [enabled |-> r.enabled, max |-> L!Or(r.max, 0), each |-> L!Or(r.each, 0),
           total |-> L!Or(r.total, 0), detail |-> r.detail]
    <3> DEFINE x == L!Or(r.max, 0)  y == L!Or(r.each, 0)  z == L!Or(r.total, 0)
    <3> HIDE DEF x, y, z
    <3>1. Three(r, x, y, z) =
            [enabled |-> r.enabled, max |-> x, each |-> y, total |-> z, detail |-> r.detail]
      BY <2>2, SettingsAreSet
    <3> QED  BY <3>1 DEF x, y, z, Three
  <2>4. L!ParseImages(raw) =
          L!ResolveImages([enabled |-> r.enabled, max |-> L!Or(r.max, 0),
                           each |-> L!Or(r.each, 0), total |-> L!Or(r.total, 0),
                           detail |-> r.detail])
    BY <1>3, <2>3 DEF L!ParseImages, r
  <2> QED  BY <2>4, <1>1
<1> QED  BY <1>2, <1>3

(* A parsed Gemini profile has one set of options, with numbers for budgets. *)
LEMMA ProfileIsParsed ==
  ASSUME NEW raw, {"type", "dims", "gemini"} \subseteq DOMAIN raw,
         Optional(raw.gemini), \A g \in raw.gemini : GeminiForm(g),
         NEW p, p = L!ParseProvider(raw)
  PROVE  /\ \A g \in p.gemini : g.budget \subseteq Int
         /\ p.type = "gemini" => p.gemini # {}
<1> DEFINE g == L!Or(raw.gemini, L!PlainGemini)
           h == L!ParseGemini(raw.gemini)
<1>1. GeminiForm(g)
  <2>1. GeminiForm(L!PlainGemini)
    BY DEF GeminiForm, L!PlainGemini
  <2> QED  BY <2>1 DEF L!Or, L!Only
<1>2. h.budget = g.budget
  <2>1. "budget" \in DOMAIN g
    BY <1>1 DEF GeminiForm, L!PlainGemini
  <2>2. h = [g EXCEPT !.version = IF g.version = "" THEN L!PlainGemini.version ELSE g.version]
    BY DEF L!ParseGemini
  <2> HIDE DEF g, h
  <2> QED  BY <2>1, <2>2
<1> HIDE DEF g, h
<1>3. p.type = raw.type /\ p.gemini = IF raw.type = "gemini" THEN {h} ELSE raw.gemini
  <2> DEFINE x == L!Or(raw.dims, 0)
             y == IF raw.type = "gemini" THEN {h} ELSE raw.gemini
  <2>1. p = [raw EXCEPT !.dims = x, !.gemini = y]
    BY DEF L!ParseProvider, h
  <2> HIDE DEF x, y
  <2>2. p.type = raw.type /\ p.gemini = y
    BY <2>1
  <2> QED  BY <2>2 DEF y
<1>4. h.budget \subseteq Int
  BY <1>1, <1>2 DEF GeminiForm
<1>5. \A x \in raw.gemini : x.budget \subseteq Int
  BY DEF GeminiForm
<1> QED  BY <1>3, <1>4, <1>5

(* An agent whose metadata is well spelled gets its request through: no      *)
(* budget meets a level, of the profile or of the agent.                     *)
LEMMA AgentsCanAsk ==
  ASSUME NEW p, NEW a, p.gemini # {}, L!ThinkingIsClear(p, a)
  PROVE  L!AgentCanAsk(p, a)
<1> DEFINE m == L!RequestMetadata(a.metadata)
           d == L!Only(p.gemini)
           D == DOMAIN a.metadata
<1> SUFFICES ASSUME \A k \in D : L!Trim(k) = k,
                    \A k \in D \cap {L!Search, L!Budget, L!Level} :
                      L!OverridesParse([x \in {k} |-> m[x]])
             PROVE  L!OverridesParse(m) /\ L!Exclusive(L!Effective(d, L!Overrides(m)))
  BY DEF L!AgentCanAsk
<1>1. DOMAIN m = D
  BY DEF L!RequestMetadata
<1> HIDE DEF m
<1>2. L!Search \in D => m[L!Search] \in {"true", "false"}
  <2> SUFFICES ASSUME L!Search \in D PROVE m[L!Search] \in {"true", "false"}
    OBVIOUS
  <2> DEFINE o == [x \in {L!Search} |-> m[x]]
  <2>1. L!OverridesParse(o) /\ L!Search \in DOMAIN o /\ o[L!Search] = m[L!Search]
    OBVIOUS
  <2> HIDE DEF o
  <2> QED  BY <2>1 DEF L!OverridesParse
<1>3. L!Budget \in D => m[L!Budget] \in DOMAIN Numbers /\ Numbers[m[L!Budget]] \in 0..MaxBudget
  <2> SUFFICES ASSUME L!Budget \in D
               PROVE  m[L!Budget] \in DOMAIN Numbers /\ Numbers[m[L!Budget]] \in 0..MaxBudget
    OBVIOUS
  <2> DEFINE o == [x \in {L!Budget} |-> m[x]]
  <2>1. L!OverridesParse(o) /\ L!Budget \in DOMAIN o /\ o[L!Budget] = m[L!Budget]
    OBVIOUS
  <2> HIDE DEF o
  <2> QED  BY <2>1 DEF L!OverridesParse
<1>4. L!Level \in D => m[L!Level] \in L!Levels
  <2> SUFFICES ASSUME L!Level \in D PROVE m[L!Level] \in L!Levels
    OBVIOUS
  <2> DEFINE o == [x \in {L!Level} |-> m[x]]
  <2>1. L!OverridesParse(o) /\ L!Level \in DOMAIN o /\ o[L!Level] = m[L!Level]
    OBVIOUS
  <2> HIDE DEF o
  <2> QED  BY <2>1 DEF L!OverridesParse
<1>5. d \in p.gemini
  BY DEF L!Only
<1>6. ~((L!Budget \in D \/ d.budget # {}) /\ (L!Level \in D \/ d.level # ""))
  BY <1>5 DEF L!ThinkingIsClear
<1>7. L!OverridesParse(m)
  BY <1>1, <1>2, <1>3, <1>4, <1>6 DEF L!OverridesParse
<1> DEFINE o == L!Overrides(m)
<1>8. (o.budget # {} => L!Budget \in D) /\ (o.level # "" => L!Level \in D)
  BY <1>1 DEF L!Overrides
<1> HIDE DEF d, D, o
<1>9. L!Exclusive(L!Effective(d, o))
  BY <1>6, <1>8 DEF L!Exclusive, L!Effective
<1> QED  BY <1>7, <1>9 DEF o

LEMMA AgentsFileIsSound ==
  ASSUME NEW raw, AgentFileForm(raw), MaxBudget \in Int, L!FileAccepted(raw)
  PROVE  L!LlmConfigHolds(raw)
<1> DEFINE cfg == L!Load(raw)
           profiles == {cfg.providers[k] : k \in DOMAIN cfg.providers}
<1>1. L!Validates(cfg)
  BY DEF L!FileAccepted
<1>2. \A p \in profiles : \E n \in DOMAIN raw.providers : p = L!ParseProvider(raw.providers[n].profile)
  <2> SUFFICES ASSUME NEW p \in profiles
               PROVE  \E n \in DOMAIN raw.providers : p = L!ParseProvider(raw.providers[n].profile)
    OBVIOUS
  <2>1. PICK k \in {e.key : e \in L!ToSet(raw.providers)} :
          p = L!ParseProvider((CHOOSE e \in L!ToSet(raw.providers) : e.key = k).profile)
    BY DEF L!Load
  <2>2. \E e \in L!ToSet(raw.providers) : e.key = k
    OBVIOUS
  <2> DEFINE e == CHOOSE e \in L!ToSet(raw.providers) : e.key = k
  <2>3. e \in L!ToSet(raw.providers)
    BY <2>2
  <2>4. p = L!ParseProvider(e.profile)
    BY <2>1
  <2> HIDE DEF e
  <2> QED  BY <2>3, <2>4 DEF L!ToSet
<1>3. \A p \in profiles : L!ValidProvider(p)
  <2> HIDE DEF cfg
  <2> QED  BY <1>1 DEF L!Validates
<1>4. \A p \in profiles : /\ \A g \in p.gemini : g.budget \subseteq Int
                          /\ p.type = "gemini" => p.gemini # {}
  <2> SUFFICES ASSUME NEW p \in profiles
               PROVE  /\ \A g \in p.gemini : g.budget \subseteq Int
                      /\ p.type = "gemini" => p.gemini # {}
    OBVIOUS
  <2>1. PICK n \in DOMAIN raw.providers : p = L!ParseProvider(raw.providers[n].profile)
    BY <1>2
  <2> DEFINE q == raw.providers[n].profile
  <2>2. /\ {"type", "dims", "gemini"} \subseteq DOMAIN q
        /\ Optional(q.gemini) /\ \A g \in q.gemini : GeminiForm(g)
    BY DEF AgentFileForm
  <2> HIDE DEF q
  <2> QED  BY <2>1, <2>2, ProfileIsParsed DEF q
<1>5. cfg.agents = [n \in DOMAIN raw.agents |-> L!ParseAgent(raw.agents[n])]
      /\ cfg.memory = raw.memory
  BY DEF L!Load
<1>6. \A a \in L!ToSet(cfg.agents) :
        a.context = L!ResolveContext(a.context) /\ a.images = L!ResolveImages(a.images)
  <2> SUFFICES ASSUME NEW n \in DOMAIN raw.agents, NEW a, a = L!ParseAgent(raw.agents[n])
               PROVE  a.context = L!ResolveContext(a.context) /\ a.images = L!ResolveImages(a.images)
    BY <1>5 DEF L!ToSet
  <2> DEFINE b == raw.agents[n]
             x == L!Or(b.timeout, 0)  y == L!ParseContext(b.context)  z == L!ParseImages(b.images)
  <2>1. {"timeout", "context", "images", "metadata"} \subseteq DOMAIN b /\ b.images \subseteq ImagesForm
    BY DEF AgentFileForm
  <2>2. a = [b EXCEPT !.timeout = x, !.context = y, !.images = z]
    BY DEF L!ParseAgent
  <2>3. y = L!ResolveContext(y) /\ z = L!ResolveImages(z)
    <3> HIDE DEF b
    <3> QED  BY <2>1, ContextIsSettled, ImagesAreSettled
  <2> HIDE DEF b, x, y, z
  <2>4. a.context = y /\ a.images = z
    BY <2>1, <2>2
  <2> QED  BY <2>3, <2>4
<1> HIDE DEF cfg
<1>7. L!ChatRegisters(cfg)
  <2>1. L!ChatValidates(L!ChatConfig(cfg))
    BY <1>1 DEF L!Validates, L!ChatValidates, L!ChatConfig
  <2>2. \A a \in L!ToSet(cfg.agents) :
          /\ {a.provider} \cup {s.provider : s \in L!ToSet(a.subs)} \subseteq DOMAIN cfg.providers
          /\ a.remembers => cfg.memory # {}
    BY <1>1 DEF L!Validates
  <2> QED  BY <2>1, <2>2 DEF L!ChatRegisters
<1>8. \A p \in profiles :
        /\ L!EmbeddingBuilds(p)
        /\ L!ProviderBuilds(p) \/ \E g \in p.gemini : \E b \in g.budget : b > MaxBudget
  <2> HIDE DEF profiles
  <2> QED  BY <1>3, <1>4, ProfilesBuild
<1>9. \A m \in cfg.memory :
        m.lacks = {} /\ m.extraction \in DOMAIN cfg.providers /\ m.embedding \in DOMAIN cfg.providers
  BY <1>1 DEF L!Validates, L!ValidMemory
<1>10. L!StoreLoads(cfg) <=> L!MemoryLoads(cfg)
  BY <1>9 DEF L!StoreLoads, L!MemoryLoads
<1>11. L!StoreLoads(cfg) => \A m \in cfg.memory :
         L!VectorSpace(cfg, m) = L!EmbeddingDefaults(cfg.providers[m.embedding])
  <2> SUFFICES ASSUME L!StoreLoads(cfg), NEW m \in cfg.memory
               PROVE  L!VectorSpace(cfg, m) = L!EmbeddingDefaults(cfg.providers[m.embedding])
    OBVIOUS
  <2> DEFINE p == cfg.providers[m.embedding]
  <2>1. L!VectorSpace(cfg, m) = [model |-> p.model, dims |-> p.dims]
    BY DEF L!VectorSpace
  <2> HIDE DEF p
  <2>2. p.model # "" /\ p.dims > 0
    <3> DEFINE v == L!VectorSpace(cfg, m)
    <3>1. v.model # "" /\ v.dims > 0
      BY DEF L!StoreLoads
    <3> HIDE DEF v
    <3>2. v.model = p.model /\ v.dims = p.dims
      BY <2>1 DEF v
    <3> QED  BY <3>1, <3>2
  <2>3. L!EmbeddingDefaults(p) = [model |-> p.model, dims |-> p.dims]
    <3>1. p.dims # 0
      <4> SUFFICES ASSUME p.dims = 0 PROVE FALSE
        OBVIOUS
      <4> DEFINE z == p.dims
      <4>1. z = 0 /\ z > 0
        BY <2>2
      <4> HIDE DEF z
      <4> QED  BY <4>1
    <3> QED  BY <2>2, <3>1 DEF L!EmbeddingDefaults
  <2> QED  BY <2>1, <2>3 DEF p
<1>12. \A a \in L!ToSet(cfg.agents) :
         cfg.providers[a.provider].type = "gemini" => L!AgentCanAsk(cfg.providers[a.provider], a)
  <2> SUFFICES ASSUME NEW a \in L!ToSet(cfg.agents), cfg.providers[a.provider].type = "gemini"
               PROVE  L!AgentCanAsk(cfg.providers[a.provider], a)
    OBVIOUS
  <2> DEFINE p == cfg.providers[a.provider]
  <2>1. a.provider \in DOMAIN cfg.providers /\ L!ThinkingIsClear(p, a)
    BY <1>1 DEF L!Validates
  <2>2. p.gemini # {}
    BY <1>4, <2>1
  <2> HIDE DEF p
  <2> QED  BY <2>1, <2>2, AgentsCanAsk DEF p
<1> QED  BY <1>6, <1>7, <1>8, <1>10, <1>11, <1>12 DEF L!LlmConfigHolds, cfg

(* Whatever configuration the bot accepts, services, routes and sinks fit    *)
(* together, and what the reader of the agents' file accepts its other       *)
(* readers accept (ConfigHolds), for every file of the form of one.          *)
THEOREM ConfigIsRight == DecisionSpec => []ConfigHolds
<1>1. Looked => ConfigHolds
  <2> SUFFICES ASSUME Looked PROVE ConfigHolds
    OBVIOUS
  <2>1. ASSUME scene = "config"
        PROVE  LET cfg == A!LoadConfig(input)
               IN /\ A!ModulesRegister(cfg) /\ A!ModulesAreRouted(cfg)
                  /\ A!Starts(cfg) => A!AnswersGoHome(cfg) /\ A!RoutesResolve(cfg)
    <3>1. input \in Files /\ A!Accepted(input)
      BY <2>1 DEF Looked
    <3>2. FileForm(input)
      BY <3>1, InputsAssumption
    <3> QED  BY <3>1, <3>2, ConfigIsSound, ServicesAreThere
  <2>2. ASSUME scene = "agents" PROVE L!LlmConfigHolds(input)
    <3>1. input \in AgentFiles /\ L!FileAccepted(input)
      BY <2>2 DEF Looked
    <3>2. AgentFileForm(input) /\ MaxBudget \in Int
      BY <3>1, InputsAssumption
    <3> QED  BY <3>1, <3>2, AgentsFileIsSound
  <2> QED  BY <2>1, <2>2 DEF ConfigHolds
<1> QED  BY <1>1, AlwaysLooked, PTL

-----------------------------------------------------------------------------
(* Requests to a provider that failed.                                       *)

(* A failure that passes is of a passing kind and retryable, a final one     *)
(* neither.                                                                  *)
Passes(g, d) == \E k \in R!Transient : g = R!Failure(k, TRUE, d)
Final(g) ==
  \E k \in {"authentication", "invalid_request", "internal", "safety_refusal"} :
    \E d : g = R!Failure(k, FALSE, d)

LEMMA PassingFields ==
  ASSUME NEW g, NEW d, Passes(g, d)
  PROVE  /\ g.retryable
         /\ g.class \in R!Transient
         /\ g.after = d
         /\ \A a : Passes(R!Failure(g.class, g.retryable, a), a)
<1>1. PICK k \in R!Transient : g = [class |-> k, retryable |-> TRUE, after |-> d]
  BY DEF Passes, R!Failure
<1>2. g.class = k /\ g.retryable = TRUE /\ g.after = d
  BY <1>1
<1>3. \A a : Passes(R!Failure(k, TRUE, a), a)
  BY DEF Passes
<1>4. \A a : R!Failure(g.class, g.retryable, a) = R!Failure(k, TRUE, a)
  BY <1>2
<1> QED  BY <1>2, <1>3, <1>4

LEMMA FinalFields ==
  ASSUME NEW g, Final(g)
  PROVE  /\ ~g.retryable
         /\ g.class \notin R!Transient
         /\ \A a : Final(R!Failure(g.class, g.retryable, a))
<1>1. PICK k \in {"authentication", "invalid_request", "internal", "safety_refusal"} :
        \E d : g = [class |-> k, retryable |-> FALSE, after |-> d]
  BY DEF Final, R!Failure
<1>2. g.class = k /\ g.retryable = FALSE
  BY <1>1
<1>3. k \notin R!Transient
  BY DEF R!Transient
<1>4. \A a : Final(R!Failure(k, FALSE, a))
  BY DEF Final
<1>5. \A a : R!Failure(g.class, g.retryable, a) = R!Failure(k, FALSE, a)
  BY <1>2
<1> QED  BY <1>2, <1>3, <1>4, <1>5

(* What Gemini's status and code say, by either of the two ways that the     *)
(* code judges them.                                                         *)
LEMMA GeminiClasses ==
  ASSUME NEW api, ApiForm(api), NEW g, g = R!GeminiAPIFailure(api)
  PROVE  /\ Passes(g, 0) \/ Final(g)
         /\ R!IsTransientAPIError(api) => Passes(g, 0)
         /\ api.code \in {400, 401, 403, 404} => Final(g)
         /\ api.code \in {429, 500, 503} => Passes(g, 0)
<1> DEFINE c == api.code  s == api.status
           Auth == c \in {401, 403} \/ s \in {"UNAUTHENTICATED", "PERMISSION_DENIED"}
           Limited == c = 429 \/ s = "RESOURCE_EXHAUSTED"
           Late == c \in {408, 504} \/ s = "DEADLINE_EXCEEDED"
           Down == c >= 500 \/ s \in {"UNAVAILABLE", "INTERNAL"}
           Bad == c \in 400..499 \/ s \in {"INVALID_ARGUMENT", "FAILED_PRECONDITION"}
<1>1. /\ c \in Nat
      /\ c \in {400, 401, 403, 404} => s \notin R!TransientStatus
      /\ s \in {"UNAUTHENTICATED", "PERMISSION_DENIED"} => ~R!IsTransientAPIError(api)
  BY DEF ApiForm
<1>2. R!IsTransientAPIError(api) <=> c \in {429, 500, 502, 503, 504} \/ s \in R!TransientStatus
  BY DEF R!IsTransientAPIError
<1>3. g = IF Auth THEN R!Failure("authentication", FALSE, 0)
          ELSE IF Limited THEN R!Failure("rate_limited", TRUE, 0)
          ELSE IF Late THEN R!Failure("timeout", TRUE, 0)
          ELSE IF Down THEN R!Failure("provider_unavailable", TRUE, 0)
          ELSE IF Bad THEN R!Failure("invalid_request", FALSE, 0)
          ELSE R!Failure("internal", FALSE, 0)
  BY DEF R!GeminiAPIFailure
<1>4. R!TransientStatus = {"RESOURCE_EXHAUSTED", "UNAVAILABLE", "INTERNAL", "DEADLINE_EXCEEDED"}
  BY DEF R!TransientStatus
<1>5. Auth => ~R!IsTransientAPIError(api) /\ c \notin {429, 500, 503}
  BY <1>1, <1>2, <1>4
<1>6. ~Auth /\ (Limited \/ Late \/ Down) => c \notin {400, 401, 403, 404}
  BY <1>1, <1>4
<1>7. ~(Limited \/ Late \/ Down) => ~R!IsTransientAPIError(api) /\ c \notin {429, 500, 503}
  BY <1>1, <1>2, <1>4
<1>8. ~Auth /\ (Limited \/ Late \/ Down) => Passes(g, 0)
  <2> HIDE DEF Auth, Limited, Late, Down, Bad
  <2> QED  BY <1>3 DEF Passes, R!Transient
<1>9. Auth \/ ~(Limited \/ Late \/ Down) => Final(g)
  <2> HIDE DEF Auth, Limited, Late, Down, Bad
  <2> QED  BY <1>3 DEF Final
<1> HIDE DEF Auth, Limited, Late, Down, Bad
<1> QED  BY <1>5, <1>6, <1>7, <1>8, <1>9

LEMMA OpenAIClasses ==
  ASSUME NEW c \in Nat, NEW g, g = R!OpenAIStatusFailure(c)
  PROVE  /\ Passes(g, 0) \/ Final(g)
         /\ c \in {400, 401, 403, 404} => Final(g)
         /\ c \in {429, 500, 503} => Passes(g, 0)
<1> DEFINE Auth == c \in {401, 403}
           Late == c \in {408, 504}
           Down == c \in {409, 425} \/ c >= 500
           Passing == c = 429 \/ Late \/ Down
           Bad == c \in 400..499
<1>1. g = IF Auth THEN R!Failure("authentication", FALSE, 0)
          ELSE IF c = 429 THEN R!Failure("rate_limited", TRUE, 0)
          ELSE IF Late THEN R!Failure("timeout", TRUE, 0)
          ELSE IF Down THEN R!Failure("provider_unavailable", TRUE, 0)
          ELSE IF Bad THEN R!Failure("invalid_request", FALSE, 0)
          ELSE R!Failure("internal", FALSE, 0)
  BY DEF R!OpenAIStatusFailure
<1>2. /\ Auth => c \notin {429, 500, 503}
      /\ Passing => c \notin {400, 401, 403, 404}
      /\ ~Passing => c \notin {429, 500, 503}
      /\ Auth => ~Passing
  OBVIOUS
<1>3. Passing /\ ~Auth => Passes(g, 0)
  <2> HIDE DEF Auth, Late, Down, Bad
  <2> QED  BY <1>1 DEF Passes, R!Transient
<1>4. ~Passing => Final(g)
  <2> HIDE DEF Auth, Late, Down, Bad
  <2> QED  BY <1>1 DEF Final
<1> HIDE DEF Auth, Passing
<1> QED  BY <1>2, <1>3, <1>4

LEMMA StreamClasses ==
  ASSUME NEW w \in StreamWords, NEW g, g = R!OpenAIStreamFailure(w)
  PROVE  Passes(g, R!DefaultDelay) \/ Final(g)
<1> DEFINE d == R!DefaultDelay
<1>1. g \in {R!Failure("safety_refusal", FALSE, 0), R!Failure("authentication", FALSE, 0),
             R!Failure("invalid_request", FALSE, 0), R!Failure("internal", FALSE, 0)}
      \/ g \in {R!Failure("rate_limited", TRUE, d), R!Failure("provider_unavailable", TRUE, d)}
  BY DEF StreamWords, R!OpenAIStreamFailure
<1> HIDE DEF d
<1>2. g \in {R!Failure("rate_limited", TRUE, d), R!Failure("provider_unavailable", TRUE, d)}
        => Passes(g, d)
  BY DEF Passes, R!Transient
<1>3. g \in {R!Failure("safety_refusal", FALSE, 0), R!Failure("authentication", FALSE, 0),
             R!Failure("invalid_request", FALSE, 0), R!Failure("internal", FALSE, 0)}
        => Final(g)
  BY DEF Final
<1> QED  BY <1>1, <1>2, <1>3 DEF d

LEMMA OnlyOne == ASSUME NEW x PROVE R!Only({x}) = x
BY DEF R!Only

(* A failure of a provider is final or passes; one that passes has a delay,  *)
(* for Gemini within its bounds, no less than what was asked.                *)
LEMMA Weighed ==
  ASSUME NEW f, FailureForm(f), f.caller = {}, NEW g, g = R!Classified(f.provider, f)
  PROVE  /\ \/ Final(g)
            \/ \E d \in Nat \ {0} :
                 /\ Passes(g, d)
                 /\ f.provider = "gemini" => d <= R!MaxProviderDelay
                 /\ \A api \in f.api : \A asked \in api.after :
                      d >= asked \/ d = R!MaxProviderDelay
         /\ \A api \in f.api :
              /\ api.code \in {400, 401, 403, 404} \/ (f.provider = "openai" /\ api.safety) => Final(g)
              /\ api.code \in {429, 500, 503} /\ ~api.safety => ~Final(g)
         /\ f.provider = "gemini" /\ Final(g) => \A api \in f.api : ~R!IsTransientAPIError(api)
<1>1. ASSUME f.typed # {} PROVE f.api = {} /\ (Passes(g, R!DefaultDelay) \/ Final(g))
  <2>1. PICK w \in StreamWords : f.typed = {R!OpenAIStreamFailure(w)}
    BY <1>1 DEF FailureForm, Optional
  <2>2. g = R!OpenAIStreamFailure(w)
    BY <1>1, <2>1, OnlyOne DEF R!Classified
  <2> QED  BY <1>1, <2>2, StreamClasses DEF FailureForm
<1>2. ASSUME f.typed = {}, f.api = {} PROVE Passes(g, R!DefaultDelay) \/ Final(g)
  <2>1. CASE f.provider = "openai" /\ f.network # {}
    <3> DEFINE kind == IF R!Only(f.network) = "timeout" THEN "timeout" ELSE "provider_unavailable"
    <3>1. g = R!Failure(kind, TRUE, R!DefaultDelay)
      BY <1>2, <2>1 DEF R!Classified
    <3>2. kind \in R!Transient
      BY DEF R!Transient
    <3> QED  BY <3>1, <3>2 DEF Passes
  <2>2. CASE ~(f.provider = "openai" /\ f.network # {})
    <3>1. g = R!Failure("internal", FALSE, 0)
      BY <1>2, <2>2 DEF R!Classified
    <3> QED  BY <3>1 DEF Final
  <2> QED  BY <2>1, <2>2
<1>3. ASSUME NEW api, f.api = {api}, f.provider = "gemini"
      PROVE  /\ \/ Final(g)
                \/ \E d \in 1..R!MaxProviderDelay :
                     Passes(g, d) /\ \A asked \in api.after : d >= asked \/ d = R!MaxProviderDelay
             /\ api.code \in {400, 401, 403, 404} => Final(g)
             /\ api.code \in {429, 500, 503} => ~Final(g)
             /\ Final(g) => ~R!IsTransientAPIError(api)
  <2> DEFINE e == R!GeminiAPIFailure(api)  d == R!GeminiDelay(api)
  <2>1. f.typed = {} /\ ApiForm(api)
    BY <1>3 DEF FailureForm
  <2>2. g = R!Failure(e.class, e.retryable, IF e.retryable THEN d ELSE 0)
    BY <1>3, <2>1, OnlyOne DEF R!Classified
  <2>3. d \in 1..R!MaxProviderDelay /\ \A asked \in api.after : d >= asked \/ d = R!MaxProviderDelay
    <3>1. \/ api.after = {} /\ d = R!GeminiClamped(0)
          \/ \E asked \in Nat : api.after = {asked} /\ d = R!GeminiClamped(asked)
      <4>1. CASE api.after = {}
        BY <4>1 DEF R!GeminiDelay, R!Or
      <4>2. CASE api.after # {}
        <5>1. PICK asked \in Nat : api.after = {asked}
          BY <2>1, <4>2 DEF ApiForm, Optional
        <5> QED  BY <5>1, OnlyOne DEF R!GeminiDelay, R!Or
      <4> QED  BY <4>1, <4>2
    <3> QED  BY <3>1 DEF R!GeminiClamped, R!Clamp, R!DefaultDelay, R!MaxProviderDelay
  <2>4. /\ Passes(e, 0) \/ Final(e)
        /\ R!IsTransientAPIError(api) => Passes(e, 0)
        /\ api.code \in {400, 401, 403, 404} => Final(e)
        /\ api.code \in {429, 500, 503} => Passes(e, 0)
    BY <2>1, GeminiClasses
  <2> HIDE DEF e, d
  <2>5. Passes(e, 0) => Passes(g, d) /\ ~Final(g)
    <3> SUFFICES ASSUME Passes(e, 0) PROVE Passes(g, d) /\ ~Final(g)
      OBVIOUS
    <3>1. e.retryable /\ \A a : Passes(R!Failure(e.class, e.retryable, a), a)
      BY PassingFields
    <3>2. Passes(g, d)
      BY <2>2, <3>1
    <3> QED  BY <3>2, PassingFields, FinalFields
  <2>6. Final(e) => Final(g)
    BY <2>2, FinalFields
  <2> QED  BY <2>3, <2>4, <2>5, <2>6
<1>4. ASSUME NEW api, f.api = {api}, f.provider = "openai"
      PROVE  /\ \/ Final(g)
                \/ \E d \in Nat \ {0} : Passes(g, d) /\ \A asked \in api.after : d >= asked
             /\ api.code \in {400, 401, 403, 404} \/ api.safety => Final(g)
             /\ api.code \in {429, 500, 503} /\ ~api.safety => ~Final(g)
  <2> DEFINE e == R!OpenAIStatusFailure(api.code)
             d == R!Or({a \in api.after : a > 0}, R!DefaultDelay)
  <2>1. f.typed = {} /\ ApiForm(api)
    BY <1>4 DEF FailureForm
  <2>2. CASE api.safety
    <3>1. g = R!Failure("safety_refusal", FALSE, 0)
      BY <1>4, <2>1, <2>2, OnlyOne DEF R!Classified
    <3> QED  BY <2>2, <3>1 DEF Final
  <2>3. CASE ~api.safety
    <3>1. g = R!Failure(e.class, e.retryable, d)
      BY <1>4, <2>1, <2>3, OnlyOne DEF R!Classified
    <3>2. d \in Nat \ {0} /\ \A asked \in api.after : d >= asked
      <4> DEFINE S == {a \in api.after : a > 0}
      <4>1. api.after \subseteq Nat /\ \A x, y \in api.after : x = y
        BY <2>1 DEF ApiForm, Optional
      <4>2. CASE S = {}
        <5>1. d = R!DefaultDelay
          BY <4>2 DEF R!Or
        <5>2. \A asked \in api.after : asked = 0
          BY <4>1, <4>2
        <5> QED  BY <5>1, <5>2 DEF R!DefaultDelay
      <4>3. CASE S # {}
        <5>1. PICK a \in Nat : api.after = {a} /\ S = {a} /\ a > 0
          BY <4>1, <4>3
        <5>2. d = a
          BY <5>1, OnlyOne DEF R!Or
        <5> QED  BY <5>1, <5>2
      <4> QED  BY <4>2, <4>3
    <3>3. /\ Passes(e, 0) \/ Final(e)
          /\ api.code \in {400, 401, 403, 404} => Final(e)
          /\ api.code \in {429, 500, 503} => Passes(e, 0)
      BY <2>1, OpenAIClasses DEF ApiForm
    <3> HIDE DEF e, d
    <3>4. Passes(e, 0) => Passes(g, d) /\ ~Final(g)
      <4> SUFFICES ASSUME Passes(e, 0) PROVE Passes(g, d) /\ ~Final(g)
        OBVIOUS
      <4>1. Passes(g, d)
        BY <3>1, PassingFields
      <4> QED  BY <4>1, PassingFields, FinalFields
    <3>5. Final(e) => Final(g)
      BY <3>1, FinalFields
    <3> QED  BY <2>3, <3>2, <3>3, <3>4, <3>5
  <2> QED  BY <2>2, <2>3
<1>5. CASE f.api = {}
  <2>1. Passes(g, R!DefaultDelay) \/ Final(g)
    BY <1>1, <1>2, <1>5
  <2>2. R!DefaultDelay \in Nat \ {0} /\ R!DefaultDelay <= R!MaxProviderDelay
    BY DEF R!DefaultDelay, R!MaxProviderDelay
  <2> QED  BY <1>5, <2>1, <2>2
<1>6. CASE f.api # {}
  <2>1. PICK api : f.api = {api}
    BY <1>6 DEF FailureForm, Optional
  <2>2. f.provider = "gemini" \/ f.provider = "openai"
    BY DEF FailureForm
  <2>3. CASE f.provider = "gemini"
    <3>1. \A d \in 1..R!MaxProviderDelay : d \in Nat \ {0} /\ d <= R!MaxProviderDelay
      BY DEF R!MaxProviderDelay
    <3> QED  BY <1>3, <2>1, <2>3, <3>1
  <2>4. CASE f.provider = "openai"
    BY <1>4, <2>1, <2>4
  <2> QED  BY <2>2, <2>3, <2>4
<1> QED  BY <1>5, <1>6

(* The first attempt is the last one if a failure is final, the third one    *)
(* otherwise.                                                                *)
LEMMA AttemptsCounted ==
  ASSUME NEW c, NEW n \in 1..4
  PROVE  R!Attempts([k \in 1..n |-> c]) =
           IF c = {} THEN 1 ELSE IF n < R!LlmMaxAttempts THEN n + 1 ELSE R!LlmMaxAttempts
<1> DEFINE delays == [k \in 1..n |-> c]
           stops == {k \in DOMAIN delays : k = R!LlmMaxAttempts \/ delays[k] = {}}
<1>1. R!Attempts(delays) =
        IF stops = {} THEN Len(delays) + 1 ELSE CHOOSE k \in stops : \A m \in stops : k <= m
  BY DEF R!Attempts
<1>2. Len(delays) = n
  OBVIOUS
<1>3. CASE c = {}
  <2>1. stops = 1..n
    BY <1>3
  <2>2. (CHOOSE k \in 1..n : \A m \in 1..n : k <= m) = 1
    OBVIOUS
  <2> QED  BY <1>1, <1>3, <2>1, <2>2
<1>4. CASE c # {} /\ n < 3
  <2>1. stops = {}
    BY <1>4 DEF R!LlmMaxAttempts
  <2> QED  BY <1>1, <1>2, <1>4, <2>1 DEF R!LlmMaxAttempts
<1>5. CASE c # {} /\ n >= 3
  <2>1. stops = {3}
    BY <1>5 DEF R!LlmMaxAttempts
  <2>2. (CHOOSE k \in {3} : \A m \in {3} : k <= m) = 3
    OBVIOUS
  <2> QED  BY <1>1, <1>5, <2>1, <2>2 DEF R!LlmMaxAttempts
<1> QED  BY <1>3, <1>4, <1>5

(* A failure that passes is tried again after one delay in the chat and in   *)
(* the memory.                                                               *)
LEMMA BothTryAgain ==
  ASSUME NEW f, FailureForm(f), f.caller = {}, NEW d \in Nat \ {0},
         Passes(R!Classified(f.provider, f), d),
         f.provider = "gemini" => d <= R!MaxProviderDelay
  PROVE  LET w == R!Clamp(d, R!LlmMin, R!LlmMax)
         IN R!ChatDelay(f.provider, f) = {w} /\ R!MemoryDelay(f.provider, f) = {w}
<1> DEFINE g == R!Classified(f.provider, f)
<1>1. g.retryable = TRUE /\ g.after = d
  <2>1. PICK k \in R!Transient : g = [class |-> k, retryable |-> TRUE, after |-> d]
    BY DEF Passes, R!Failure
  <2> QED  BY <2>1
<1>2. \A D : R!Bounded({D}) = {R!Clamp(D, R!LlmMin, R!LlmMax)}
  BY DEF R!Bounded
<1>3. R!ChatDelay(f.provider, f) = R!Bounded({d})
  BY <1>1 DEF R!ChatDelay
<1>4. R!ProviderDelay(f.provider, f) = {d}
  <2>1. CASE f.provider = "openai"
    <3>1. R!ProviderDelay(f.provider, f) = {g.after : x \in {TRUE} \cap {g.retryable}}
      BY <2>1 DEF R!ProviderDelay
    <3>2. {TRUE} \cap {g.retryable} = {TRUE}
      BY <1>1
    <3> HIDE DEF g
    <3> QED  BY <1>1, <3>1, <3>2
  <2>2. CASE f.provider = "gemini"
    <3>1. R!ProviderDelay(f.provider, f) = {R!GeminiClamped(g.after)}
      BY <1>1, <2>2 DEF R!ProviderDelay
    <3>2. R!GeminiClamped(d) = d
      BY <2>2 DEF R!GeminiClamped, R!Clamp, R!MaxProviderDelay
    <3> QED  BY <1>1, <3>1, <3>2
  <2> QED  BY <2>1, <2>2 DEF FailureForm
<1>5. R!MemoryDelay(f.provider, f) = R!Bounded({d})
  BY <1>4 DEF R!MemoryDelay
<1> QED  BY <1>2, <1>3, <1>5

(* A final failure is not tried again by what the provider answered.         *)
LEMMA NobodyTriesAgain ==
  ASSUME NEW f, FailureForm(f), f.caller = {}, Final(R!Classified(f.provider, f)),
         f.provider = "gemini" => \A api \in f.api : ~R!IsTransientAPIError(api)
  PROVE  R!ChatDelay(f.provider, f) = {} /\ R!ProviderDelay(f.provider, f) = {}
<1> DEFINE g == R!Classified(f.provider, f)
<1>1. g.retryable = FALSE
  <2>1. PICK k, d : g = [class |-> k, retryable |-> FALSE, after |-> d]
    BY DEF Final, R!Failure
  <2> QED  BY <2>1
<1>2. R!ProviderDelay(f.provider, f) = {}
  <2>1. CASE f.provider = "openai"
    <3>1. R!ProviderDelay(f.provider, f) = {g.after : x \in {TRUE} \cap {g.retryable}}
      BY <2>1 DEF R!ProviderDelay
    <3>2. {TRUE} \cap {g.retryable} = {}
      BY <1>1
    <3> HIDE DEF g
    <3> QED  BY <3>1, <3>2
  <2>2. CASE f.provider = "gemini"
    <3>1. R!ProviderDelay(f.provider, f) =
            {R!GeminiDelay(api) : api \in {a \in f.api : R!IsTransientAPIError(a)}}
      BY <1>1, <2>2 DEF R!ProviderDelay
    <3>2. {a \in f.api : R!IsTransientAPIError(a)} = {}
      BY <2>2
    <3> QED  BY <3>1, <3>2
  <2> QED  BY <2>1, <2>2 DEF FailureForm
<1>3. R!ChatDelay(f.provider, f) = R!Bounded(R!ProviderDelay(f.provider, f))
  BY <1>1 DEF R!ChatDelay
<1>4. R!Bounded({}) = {}
  BY DEF R!Bounded
<1> QED  BY <1>2, <1>3, <1>4

(* The rule of the requests holds for every failure a provider may answer.   *)
LEMMA RequestsAreTriedRightly ==
  ASSUME NEW f, FailureForm(f)
  PROVE  R!LlmRetriesHold(f.provider, f)
<1> DEFINE chat == R!ChatDelay(f.provider, f)
           memory == R!MemoryDelay(f.provider, f)
           g == R!Classified(f.provider, f)
<1>1. /\ chat # {} <=> f.caller = {} /\ g.class \in R!Transient
      /\ \A a \in f.api :
           /\ a.code \in {400, 401, 403, 404} \/ (f.provider = "openai" /\ a.safety) => chat = {}
           /\ a.code \in {429, 500, 503} /\ f.caller = {} /\ ~a.safety => chat # {}
      /\ \A d \in chat :
           /\ d \in R!LlmMin..R!LlmMax
           /\ \A a \in f.api : \A asked \in a.after : d >= asked \/ d = R!LlmMax
           /\ memory = {d}
      /\ chat = {} /\ memory # {} => f.caller = {} /\ (f.text.passing \/ R!Hint(f.text) # {})
  <2>1. CASE f.caller # {}
    <3>1. chat = {} /\ memory = {}
      BY <2>1 DEF R!ChatDelay, R!MemoryDelay
    <3> HIDE DEF chat, memory, g
    <3> QED  BY <2>1, <3>1
  <2>2. CASE f.caller = {}
    <3>1. /\ \A api \in f.api :
               /\ api.code \in {400, 401, 403, 404} \/ (f.provider = "openai" /\ api.safety) => Final(g)
               /\ api.code \in {429, 500, 503} /\ ~api.safety => ~Final(g)
          /\ f.provider = "gemini" /\ Final(g) => \A api \in f.api : ~R!IsTransientAPIError(api)
      BY <2>2, Weighed
    <3>2. CASE Final(g)
      <4>1. chat = {} /\ R!ProviderDelay(f.provider, f) = {}
        BY <2>2, <3>1, <3>2, NobodyTriesAgain
      <4>2. g.class \notin R!Transient
        <5> HIDE DEF g
        <5> QED  BY <3>2, FinalFields
      <4>3. memory = IF R!Hint(f.text) # {} THEN R!Bounded(R!Hint(f.text))
                     ELSE IF f.text.passing THEN {R!LlmBase} ELSE {}
        BY <2>2, <4>1 DEF R!MemoryDelay
      <4> HIDE DEF chat, memory, g
      <4> QED  BY <2>2, <3>1, <3>2, <4>1, <4>2, <4>3
    <3>3. CASE ~Final(g)
      <4>1. PICK d \in Nat \ {0} :
              /\ Passes(g, d)
              /\ f.provider = "gemini" => d <= R!MaxProviderDelay
              /\ \A api \in f.api : \A asked \in api.after : d >= asked \/ d = R!MaxProviderDelay
        BY <2>2, <3>3, Weighed
      <4> DEFINE w == R!Clamp(d, R!LlmMin, R!LlmMax)
      <4>2. chat = {w} /\ memory = {w}
        BY <2>2, <4>1, BothTryAgain
      <4>3. g.class \in R!Transient
        <5> HIDE DEF g
        <5> QED  BY <4>1, PassingFields
      <4>4. w \in R!LlmMin..R!LlmMax
        BY DEF R!Clamp, R!LlmMin, R!LlmMax
      <4>5. \A a \in f.api : \A asked \in a.after : w >= asked \/ w = R!LlmMax
        <5>1. ASSUME NEW a \in f.api, NEW asked \in a.after PROVE w >= asked \/ w = R!LlmMax
          <6>1. asked \in Nat /\ (d >= asked \/ d = R!MaxProviderDelay)
            BY <4>1, <5>1 DEF FailureForm, ApiForm
          <6> QED  BY <6>1 DEF R!Clamp, R!LlmMin, R!LlmMax, R!MaxProviderDelay
        <5> QED  BY <5>1
      <4> HIDE DEF chat, memory, g, w
      <4> QED  BY <2>2, <3>1, <3>3, <4>2, <4>3, <4>4, <4>5
    <3> QED  BY <3>2, <3>3
  <2> QED  BY <2>1, <2>2
<1>2. \A n \in 1..4 :
        R!Attempts([k \in 1..n |-> chat]) =
          IF chat = {} THEN 1 ELSE IF n < R!LlmMaxAttempts THEN n + 1 ELSE R!LlmMaxAttempts
  <2> HIDE DEF chat
  <2> QED  BY AttemptsCounted
<1> QED  BY <1>1, <1>2 DEF R!LlmRetriesHold

-----------------------------------------------------------------------------
(* The last edit of an answer.                                               *)

Adding(p, sum, n) == sum + n
Total(waits) == R!FoldLeft(LAMBDA sum, n : Adding(0, sum, n), 0, waits)
Tried(platform, last, err) == R!TryEdit(platform, last, err)

(* What holds after the ith error of e: the waits are those of the errors so *)
(* far, and whoever is still trying has met them all.                        *)
TriedSo(e, i, last) ==
  /\ last \in [state : {"trying", "refused", "exhausted"}, attempts : 0..R!EditMaxAttempts,
               waits : Seq(Nat), left : Nat]
  /\ Total(last.waits) = e.left - last.left
  /\ Len(last.waits) <= i
  /\ \A n \in 1..Len(last.waits) :
       ~e.errs[n].invalid /\ last.waits[n] = R!NextRetryDelay(e.platform, n, e.errs[n])
  /\ Len(last.waits) < R!EditMaxAttempts
  /\ last.state = "trying" =>
       last.attempts = i /\ Len(last.waits) = i
  /\ last.state = "exhausted" =>
       e.left = 0 \/ last.attempts = R!EditMaxAttempts \/ last.left < R!MaxEditInterval

Sums == INSTANCE FoldLaws WITH Op <- Adding, Inv <- TriedSo
Tries == INSTANCE FoldLaws WITH Op <- Tried, Inv <- TriedSo

(* The pace doubles up to the longest interval.                              *)
Pace(base, n) ==
  IF n = 0 THEN base
  ELSE IF base = 5
  THEN IF n = 1 THEN 10 ELSE IF n = 2 THEN 20 ELSE IF n = 3 THEN 40 ELSE IF n = 4 THEN 80 ELSE 100
  ELSE IF n = 1 THEN 40 ELSE IF n = 2 THEN 80 ELSE 100

LEMMA BackoffIs ==
  ASSUME NEW base \in {5, 20}, NEW attempt \in Nat \ {0}
  PROVE  R!ExponentialBackoff(base, attempt) = Pace(base, attempt - 1)
<1> DEFINE Body(g) == [n \in 0..(attempt - 1) |->
                         IF n = 0 THEN base ELSE R!Clamp(2 * g[n - 1], 0, R!MaxEditInterval)]
           f == [n \in 0..(attempt - 1) |-> Pace(base, n)]
           d == CHOOSE g : g = Body(g)
<1>1. \A n \in Nat \ {0} : Pace(base, n) = R!Clamp(2 * Pace(base, n - 1), 0, R!MaxEditInterval)
  BY DEF Pace, R!Clamp, R!MaxEditInterval
<1>2. f = Body(f)
  <2>1. \A n \in 0..(attempt - 1) :
          Pace(base, n) = IF n = 0 THEN base ELSE R!Clamp(2 * f[n - 1], 0, R!MaxEditInterval)
    <3> SUFFICES ASSUME NEW n \in 0..(attempt - 1), n # 0
                 PROVE  Pace(base, n) = R!Clamp(2 * f[n - 1], 0, R!MaxEditInterval)
      BY DEF Pace
    <3>1. f[n - 1] = Pace(base, n - 1)
      OBVIOUS
    <3> HIDE DEF f
    <3> QED  BY <1>1, <3>1
  <2> QED  BY <2>1
<1>3. d = Body(d)
  <2> HIDE DEF f, Body
  <2> QED  BY <1>2
<1>4. R!ExponentialBackoff(base, attempt) = d[attempt - 1]
  BY DEF R!ExponentialBackoff
<1> HIDE DEF d
<1> DEFINE T == {n \in Nat : n <= attempt - 1 => d[n] = Pace(base, n)}
<1>5. 0 \in T
  <2>1. d[0] = base
    BY <1>3
  <2> QED  BY <2>1 DEF Pace
<1>6. \A n \in T : n + 1 \in T
  <2> SUFFICES ASSUME NEW n \in T, n + 1 <= attempt - 1 PROVE d[n + 1] = Pace(base, n + 1)
    OBVIOUS
  <2>1. d[n] = Pace(base, n)
    OBVIOUS
  <2>2. d[n + 1] = R!Clamp(2 * d[n], 0, R!MaxEditInterval)
    BY <1>3
  <2>3. Pace(base, n + 1) = R!Clamp(2 * Pace(base, n), 0, R!MaxEditInterval)
    <3> DEFINE m == n + 1
    <3>1. m \in Nat \ {0} /\ m - 1 = n
      OBVIOUS
    <3> HIDE DEF m
    <3>2. Pace(base, m) = R!Clamp(2 * Pace(base, n), 0, R!MaxEditInterval)
      BY <1>1, <3>1
    <3> QED  BY <3>2 DEF m
  <2> QED  BY <2>1, <2>2, <2>3
<1>7. T = Nat
  <2> HIDE DEF T
  <2>1. T \in SUBSET Nat
    BY DEF T
  <2> QED  BY <1>5, <1>6, <2>1, Sums!Induction
<1>8. attempt - 1 \in T
  BY <1>7
<1> QED  BY <1>4, <1>8

LEMMA PaceIs ==
  ASSUME NEW base \in {5, 20}, NEW n \in Nat
  PROVE  /\ Pace(base, n) \in base..R!MaxEditInterval
         /\ n > 0 => Pace(base, n) >= Pace(base, n - 1)
BY DEF Pace, R!MaxEditInterval

(* What an error asks for does not change from one attempt to the next: a    *)
(* wait, or a pace.                                                          *)
LEMMA DelayIsSteady ==
  ASSUME NEW platform \in {"telegram", "discord"}, NEW err, Optional(err.wait), err.wait \subseteq Nat,
         Optional(err.rpc), \A r \in err.rpc : r.code \in Nat, TextForm(err.text)
  PROVE  LET limited == err.wait = {} /\ \E r \in err.rpc : r.code \in R!Limits(platform)
         IN \/ \E c \in R!EditMin..R!MaxEditInterval :
                /\ \A n : R!NextRetryDelay(platform, n, err) = c
                /\ \A w \in err.wait : c >= w \/ c = R!MaxEditInterval
                /\ limited => c >= R!EditLimitedBase
            \/ \E base \in {5, 20} :
                /\ \A n : R!NextRetryDelay(platform, n, err) = R!ExponentialBackoff(base, n)
                /\ \A w \in err.wait : w = 0
                /\ limited => base = R!EditLimitedBase
<1> DEFINE m == R!Mapped(platform, err)
           limited == err.wait = {} /\ \E r \in err.rpc : r.code \in R!Limits(platform)
           Clamped(d) == R!Clamp(d, R!EditMin, R!MaxEditInterval)
           base == IF err.text.limits THEN R!EditLimitedBase ELSE R!EditBase
<1>1. \A n : R!NextRetryDelay(platform, n, err) =
               IF m.kind = "rate_limited"
               THEN IF m.after > 0 THEN Clamped(m.after) ELSE R!ExponentialBackoff(R!EditLimitedBase, n)
               ELSE IF R!Hint(err.text) # {} THEN Clamped(R!Only(R!Hint(err.text)))
               ELSE R!ExponentialBackoff(base, n)
  BY DEF R!NextRetryDelay
<1>2. \A d \in Nat : Clamped(d) \in R!EditMin..R!MaxEditInterval
                     /\ (Clamped(d) >= d \/ Clamped(d) = R!MaxEditInterval)
  BY DEF R!Clamp, R!EditMin, R!MaxEditInterval
<1>3. R!EditLimitedBase = 20 /\ R!EditBase = 5 /\ R!DiscordDefaultWait = 50 /\ Clamped(50) = 50
  BY DEF R!EditLimitedBase, R!EditBase, R!DiscordDefaultWait, R!Clamp, R!EditMin, R!MaxEditInterval
<1>4. base \in {5, 20}
  BY <1>3
<1>5. /\ \/ m.kind = "rate_limited" /\ m.after \in Nat
         \/ m.kind # "rate_limited"
      /\ err.wait # {} => m.kind = "rate_limited" /\ \A w \in err.wait : m.after = w
      /\ limited => m.kind = "rate_limited" /\ (m.after = 0 \/ m.after = 50)
  <2>1. CASE err.wait # {}
    <3>1. PICK w \in Nat : err.wait = {w}
      BY <2>1 DEF Optional
    <3>2. m = [kind |-> "rate_limited", after |-> w]
      BY <2>1, <3>1, OnlyOne DEF R!Mapped
    <3>3. m.kind = "rate_limited" /\ m.after = w
      BY <3>2
    <3> HIDE DEF m
    <3> QED  BY <2>1, <3>1, <3>3
  <2>2. CASE err.wait = {} /\ err.rpc = {}
    <3>1. m = [kind |-> "unknown", after |-> 0]
      BY <2>2 DEF R!Mapped
    <3>2. m.kind # "rate_limited"
      BY <3>1
    <3> HIDE DEF m
    <3> QED  BY <2>2, <3>2
  <2>3. CASE err.wait = {} /\ err.rpc # {}
    <3>1. PICK r : err.rpc = {r} /\ r.code \in Nat
      BY <2>3 DEF Optional
    <3>2. CASE platform = "telegram"
      <4> DEFINE kind == R!TelegramKind(r)
      <4>1. m = [kind |-> kind, after |-> 0]
        BY <2>3, <3>1, <3>2, OnlyOne DEF R!Mapped
      <4>2. limited => kind = "rate_limited"
        BY <3>1, <3>2 DEF R!Limits, R!TelegramKind
      <4> HIDE DEF kind
      <4>3. m.kind = kind /\ m.after = 0
        BY <4>1
      <4> HIDE DEF m, limited
      <4> QED  BY <2>3, <4>2, <4>3
    <3>3. CASE platform = "discord"
      <4> DEFINE kind == R!DiscordKind(r)
                 after == IF kind = "rate_limited" THEN R!DiscordDefaultWait ELSE 0
      <4>1. m = [kind |-> kind, after |-> after]
        BY <2>3, <3>1, <3>3, OnlyOne DEF R!Mapped
      <4>2. limited => kind = "rate_limited"
        BY <3>1, <3>3 DEF R!Limits, R!DiscordKind
      <4> HIDE DEF kind
      <4>3. kind = "rate_limited" => after = 50
        BY <1>3
      <4> HIDE DEF after
      <4>4. m.kind = kind /\ m.after = after
        BY <4>1
      <4> HIDE DEF m, limited
      <4> QED  BY <2>3, <4>2, <4>3, <4>4
    <3> QED  BY <3>2, <3>3
  <2> QED  BY <2>1, <2>2, <2>3
<1> HIDE DEF m, limited, Clamped, base
<1>6. CASE m.kind = "rate_limited" /\ m.after > 0
  <2>1. \A n : R!NextRetryDelay(platform, n, err) = Clamped(m.after)
    BY <1>1, <1>6
  <2>2. m.after \in Nat
    BY <1>5, <1>6
  <2> DEFINE c == Clamped(m.after)
  <2>3. c \in R!EditMin..R!MaxEditInterval /\ (c >= m.after \/ c = R!MaxEditInterval)
    BY <1>2, <2>2
  <2>4. limited => c = 50
    BY <1>3, <1>5, <1>6, <2>2
  <2> HIDE DEF c
  <2> QED  BY <1>3, <1>5, <2>1, <2>3, <2>4 DEF c, limited
<1>7. CASE m.kind = "rate_limited" /\ ~(m.after > 0)
  <2>1. \A n : R!NextRetryDelay(platform, n, err) = R!ExponentialBackoff(R!EditLimitedBase, n)
    BY <1>1, <1>7
  <2>2. m.after = 0
    BY <1>5, <1>7
  <2> QED  BY <1>3, <1>5, <2>1, <2>2 DEF limited
<1>8. CASE m.kind # "rate_limited" /\ R!Hint(err.text) # {}
  <2>1. PICK w \in Nat : R!Hint(err.text) = {w}
    BY <1>8 DEF R!Hint, TextForm, Optional
  <2>2. \A n : R!NextRetryDelay(platform, n, err) = Clamped(w)
    BY <1>1, <1>8, <2>1, OnlyOne
  <2> QED  BY <1>2, <1>5, <1>8, <2>2 DEF limited
<1>9. CASE m.kind # "rate_limited" /\ R!Hint(err.text) = {}
  <2>1. \A n : R!NextRetryDelay(platform, n, err) = R!ExponentialBackoff(base, n)
    BY <1>1, <1>9
  <2> QED  BY <1>4, <1>5, <1>9, <2>1 DEF limited
<1> QED  BY <1>6, <1>7, <1>8, <1>9

(* A delay lies within the bounds, is as long as the platform asked, and is  *)
(* no shorter than the one after the same error before.                      *)
LEMMA DelayIsFair ==
  ASSUME NEW platform \in {"telegram", "discord"}, NEW err, Optional(err.wait), err.wait \subseteq Nat,
         Optional(err.rpc), \A r \in err.rpc : r.code \in Nat, TextForm(err.text),
         NEW n \in Nat \ {0}, NEW d, d = R!NextRetryDelay(platform, n, err)
  PROVE  /\ d \in R!EditMin..R!MaxEditInterval
         /\ \A w \in err.wait : d >= w \/ d = R!MaxEditInterval
         /\ \A r \in err.rpc : r.code \in R!Limits(platform) /\ err.wait = {} => d >= R!EditLimitedBase
         /\ n > 1 => d >= R!NextRetryDelay(platform, n - 1, err)
<1> DEFINE limited == err.wait = {} /\ \E r \in err.rpc : r.code \in R!Limits(platform)
<1> HIDE DEF limited
<1>1. \/ \E c \in R!EditMin..R!MaxEditInterval :
           /\ \A m : R!NextRetryDelay(platform, m, err) = c
           /\ \A w \in err.wait : c >= w \/ c = R!MaxEditInterval
           /\ limited => c >= R!EditLimitedBase
      \/ \E base \in {5, 20} :
           /\ \A m : R!NextRetryDelay(platform, m, err) = R!ExponentialBackoff(base, m)
           /\ \A w \in err.wait : w = 0
           /\ limited => base = R!EditLimitedBase
  BY DelayIsSteady DEF limited
<1>2. ASSUME NEW c \in R!EditMin..R!MaxEditInterval,
             \A m : R!NextRetryDelay(platform, m, err) = c,
             \A w \in err.wait : c >= w \/ c = R!MaxEditInterval,
             limited => c >= R!EditLimitedBase
      PROVE  /\ d \in R!EditMin..R!MaxEditInterval
             /\ \A w \in err.wait : d >= w \/ d = R!MaxEditInterval
             /\ limited => d >= R!EditLimitedBase
             /\ n > 1 => d >= R!NextRetryDelay(platform, n - 1, err)
  <2>1. d = c /\ R!NextRetryDelay(platform, n - 1, err) = c
    BY <1>2
  <2>2. c >= c
    BY DEF R!EditMin, R!MaxEditInterval
  <2> QED  BY <1>2, <2>1, <2>2
<1>3. ASSUME NEW base \in {5, 20},
             \A m : R!NextRetryDelay(platform, m, err) = R!ExponentialBackoff(base, m),
             \A w \in err.wait : w = 0,
             limited => base = R!EditLimitedBase
      PROVE  /\ d \in R!EditMin..R!MaxEditInterval
             /\ \A w \in err.wait : d >= w \/ d = R!MaxEditInterval
             /\ limited => d >= R!EditLimitedBase
             /\ n > 1 => d >= R!NextRetryDelay(platform, n - 1, err)
  <2>1. d = Pace(base, n - 1)
    BY <1>3, BackoffIs
  <2>2. d \in base..R!MaxEditInterval /\ (n - 1 > 0 => d >= Pace(base, n - 1 - 1))
    <3> DEFINE m == n - 1
    <3>1. m \in Nat
      OBVIOUS
    <3> HIDE DEF m
    <3>2. Pace(base, m) \in base..R!MaxEditInterval /\ (m > 0 => Pace(base, m) >= Pace(base, m - 1))
      BY <3>1, PaceIs
    <3> QED  BY <2>1, <3>2 DEF m
  <2>3. n > 1 => R!NextRetryDelay(platform, n - 1, err) = Pace(base, n - 1 - 1)
    <3> SUFFICES ASSUME n > 1 PROVE R!NextRetryDelay(platform, n - 1, err) = Pace(base, n - 1 - 1)
      OBVIOUS
    <3> DEFINE m == n - 1
    <3>1. m \in Nat \ {0}
      OBVIOUS
    <3> HIDE DEF m
    <3>2. R!ExponentialBackoff(base, m) = Pace(base, m - 1)
      BY <3>1, BackoffIs
    <3>3. R!NextRetryDelay(platform, m, err) = R!ExponentialBackoff(base, m)
      BY <1>3
    <3> QED  BY <3>2, <3>3 DEF m
  <2>4. d \in Int /\ d >= base /\ d <= 100 /\ d >= 2
    BY <2>2 DEF R!MaxEditInterval
  <2>5. d \in R!EditMin..R!MaxEditInterval
    BY <2>4 DEF R!EditMin, R!MaxEditInterval
  <2>6. \A w \in err.wait : d >= w
    BY <1>3, <2>4
  <2>7. limited => d >= R!EditLimitedBase
    BY <1>3, <2>4
  <2>8. n > 1 => d >= R!NextRetryDelay(platform, n - 1, err)
    BY <2>2, <2>3
  <2> QED  BY <2>5, <2>6, <2>7, <2>8
<1>4. /\ d \in R!EditMin..R!MaxEditInterval
      /\ \A w \in err.wait : d >= w \/ d = R!MaxEditInterval
      /\ limited => d >= R!EditLimitedBase
      /\ n > 1 => d >= R!NextRetryDelay(platform, n - 1, err)
  BY <1>1, <1>2, <1>3
<1> QED  BY <1>4 DEF limited

LEMMA TotalFolds == \A waits : Total(waits) = Sums!Fold(0, 0, waits)
BY DEF Total, Adding, Sums!Fold, Sums!FoldLeft, Sums!MapThenFoldSet, Sums!Max, R!FoldLeft,
       R!MapThenFoldSet, R!Max

(* One more wait adds to their sum.                                          *)
LEMMA OneMoreWait ==
  ASSUME NEW waits \in Seq(Nat), NEW d \in Nat
  PROVE  /\ Append(waits, d) \in Seq(Nat) /\ Len(Append(waits, d)) = Len(waits) + 1
         /\ Append(waits, d)[Len(waits) + 1] = d
         /\ \A n \in 1..Len(waits) : Append(waits, d)[n] = waits[n]
         /\ Total(Append(waits, d)) = Total(waits) + d
<1> DEFINE g == Append(waits, d)  n == Len(waits)
<1>1. /\ g \in Seq(Nat) /\ n \in Nat /\ Len(g) = n + 1 /\ DOMAIN waits = 1..n /\ DOMAIN g = 1..(n + 1)
      /\ g[n + 1] = d /\ \A i \in 1..n : g[i] = waits[i]
  OBVIOUS
<1> HIDE DEF g, n
<1>2. Sums!Fold(0, 0, g) = Adding(0, Sums!Fold(0, 0, waits), g[n + 1])
  BY <1>1, Sums!FoldAppends
<1>3. Total(g) = Total(waits) + d
  BY <1>1, <1>2, TotalFolds DEF Adding
<1> QED  BY <1>1, <1>3 DEF g, n

LEMMA NoWaits == Total(<<>>) = 0
<1> DEFINE h == <<>>
<1>1. DOMAIN h = 1..0
  OBVIOUS
<1> HIDE DEF h
<1>2. PICK f : Sums!IsRun(f, 0, 0, h, 0)
  BY <1>1, Sums!FoldRuns
<1>3. Sums!Fold(0, 0, h) = 0
  BY <1>2 DEF Sums!IsRun
<1> QED  BY <1>3, TotalFolds DEF h

(* What an error of the form of one is.                                      *)
LEMMA ErrorsAre ==
  ASSUME NEW e, EditForm(e), NEW n \in 1..Len(e.errs)
  PROVE  /\ Optional(e.errs[n].wait) /\ e.errs[n].wait \subseteq Nat
         /\ Optional(e.errs[n].rpc) /\ (\A r \in e.errs[n].rpc : r.code \in Nat)
         /\ TextForm(e.errs[n].text)
<1>1. n \in DOMAIN e.errs
  BY DEF EditForm, List
<1> QED  BY <1>1 DEF EditForm

(* The next attempt.                                                         *)
LEMMA NextTry ==
  ASSUME NEW e, EditForm(e), NEW i \in 1..Len(e.errs), NEW last, TriedSo(e, i - 1, last)
  PROVE  TriedSo(e, i, Tried(e.platform, last, e.errs[i]))
<1> DEFINE n == last.attempts + 1
           err == e.errs[i]
           delay == R!NextRetryDelay(e.platform, n, err)
           next == R!TryEdit(e.platform, last, err)
           States == {"trying", "refused", "exhausted"}
           Shape == [state : States, attempts : 0..R!EditMaxAttempts, waits : Seq(Nat), left : Nat]
<1> HIDE DEF err, States, Shape
<1>1. /\ last \in Shape /\ last.state \in States /\ last.attempts \in 0..12 /\ last.waits \in Seq(Nat)
      /\ last.left \in Nat
      /\ Total(last.waits) = e.left - last.left
      /\ Len(last.waits) <= i - 1
      /\ \A m \in 1..Len(last.waits) :
           ~e.errs[m].invalid /\ last.waits[m] = R!NextRetryDelay(e.platform, m, e.errs[m])
      /\ Len(last.waits) < 12
      /\ last.state = "trying" => last.attempts = i - 1 /\ Len(last.waits) = i - 1
      /\ last.state = "exhausted" =>
           e.left = 0 \/ last.attempts = 12 \/ last.left < R!MaxEditInterval
  BY DEF TriedSo, R!EditMaxAttempts, Shape, States
<1>2. Len(last.waits) \in Nat /\ i \in Nat /\ i >= 1
  BY <1>1
<1>3. CASE last.state # "trying"
  <2>1. next = last
    BY <1>3 DEF R!TryEdit
  <2>2. Len(last.waits) <= i
    BY <1>1, <1>2
  <2> QED  BY <1>1, <1>3, <2>1, <2>2 DEF TriedSo, Tried, err, R!EditMaxAttempts, Shape, States
<1>4. CASE last.state = "trying"
  <2>1. n = i /\ i <= 12 /\ n \in 1..12
    <3> DEFINE l == Len(last.waits)  a == last.attempts
    <3>1. l < 12 /\ a = i - 1 /\ l = i - 1
      BY <1>1, <1>4
    <3>2. n = a + 1 /\ l \in Nat
      BY <1>2
    <3> HIDE DEF l, a, n
    <3> QED  BY <1>2, <3>1, <3>2
  <2>2. delay \in R!EditMin..R!MaxEditInterval
    <3>1. /\ e.platform \in {"telegram", "discord"} /\ Optional(err.wait) /\ err.wait \subseteq Nat
          /\ Optional(err.rpc) /\ (\A r \in err.rpc : r.code \in Nat) /\ TextForm(err.text)
      BY ErrorsAre DEF err, EditForm
    <3>2. n \in Nat \ {0}
      BY <2>1
    <3> HIDE DEF n
    <3> QED  BY <3>1, <3>2, DelayIsFair
  <2> HIDE DEF delay
  <2>3. delay \in Nat /\ delay <= 100
    BY <2>2 DEF R!EditMin, R!MaxEditInterval
  <2>4. next = IF err.invalid THEN [last EXCEPT !.state = "refused", !.attempts = n]
               ELSE IF n = R!EditMaxAttempts \/ delay > last.left
               THEN [last EXCEPT !.state = "exhausted", !.attempts = n]
               ELSE [[last EXCEPT !.state = "trying", !.attempts = n]
                       EXCEPT !.waits = Append(last.waits, delay), !.left = last.left - delay]
    BY <1>1, <1>4 DEF R!TryEdit, delay, Shape
  <2> HIDE DEF n, next
  <2>5. n \in 0..12 /\ n \in 0..R!EditMaxAttempts
    BY <2>1 DEF R!EditMaxAttempts
  <2>6. \A s \in States : LET x == [last EXCEPT !.state = s, !.attempts = n]
                          IN /\ x \in Shape /\ x.state = s /\ x.attempts = n
                             /\ x.waits = last.waits /\ x.left = last.left
    BY <1>1, <2>5 DEF Shape
  <2>7. CASE err.invalid
    <3>1. next = [last EXCEPT !.state = "refused", !.attempts = n]
      BY <2>4, <2>7
    <3>2. /\ next \in Shape /\ next.state = "refused" /\ next.attempts = n
          /\ next.waits = last.waits /\ next.left = last.left
      BY <2>6, <3>1 DEF States
    <3>3. Len(last.waits) <= i
      BY <1>1, <1>2
    <3> QED  BY <1>1, <3>2, <3>3 DEF TriedSo, Tried, err, next, R!EditMaxAttempts, Shape, States
  <2>8. CASE ~err.invalid /\ (n = R!EditMaxAttempts \/ delay > last.left)
    <3>1. next = [last EXCEPT !.state = "exhausted", !.attempts = n]
      BY <2>4, <2>8
    <3>2. /\ next \in Shape /\ next.state = "exhausted" /\ next.attempts = n
          /\ next.waits = last.waits /\ next.left = last.left
      BY <2>6, <3>1 DEF States
    <3>3. Len(last.waits) <= i
      BY <1>1, <1>2
    <3>4. next.attempts = R!EditMaxAttempts \/ next.left < R!MaxEditInterval
      BY <1>1, <2>3, <2>8, <3>2 DEF R!MaxEditInterval
    <3> QED  BY <1>1, <3>2, <3>3, <3>4 DEF TriedSo, Tried, err, next, R!EditMaxAttempts, Shape, States
  <2>9. CASE ~err.invalid /\ ~(n = R!EditMaxAttempts \/ delay > last.left)
    <3> DEFINE x == [last EXCEPT !.state = "trying", !.attempts = n]
               w == Append(last.waits, delay)  l == last.left - delay
    <3>1. next = [x EXCEPT !.waits = w, !.left = l]
      BY <2>4, <2>9
    <3>2. x \in Shape /\ x.state = "trying" /\ x.attempts = n
      BY <2>6 DEF States
    <3>3. l \in Nat
      BY <1>1, <2>3, <2>9
    <3>4. /\ w \in Seq(Nat) /\ Len(w) = Len(last.waits) + 1 /\ w[Len(last.waits) + 1] = delay
          /\ \A m \in 1..Len(last.waits) : w[m] = last.waits[m]
          /\ Total(w) = Total(last.waits) + delay
      BY <1>1, <2>3, OneMoreWait
    <3> HIDE DEF x, w
    <3>5. /\ next \in Shape /\ next.state = "trying" /\ next.attempts = n
          /\ next.waits = w /\ next.left = l
      BY <3>1, <3>2, <3>3, <3>4 DEF Shape
    <3>6. Len(last.waits) = i - 1 /\ Len(w) = i /\ i < 12
      BY <1>1, <1>2, <1>4, <2>1, <2>9, <3>4 DEF R!EditMaxAttempts
    <3>7. Total(w) = e.left - l
      <4>1. e.left \in Int
        BY DEF EditForm
      <4> DEFINE sum == Total(last.waits)  total == Total(w)
      <4>2. sum = e.left - last.left /\ total = sum + delay
        BY <1>1, <3>4
      <4> HIDE DEF sum, total
      <4>3. total = e.left - l
        BY <1>1, <2>3, <4>1, <4>2
      <4> QED  BY <4>3 DEF total
    <3> HIDE DEF l
    <3>8. \A m \in 1..Len(w) : ~e.errs[m].invalid /\ w[m] = R!NextRetryDelay(e.platform, m, e.errs[m])
      <4> SUFFICES ASSUME NEW m \in 1..Len(w)
                   PROVE  ~e.errs[m].invalid /\ w[m] = R!NextRetryDelay(e.platform, m, e.errs[m])
        OBVIOUS
      <4>1. CASE m = i
        <5>1. w[i] = delay
          BY <3>4, <3>6
        <5> QED  BY <2>1, <2>9, <4>1, <5>1 DEF delay, err
      <4>2. CASE m # i
        <5>1. m \in 1..Len(last.waits)
          BY <3>6, <4>2
        <5> QED  BY <1>1, <3>4, <5>1
      <4> QED  BY <4>1, <4>2
    <3>9. Len(w) <= i /\ Len(w) < 12
      BY <3>6
    <3> QED  BY <2>1, <3>5, <3>6, <3>7, <3>8, <3>9 DEF TriedSo, Tried, err, next, R!EditMaxAttempts, Shape, States
  <2> QED  BY <2>7, <2>8, <2>9
<1> QED  BY <1>3, <1>4

(* An edit that meets errors of the form of one is tried as it should be.    *)
LEMMA EditsAreTriedRightly ==
  ASSUME NEW e, EditForm(e)
  PROVE  R!EditsHold(e.platform, e.errs, e.left)
<1> DEFINE errs == e.errs  p == e.platform
           start == [state |-> IF e.left = 0 THEN "exhausted" ELSE "trying", attempts |-> 0,
                     waits |-> <<>>, left |-> e.left]
           met == Tries!Fold(p, start, errs)
           done == R!RetryEdit(p, errs, e.left)
<1>1. /\ p \in {"telegram", "discord"} /\ e.left \in Nat
      /\ Len(errs) \in Nat /\ DOMAIN errs = 1..Len(errs)
  BY DEF EditForm, List
<1>2. done = IF met.state = "trying"
             THEN [met EXCEPT !.state = "edited", !.attempts = met.attempts + 1] ELSE met
  BY DEF R!RetryEdit, Tried, Tries!Fold, Tries!FoldLeft, Tries!MapThenFoldSet, Tries!Max, R!FoldLeft,
         R!MapThenFoldSet, R!Max
<1>3. TriedSo(e, 0, start)
  <2> DEFINE Shape == [state : {"trying", "refused", "exhausted"}, attempts : 0..R!EditMaxAttempts,
                       waits : Seq(Nat), left : Nat]
             s == IF e.left = 0 THEN "exhausted" ELSE "trying"
             none == <<>>
  <2>1. none \in Seq(Nat) /\ Len(none) = 0
    OBVIOUS
  <2>2. Total(none) = 0
    BY NoWaits
  <2>3. s \in {"trying", "refused", "exhausted"} /\ (s = "exhausted" => e.left = 0)
    OBVIOUS
  <2> HIDE DEF s, none
  <2>4. 0 \in 0..R!EditMaxAttempts /\ 0 < R!EditMaxAttempts
    BY DEF R!EditMaxAttempts
  <2>5. start = [state |-> s, attempts |-> 0, waits |-> none, left |-> e.left]
    BY DEF s, none
  <2> HIDE DEF start
  <2>6. /\ start \in Shape /\ start.state = s /\ start.attempts = 0 /\ start.waits = none
        /\ start.left = e.left
    BY <1>1, <2>1, <2>3, <2>4, <2>5
  <2>7. 0 = e.left - start.left
    BY <1>1, <2>6
  <2> QED  BY <2>1, <2>2, <2>3, <2>4, <2>6, <2>7 DEF TriedSo
<1> HIDE DEF start
<1>4. TriedSo(e, Len(errs), met)
  <2>1. \A i \in 1..Len(errs) : \A last :
          TriedSo(e, i - 1, last) => TriedSo(e, i, Tried(p, last, errs[i]))
    BY NextTry
  <2> HIDE DEF errs, p
  <2> QED  BY <1>1, <1>3, <2>1, Tries!FoldKeeps
<1> HIDE DEF met, done
<1>5. /\ met.state \in {"trying", "refused", "exhausted"} /\ met.attempts \in 0..12
      /\ met.waits \in Seq(Nat) /\ met.left \in Nat
      /\ Total(met.waits) = e.left - met.left
      /\ Len(met.waits) <= Len(errs)
      /\ \A n \in 1..Len(met.waits) :
           ~errs[n].invalid /\ met.waits[n] = R!NextRetryDelay(p, n, errs[n])
      /\ Len(met.waits) < 12
      /\ met.state = "trying" => met.attempts = Len(errs) /\ Len(met.waits) = Len(errs)
      /\ met.state = "exhausted" =>
           e.left = 0 \/ met.attempts = R!EditMaxAttempts \/ met.left < R!MaxEditInterval
  BY <1>4 DEF TriedSo, R!EditMaxAttempts
<1>6. /\ done.waits = met.waits /\ done.left = met.left
      /\ met.state = "trying" => done.state = "edited" /\ done.attempts = met.attempts + 1
      /\ met.state # "trying" => done = met
  <2>1. met \in [state : {"trying", "refused", "exhausted"}, attempts : 0..R!EditMaxAttempts,
                waits : Seq(Nat), left : Nat]
    BY <1>4 DEF TriedSo
  <2>2. CASE met.state = "trying"
    BY <1>2, <2>1, <2>2
  <2>3. CASE met.state # "trying"
    BY <1>2, <2>3
  <2> QED  BY <2>2, <2>3
<1>7. DOMAIN done.waits = 1..Len(met.waits) /\ Len(met.waits) \in Nat
  BY <1>5, <1>6
<1>8. done.attempts <= R!EditMaxAttempts
  <2>1. CASE met.state = "trying"
    <3> DEFINE a == done.attempts  l == Len(met.waits)
    <3>1. a = l + 1 /\ l < 12 /\ l \in Nat
      BY <1>5, <1>6, <1>7, <2>1
    <3> HIDE DEF a, l
    <3>2. a <= 12
      BY <3>1
    <3> QED  BY <3>2 DEF a, R!EditMaxAttempts
  <2>2. CASE met.state # "trying"
    BY <1>5, <1>6, <2>2 DEF R!EditMaxAttempts
  <2> QED  BY <2>1, <2>2
<1>9. R!Waited(done.waits) = e.left - done.left /\ done.left >= 0
  <2>1. \A w : R!Waited(w) = Total(w)
    BY DEF R!Waited, Total, Adding, R!FoldLeft, R!MapThenFoldSet
  <2> QED  BY <1>5, <1>6, <2>1
<1>10. ASSUME NEW n \in DOMAIN done.waits
       PROVE  /\ done.waits[n] \in R!EditMin..R!MaxEditInterval
              /\ \A w \in errs[n].wait : done.waits[n] >= w \/ done.waits[n] = R!MaxEditInterval
              /\ \A r \in errs[n].rpc : r.code \in R!Limits(p) /\ errs[n].wait = {} =>
                   done.waits[n] >= R!EditLimitedBase
              /\ n > 1 /\ errs[n] = errs[n - 1] => done.waits[n] >= done.waits[n - 1]
              /\ ~errs[n].invalid
  <2>1. n \in 1..Len(met.waits) /\ n \in 1..Len(errs) /\ n \in Nat \ {0}
    BY <1>1, <1>5, <1>7
  <2> DEFINE err == errs[n]  d == R!NextRetryDelay(p, n, err)
  <2>2. done.waits[n] = d /\ ~err.invalid
    BY <1>5, <1>6, <2>1
  <2>3. /\ Optional(err.wait) /\ err.wait \subseteq Nat
        /\ Optional(err.rpc) /\ (\A r \in err.rpc : r.code \in Nat) /\ TextForm(err.text)
    BY <2>1, ErrorsAre
  <2>4. n > 1 => done.waits[n - 1] = R!NextRetryDelay(p, n - 1, errs[n - 1])
    <3> DEFINE m == n - 1
    <3>1. n > 1 => m \in 1..Len(met.waits)
      BY <1>7, <2>1
    <3> HIDE DEF m
    <3>2. m \in 1..Len(met.waits) => done.waits[m] = R!NextRetryDelay(p, m, errs[m])
      BY <1>5, <1>6
    <3> QED  BY <3>1, <3>2 DEF m
  <2> HIDE DEF errs, p, err, d
  <2>5. /\ d \in R!EditMin..R!MaxEditInterval
        /\ \A w \in err.wait : d >= w \/ d = R!MaxEditInterval
        /\ \A r \in err.rpc : r.code \in R!Limits(p) /\ err.wait = {} => d >= R!EditLimitedBase
        /\ n > 1 => d >= R!NextRetryDelay(p, n - 1, err)
    BY <1>1, <2>1, <2>3, DelayIsFair DEF d
  <2>6. ASSUME n > 1, errs[n] = errs[n - 1] PROVE done.waits[n] >= done.waits[n - 1]
    <3>1. d >= R!NextRetryDelay(p, n - 1, err)
      BY <2>5, <2>6
    <3>2. done.waits[n - 1] = R!NextRetryDelay(p, n - 1, err)
      BY <2>4, <2>6 DEF err
    <3> QED  BY <2>2, <3>1, <3>2
  <2> QED  BY <2>2, <2>5, <2>6 DEF err
<1>11. done.state = "exhausted" =>
         e.left = 0 \/ done.attempts = R!EditMaxAttempts \/ done.left < R!MaxEditInterval
  BY <1>5, <1>6
<1>12. done.state = "edited" => done.attempts = Len(errs) + 1
  BY <1>5, <1>6
<1> QED  BY <1>8, <1>9, <1>10, <1>11, <1>12 DEF R!EditsHold, done

(* What fails is tried again if it may pass, at most so often and as late as *)
(* the platform or the provider asked (RetriesHold), for all errors of the   *)
(* forms that they may have.                                                 *)
THEOREM RetriesAreRight == DecisionSpec => []RetriesHold
<1>1. Looked => RetriesHold
  <2> SUFFICES ASSUME Looked PROVE RetriesHold
    OBVIOUS
  <2>1. ASSUME scene = "edit" PROVE R!EditsHold(input.platform, input.errs, input.left)
    <3>1. input \in LastEdits
      BY <2>1 DEF Looked
    <3> QED  BY <3>1, InputsAssumption, EditsAreTriedRightly
  <2>2. ASSUME scene = "failure" PROVE R!LlmRetriesHold(input.provider, input)
    <3>1. input \in Failures
      BY <2>2 DEF Looked
    <3> QED  BY <3>1, InputsAssumption, RequestsAreTriedRightly
  <2> QED  BY <2>1, <2>2 DEF RetriesHold
<1> QED  BY <1>1, AlwaysLooked, PTL

-----------------------------------------------------------------------------
(* The ids of a batch.                                                       *)

Renamed(u, k) == [u EXCEPT !.id = U!Suffixed(u.id, k)]
HasId(u) == "id" \in DOMAIN u /\ DOMAIN u.id = 1..5
Free(p, done, u) == {k \in 0..p : U!Suffixed(u.id, k) \notin {d.id : d \in U!ToSet(done)}}
Naming(p, done, u) == Append(done, Renamed(u, U!Min(Free(p, done, u))))

(* The first i updates have ids of their own, with suffixes below i.         *)
NamedSo(us, i, done) ==
  /\ done \in Seq({Renamed(us[j], k) : j \in 1..Len(us), k \in Nat}) /\ Len(done) = i
  /\ \A j \in 1..i : \E k \in 0..(i - 1) : done[j] = Renamed(us[j], k)
  /\ \A j, l \in 1..i : done[j].id = done[l].id => j = l

Names == INSTANCE FoldLaws WITH Op <- Naming, Inv <- NamedSo

LEMMA UniqueFolds == ASSUME NEW us PROVE U!EnsureUnique(us) = Names!Fold(Len(us), <<>>, us)
BY DEF U!EnsureUnique, Naming, Free, Renamed, Names!Fold, Names!FoldLeft, Names!MapThenFoldSet, Names!Max,
       U!FoldLeft, U!MapThenFoldSet, U!Max

LEMMA RenamedId ==
  ASSUME NEW u, HasId(u), NEW k
  PROVE  /\ Renamed(u, k).id = U!Suffixed(u.id, k)
         /\ U!Suffixed(u.id, k)[5] = k
         /\ Renamed(u, k).id[5] = k
         /\ DOMAIN Renamed(u, k).id = 1..5
<1>1. Renamed(u, k).id = U!Suffixed(u.id, k)
  BY DEF Renamed, HasId
<1>2. DOMAIN u.id = 1..5 /\ 5 \in 1..5
  BY DEF HasId
<1>3. U!Suffixed(u.id, k)[5] = k /\ DOMAIN U!Suffixed(u.id, k) = 1..5
  BY <1>2 DEF U!Suffixed
<1> QED  BY <1>1, <1>3

(* The next update gets an id that nobody has.                               *)
LEMMA NextName ==
  ASSUME NEW us, Len(us) \in Nat, \A j \in 1..Len(us) : HasId(us[j]),
         NEW i \in 1..Len(us), NEW done, NamedSo(us, i - 1, done)
  PROVE  NamedSo(us, i, Naming(Len(us), done, us[i]))
<1> DEFINE S == {Renamed(us[j], k) : j \in 1..Len(us), k \in Nat}
           u == us[i]
           F == Free(Len(us), done, u)
           m == U!Min(F)
           next == Renamed(u, m)
           g == Append(done, next)
           a == i - 1
<1>1. /\ done \in Seq(S) /\ Len(done) = a
      /\ \A j \in 1..a : \E k \in 0..(a - 1) : done[j] = Renamed(us[j], k)
      /\ \A j, l \in 1..a : done[j].id = done[l].id => j = l
  BY DEF NamedSo
<1>2. HasId(u) /\ a \in Nat /\ a \in 0..Len(us) /\ a + 1 = i /\ \A j \in 1..a : HasId(us[j])
  OBVIOUS
<1>3. U!ToSet(done) = {done[j] : j \in 1..a}
  BY <1>1 DEF U!ToSet
<1>4. a \in F
  <2> SUFFICES ASSUME NEW j \in 1..a, U!Suffixed(u.id, a) = done[j].id PROVE FALSE
    BY <1>2, <1>3 DEF Free
  <2> HIDE DEF a, u
  <2>1. PICK k \in 0..(a - 1) : done[j] = Renamed(us[j], k)
    BY <1>1
  <2>2. done[j].id[5] = k
    BY <1>2, <2>1, RenamedId
  <2>3. U!Suffixed(u.id, a)[5] = a
    BY <1>2, RenamedId
  <2>4. k = a
    BY <2>2, <2>3
  <2> QED  BY <1>2, <2>1, <2>4
<1>5. m \in F /\ m <= a
  <2>1. F \in SUBSET Nat
    BY DEF Free
  <2> HIDE DEF F, a
  <2>2. \E n \in F : \A l \in F : n <= l
    BY <1>4, <2>1, Names!Least
  <2>3. m \in F /\ \A l \in F : m <= l
    BY <2>2 DEF U!Min
  <2> QED  BY <1>4, <2>3
<1>6. m \in Nat /\ m \in 0..(i - 1)
  BY <1>2, <1>5 DEF Free
<1>7. \A j \in 1..a : next.id # done[j].id
  <2>1. U!Suffixed(u.id, m) \notin {d.id : d \in U!ToSet(done)}
    BY <1>5 DEF Free
  <2>2. next.id = U!Suffixed(u.id, m)
    <3> HIDE DEF m, u
    <3> QED  BY <1>2, RenamedId
  <2> HIDE DEF next, a
  <2> QED  BY <1>3, <2>1, <2>2
<1>8. next \in S
  BY <1>6
<1> HIDE DEF next, S, a, m, u, F
<1>9. /\ g \in Seq(S) /\ Len(g) = i /\ g[i] = next
      /\ \A j \in 1..a : g[j] = done[j]
  BY <1>1, <1>2, <1>8
<1> HIDE DEF g
<1>10. ASSUME NEW j \in 1..i PROVE \E k \in 0..(i - 1) : g[j] = Renamed(us[j], k)
  <2>1. CASE j = i
    BY <1>6, <1>9, <2>1 DEF next, u
  <2>2. CASE j # i
    <3>1. j \in 1..a
      BY <1>2, <2>2
    <3>2. PICK k \in 0..(a - 1) : done[j] = Renamed(us[j], k)
      BY <1>1, <3>1
    <3>3. k \in 0..(i - 1)
      BY <1>2, <3>2
    <3> QED  BY <1>9, <3>1, <3>2, <3>3
  <2> QED  BY <2>1, <2>2
<1>11. ASSUME NEW j \in 1..i, NEW l \in 1..i, g[j].id = g[l].id PROVE j = l
  <2>1. (j = i \/ j \in 1..a) /\ (l = i \/ l \in 1..a)
    BY <1>2
  <2> QED  BY <1>1, <1>7, <1>9, <1>11, <2>1
<1>12. Naming(Len(us), done, us[i]) = g
  BY DEF g, Naming, next, m, F, u
<1> QED  BY <1>9, <1>10, <1>11, <1>12 DEF NamedSo, S

(* A batch keeps its updates, each with an id of its own.                    *)
LEMMA UniqueIs ==
  ASSUME NEW us, DOMAIN us = 1..Len(us), Len(us) \in Nat, \A j \in 1..Len(us) : HasId(us[j])
  PROVE  LET done == U!EnsureUnique(us)
         IN /\ done \in Seq({done[j] : j \in DOMAIN done}) /\ Len(done) = Len(us)
            /\ DOMAIN done = 1..Len(us)
            /\ \A j \in 1..Len(us) : \E k \in Nat : done[j] = Renamed(us[j], k)
            /\ \A j, l \in 1..Len(us) : done[j].id = done[l].id => j = l
<1> DEFINE n == Len(us)  done == Names!Fold(n, <<>>, us)  none == <<>>
<1>1. NamedSo(us, 0, <<>>)
  <2>1. /\ none \in Seq({Renamed(us[j], k) : j \in 1..Len(us), k \in Nat}) /\ Len(none) = 0
        /\ 1..0 = {}
    OBVIOUS
  <2> HIDE DEF none
  <2>2. NamedSo(us, 0, none)
    BY <2>1 DEF NamedSo
  <2> QED  BY <2>2 DEF none
<1>2. \A i \in 1..n : \A a : NamedSo(us, i - 1, a) => NamedSo(us, i, Naming(n, a, us[i]))
  BY NextName
<1>3. NamedSo(us, n, done)
  <2> HIDE DEF n, none
  <2> QED  BY <1>1, <1>2, Names!FoldKeeps DEF n
<1> HIDE DEF done
<1>4. /\ done \in Seq({Renamed(us[j], k) : j \in 1..Len(us), k \in Nat}) /\ Len(done) = n
      /\ \A j \in 1..n : \E k \in 0..(n - 1) : done[j] = Renamed(us[j], k)
      /\ \A j, l \in 1..n : done[j].id = done[l].id => j = l
  BY <1>3 DEF NamedSo
<1>5. DOMAIN done = 1..n /\ done \in Seq({done[j] : j \in DOMAIN done})
  BY <1>4
<1>6. U!EnsureUnique(us) = done
  BY UniqueFolds DEF done
<1>7. \A j \in 1..n : \E k \in Nat : done[j] = Renamed(us[j], k)
  <2>1. 0..(n - 1) \subseteq Nat
    OBVIOUS
  <2> HIDE DEF n
  <2> QED  BY <1>4, <2>1
<1> QED  BY <1>4, <1>5, <1>6, <1>7

-----------------------------------------------------------------------------
(* The entities of a text.                                                   *)

Laying(text, m, i) == m \o [k \in 1..text[i] |-> i - 1]

(* The runes so far, each at the unit where it begins.                       *)
LaidSo(text, i, m) ==
  /\ m \in Seq(Nat) /\ Len(m) = U!UnitsBefore(text, i)
  /\ \A j \in 0..(i - 1) : U!UnitsBefore(text, j) \in 0..(Len(m) - 1) /\ m[U!UnitsBefore(text, j) + 1] = j

Lays == INSTANCE FoldLaws WITH Op <- Laying, Inv <- LaidSo

LEMMA UnitsFold ==
  \A text, i : U!UnitsBefore(text, i) = Sums!Fold(0, 0, SubSeq(text, 1, i))
BY DEF U!UnitsBefore, Adding, Sums!Fold, Sums!FoldLeft, Sums!MapThenFoldSet, Sums!Max, U!FoldLeft,
       U!MapThenFoldSet, U!Max

(* Each rune adds its units.                                                 *)
LEMMA UnitsGrow ==
  ASSUME NEW text \in Seq({1, 2}), NEW i \in Nat, i < Len(text)
  PROVE  U!UnitsBefore(text, i + 1) = U!UnitsBefore(text, i) + text[i + 1]
<1> DEFINE h == SubSeq(text, 1, i)  g == SubSeq(text, 1, i + 1)
<1>1. /\ Len(text) \in Nat /\ DOMAIN h = 1..i /\ DOMAIN g = 1..(i + 1)
      /\ g[i + 1] = text[i + 1] /\ \A k \in 1..i : g[k] = h[k]
  OBVIOUS
<1> HIDE DEF h, g
<1>2. Sums!Fold(0, 0, g) = Adding(0, Sums!Fold(0, 0, h), g[i + 1])
  BY <1>1, Sums!FoldAppends
<1>3. U!UnitsBefore(text, i + 1) = Sums!Fold(0, 0, g) /\ U!UnitsBefore(text, i) = Sums!Fold(0, 0, h)
  BY UnitsFold DEF g, h
<1> QED  BY <1>1, <1>2, <1>3 DEF Adding

LEMMA NoUnits ==
  ASSUME NEW text \in Seq({1, 2})
  PROVE  U!UnitsBefore(text, 0) = 0
<1> DEFINE h == SubSeq(text, 1, 0)
<1>1. DOMAIN h = 1..0
  OBVIOUS
<1> HIDE DEF h
<1>2. PICK f : Sums!IsRun(f, 0, 0, h, 0)
  BY <1>1, Sums!FoldRuns
<1>3. Sums!Fold(0, 0, h) = 0
  BY <1>2 DEF Sums!IsRun
<1> QED  BY <1>3, UnitsFold DEF h

(* The units before a rune are a number that grows with the rune.            *)
LEMMA UnitsAre ==
  ASSUME NEW text \in Seq({1, 2})
  PROVE  /\ \A i \in 0..Len(text) : U!UnitsBefore(text, i) \in Nat
         /\ \A j \in 0..Len(text) : \A i \in 0..(j - 1) :
              U!UnitsBefore(text, i) < U!UnitsBefore(text, j)
<1> DEFINE N == Len(text)  V(i) == U!UnitsBefore(text, i)
<1>1. N \in Nat /\ \A i \in 1..N : text[i] \in {1, 2}
  OBVIOUS
<1>2. V(0) = 0
  BY NoUnits
<1>3. \A i \in Nat : i < N => V(i + 1) = V(i) + text[i + 1]
  BY UnitsGrow
<1> HIDE DEF N, V
<1> DEFINE T == {j \in Nat : j <= N => V(j) \in Nat /\ \A i \in 0..(j - 1) : V(i) \in Nat /\ V(i) < V(j)}
<1>4. 0 \in T
  BY <1>2
<1>5. \A j \in T : j + 1 \in T
  <2> SUFFICES ASSUME NEW j \in T, j + 1 <= N
               PROVE  V(j + 1) \in Nat /\ \A i \in 0..(j + 1 - 1) : V(i) \in Nat /\ V(i) < V(j + 1)
    OBVIOUS
  <2>1. j \in Nat /\ j < N /\ V(j) \in Nat
        /\ \A i \in 0..(j - 1) : V(i) \in Nat /\ V(i) < V(j)
    BY <1>1
  <2>2. V(j + 1) = V(j) + text[j + 1] /\ text[j + 1] \in {1, 2}
    BY <1>1, <1>3, <2>1
  <2> DEFINE v == V(j)  w == V(j + 1)
  <2>3. v \in Nat /\ w \in Nat /\ v < w
    <3> HIDE DEF V
    <3> QED  BY <2>1, <2>2
  <2>4. ASSUME NEW i \in 0..j PROVE V(i) \in Nat /\ V(i) < w
    <3>1. CASE i = j
      BY <2>3, <3>1
    <3>2. CASE i # j
      <4>1. i \in 0..(j - 1)
        BY <2>1, <3>2
      <4>2. V(i) \in Nat /\ V(i) < v
        BY <2>1, <4>1
      <4> QED  BY <2>3, <4>2
    <3> QED  BY <3>1, <3>2
  <2>5. j + 1 - 1 = j
    BY <2>1
  <2> QED  BY <2>3, <2>4, <2>5
<1>6. T = Nat
  <2> HIDE DEF T
  <2>1. T \in SUBSET Nat
    BY DEF T
  <2> QED  BY <1>4, <1>5, <2>1, Sums!Induction
<1>7. \A j \in 0..N : j \in T /\ j <= N
  BY <1>1, <1>6
<1>8. \A j \in 0..N : V(j) \in Nat /\ \A i \in 0..(j - 1) : V(i) < V(j)
  BY <1>7
<1> QED  BY <1>8 DEF N, V

LEMMA LayFolds ==
  ASSUME NEW text
  PROVE  U!RuneFromUTF16(text) =
           Lays!Fold(text, <<>>, [i \in DOMAIN text |-> i]) \o <<Len(text)>>
BY DEF U!RuneFromUTF16, U!FoldLeftDomain, Laying, Lays!Fold, Lays!FoldLeft, Lays!MapThenFoldSet,
       Lays!Max, U!FoldLeft, U!MapThenFoldSet, U!Max

LEMMA Joined ==
  ASSUME NEW m \in Seq(Nat), NEW s \in Seq(Nat)
  PROVE  /\ m \o s \in Seq(Nat) /\ Len(m \o s) = Len(m) + Len(s)
         /\ \A k \in 1..Len(m) : (m \o s)[k] = m[k]
         /\ \A k \in 1..Len(s) : (m \o s)[Len(m) + k] = s[k]
OBVIOUS

(* The next rune.                                                            *)
LEMMA LayNext ==
  ASSUME NEW text \in Seq({1, 2}), NEW i \in 1..Len(text), NEW m, LaidSo(text, i - 1, m)
  PROVE  LaidSo(text, i, Laying(text, m, i))
<1> DEFINE a == i - 1  t == text[i]  s == [k \in 1..t |-> a]  V(j) == U!UnitsBefore(text, j)  g == m \o s
<1>1. /\ m \in Seq(Nat) /\ Len(m) = V(a) /\ Len(m) \in Nat
      /\ \A j \in 0..(a - 1) : V(j) \in 0..(Len(m) - 1) /\ m[V(j) + 1] = j
  BY DEF LaidSo
<1>2. t \in {1, 2} /\ Len(text) \in Nat /\ a \in Nat /\ a < Len(text) /\ i = a + 1
  OBVIOUS
<1>3. V(a + 1) = V(a) + text[a + 1]
  BY <1>2, UnitsGrow
<1>4. V(i) = V(a) + t
  BY <1>2, <1>3
<1> HIDE DEF a, t
<1>5. s \in Seq(Nat) /\ Len(s) = t /\ \A k \in 1..t : s[k] = a
  BY <1>2
<1> HIDE DEF s
<1>6. /\ g \in Seq(Nat) /\ Len(g) = Len(m) + t
      /\ \A k \in 1..Len(m) : g[k] = m[k]
      /\ \A k \in 1..t : g[Len(m) + k] = s[k]
  BY <1>1, <1>5, Joined
<1> HIDE DEF g, V
<1>7. Len(g) = V(i)
  BY <1>1, <1>4, <1>6
<1>8. ASSUME NEW j \in 0..(i - 1) PROVE V(j) \in 0..(Len(g) - 1) /\ g[V(j) + 1] = j
  <2> DEFINE l == Len(m)  v == V(j)  L1 == Len(g)
  <2>0. l \in Nat /\ t \in Nat /\ t >= 1 /\ L1 = l + t
    BY <1>1, <1>2, <1>6
  <2> HIDE DEF L1
  <2>1. CASE j = a
    <3>1. v = l /\ 1 \in 1..t
      BY <1>1, <1>2, <2>1
    <3>2. g[l + 1] = a
      BY <1>5, <1>6, <3>1
    <3> HIDE DEF l, v
    <3>3. v \in 0..(L1 - 1)
      BY <2>0, <3>1
    <3>4. g[v + 1] = j
      BY <2>1, <3>1, <3>2
    <3> QED  BY <3>3, <3>4 DEF v, L1
  <2>2. CASE j # a
    <3>1. j \in 0..(a - 1)
      BY <1>2, <2>2
    <3>2. v \in 0..(l - 1) /\ m[v + 1] = j
      BY <1>1, <3>1
    <3> HIDE DEF v
    <3>3. v + 1 \in 1..l
      <4> HIDE DEF l
      <4> QED  BY <2>0, <3>2
    <3>4. g[v + 1] = m[v + 1]
      BY <1>6, <3>3
    <3>5. v \in 0..(L1 - 1)
      <4> HIDE DEF l
      <4> QED  BY <2>0, <3>2
    <3> QED  BY <3>2, <3>4, <3>5 DEF v, L1
  <2> QED  BY <2>1, <2>2
<1>9. Laying(text, m, i) = g
  BY DEF Laying, g, s, t, a
<1> QED  BY <1>6, <1>7, <1>8, <1>9 DEF LaidSo, V

(* The rune that begins at a unit, and the end of the text.                  *)
LEMMA RunesAreFound ==
  ASSUME NEW text \in Seq({1, 2}), NEW full, full = U!RuneFromUTF16(text)
  PROVE  /\ Len(full) \in Nat /\ Len(full) = U!UnitsBefore(text, Len(text)) + 1
         /\ \A j \in 0..Len(text) : full[U!UnitsBefore(text, j) + 1] = j
<1> DEFINE n == Len(text)  h == [i \in DOMAIN text |-> i]  m == Lays!Fold(text, <<>>, h)  end == <<n>>
           none == <<>>
<1>1. n \in Nat /\ DOMAIN h = 1..n /\ \A i \in 1..n : h[i] = i
  OBVIOUS
<1>2. LaidSo(text, 0, none)
  <2>1. none \in Seq(Nat) /\ Len(none) = 0 /\ 0..(0 - 1) = {}
    OBVIOUS
  <2> HIDE DEF none
  <2> QED  BY <2>1, NoUnits DEF LaidSo
<1> HIDE DEF h
<1>3. \A i \in 1..n : \A a : LaidSo(text, i - 1, a) => LaidSo(text, i, Laying(text, a, h[i]))
  BY <1>1, LayNext
<1>4. LaidSo(text, n, m)
  <2> HIDE DEF n, none
  <2>1. LaidSo(text, n, Lays!Fold(text, none, h))
    BY <1>1, <1>2, <1>3, Lays!FoldKeeps
  <2> QED  BY <2>1 DEF none
<1> HIDE DEF m
<1>5. /\ m \in Seq(Nat) /\ Len(m) \in Nat /\ Len(m) = U!UnitsBefore(text, n)
      /\ \A j \in 0..(n - 1) : U!UnitsBefore(text, j) \in 0..(Len(m) - 1) /\ m[U!UnitsBefore(text, j) + 1] = j
  BY <1>4 DEF LaidSo
<1>6. full = m \o end
  BY LayFolds DEF m, h
<1>7. end \in Seq(Nat) /\ Len(end) = 1 /\ end[1] = n
  OBVIOUS
<1> HIDE DEF end
<1>8. /\ Len(full) = Len(m) + 1 /\ full[Len(m) + 1] = n
      /\ \A k \in 1..Len(m) : full[k] = m[k]
  <2>1. /\ Len(m \o end) = Len(m) + Len(end)
        /\ \A k \in 1..Len(m) : (m \o end)[k] = m[k]
        /\ \A k \in 1..Len(end) : (m \o end)[Len(m) + k] = end[k]
    BY <1>5, <1>7, Joined
  <2>2. 1 \in 1..Len(end)
    BY <1>7
  <2> QED  BY <1>6, <1>7, <2>1, <2>2
<1>9. ASSUME NEW j \in 0..n PROVE full[U!UnitsBefore(text, j) + 1] = j
  <2>1. CASE j = n
    BY <1>5, <1>8, <2>1
  <2>2. CASE j # n
    <3> DEFINE v == U!UnitsBefore(text, j)  l == Len(m)
    <3>1. j \in 0..(n - 1)
      BY <1>1, <2>2
    <3>2. v \in 0..(l - 1) /\ m[v + 1] = j
      BY <1>5, <3>1
    <3> HIDE DEF v
    <3>3. v + 1 \in 1..l
      BY <1>5, <3>2
    <3> QED  BY <1>8, <3>2, <3>3 DEF v
  <2> QED  BY <2>1, <2>2
<1> QED  BY <1>5, <1>8, <1>9

(* Where an entity begins and ends, in runes.                                *)
LEMMA EntityPlace ==
  ASSUME NEW text \in Seq({1, 2}), NEW e, U!WellFormed(text, e), NEW m, m = U!MapEntity(text, e)
  PROVE  \E i, j \in 0..Len(text) :
           /\ i < j /\ U!UnitsBefore(text, i) = e.off /\ U!UnitsBefore(text, j) = e.off + e.len
           /\ m = [type |-> e.type, off |-> i, len |-> j - i, attr |-> e.attr]
<1> DEFINE V(x) == U!UnitsBefore(text, x)  N == Len(text)  full == U!RuneFromUTF16(text)
<1>1. PICK i \in 0..N, j \in 0..N : i < j /\ V(i) = e.off /\ V(j) = e.off + e.len
  BY DEF U!WellFormed
<1>2. N \in Nat /\ V(0) = 0
  BY NoUnits
<1>3. \A k \in 0..N : V(k) \in Nat /\ \A l \in 0..(k - 1) : V(l) < V(k)
  BY UnitsAre
<1>4. /\ Len(full) = V(N) + 1
      /\ \A k \in 0..N : full[V(k) + 1] = k
  BY RunesAreFound
<1> HIDE DEF V, full, N
<1>5. ASSUME NEW k \in 0..N PROVE U!RuneIndex(full, V(k)) = k
  <2>1. CASE k = 0
    BY <1>2, <2>1 DEF U!RuneIndex
  <2>2. CASE k # 0
    <3>1. 0 \in 0..(k - 1) /\ V(0) < V(k) /\ V(k) \in Nat
      BY <1>3, <2>2
    <3>2. V(k) <= V(N) /\ V(N) \in Nat
      <4>1. N \in 0..N
        BY <1>2
      <4>2. CASE k = N
        BY <1>3, <4>1, <4>2
      <4>3. CASE k # N
        <5>1. k \in 0..(N - 1)
          BY <1>2, <4>3
        <5>2. V(k) < V(N) /\ V(N) \in Nat
          BY <1>3, <4>1, <5>1
        <5> QED  BY <3>1, <5>2
      <4> QED  BY <4>2, <4>3
    <3>3. ~(V(k) <= 0) /\ ~(V(k) >= Len(full))
      BY <1>2, <1>4, <3>1, <3>2
    <3>4. U!RuneIndex(full, V(k)) = full[V(k) + 1]
      BY <3>3 DEF U!RuneIndex
    <3> QED  BY <1>4, <3>4
  <2> QED  BY <2>1, <2>2
<1>6. U!RuneIndex(full, e.off) = i /\ U!RuneIndex(full, e.off + e.len) = j
  BY <1>1, <1>5
<1>7. m = [type |-> e.type, off |-> i, len |-> j - i, attr |-> e.attr]
  BY <1>6 DEF U!MapEntity, full
<1> QED  BY <1>1, <1>7 DEF V, N

(* An entity marks the runes it marked on the platform.                      *)
LEMMA RunesAreKept ==
  ASSUME NEW text \in Seq({1, 2}), NEW e, U!WellFormed(text, e)
  PROVE  U!EntityKeepsItsRunes(text, e)
<1> DEFINE V(x) == U!UnitsBefore(text, x)  N == Len(text)  m == U!MapEntity(text, e)
<1>1. PICK i \in 0..N, j \in 0..N :
        /\ i < j /\ V(i) = e.off /\ V(j) = e.off + e.len
        /\ m = [type |-> e.type, off |-> i, len |-> j - i, attr |-> e.attr]
  BY EntityPlace
<1>2. \A k \in 0..N : V(k) \in Nat /\ \A l \in 0..(k - 1) : V(l) < V(k)
  BY UnitsAre
<1>3. N \in Nat
  OBVIOUS
<1>4. m.off + 1 = i + 1 /\ m.off + m.len = j
  <2>1. m.off = i /\ m.len = j - i
    BY <1>1
  <2> HIDE DEF m
  <2> QED  BY <2>1
<1>5. U!RunesIn(text, e) = {k \in 1..N : V(k - 1) >= V(i) /\ V(k) <= V(j)}
  BY <1>1 DEF U!RunesIn
<1> HIDE DEF V, N
<1>6. ASSUME NEW k \in 1..N PROVE V(k - 1) >= V(i) <=> k > i
  <2> DEFINE l == k - 1
  <2>1. l \in 0..N
    BY <1>3
  <2>2. l < i => V(l) < V(i)
    BY <1>2, <1>3, <2>1
  <2>3. i < l => V(i) < V(l)
    BY <1>2, <1>3, <2>1
  <2>4. V(l) \in Nat /\ V(i) \in Nat
    BY <1>2, <2>1
  <2>5. V(l) >= V(i) <=> ~(l < i)
    <3>1. CASE l < i
      BY <2>2, <2>4, <3>1
    <3>2. CASE l = i
      BY <2>4, <3>2
    <3>3. CASE i < l
      BY <2>3, <2>4, <3>3
    <3> QED  BY <1>3, <2>1, <3>1, <3>2, <3>3
  <2> QED  BY <1>3, <2>5
<1>7. ASSUME NEW k \in 1..N PROVE V(k) <= V(j) <=> k <= j
  <2>1. k \in 0..N
    BY <1>3
  <2>2. k < j => V(k) < V(j)
    BY <1>2, <1>3, <2>1
  <2>3. j < k => V(j) < V(k)
    BY <1>2, <1>3, <2>1
  <2>4. V(k) \in Nat /\ V(j) \in Nat
    BY <1>2, <2>1
  <2>5. CASE k < j
    BY <2>2, <2>4, <2>5
  <2>6. CASE k = j
    BY <2>4, <2>6
  <2>7. CASE j < k
    BY <2>3, <2>4, <2>7
  <2> QED  BY <1>3, <2>1, <2>5, <2>6, <2>7
<1>8. {k \in 1..N : V(k - 1) >= V(i) /\ V(k) <= V(j)} = (i + 1)..j
  <2>1. {k \in 1..N : V(k - 1) >= V(i) /\ V(k) <= V(j)} = {k \in 1..N : k > i /\ k <= j}
    BY <1>6, <1>7
  <2>2. {k \in 1..N : k > i /\ k <= j} = (i + 1)..j
    BY <1>3
  <2> QED  BY <2>1, <2>2
<1> QED  BY <1>4, <1>5, <1>8 DEF U!EntityKeepsItsRunes

-----------------------------------------------------------------------------
(* Updates of Telegram.                                                      *)

Types == {"message", "edit", "delete", "reaction_add", "reaction_remove", "join", "leave", "role",
          "migration"}

(* What the payload of a type must have.                                     *)
FitPayload(type, payload) ==
  /\ type \in {"message", "edit"} =>
       payload.article # 0 /\ U!EntitiesValid(payload.text, payload.entities)
  /\ type \in {"delete", "reaction_add", "reaction_remove"} => payload.article # 0
Fit(u) ==
  /\ {"id", "type", "chat", "at", "payload"} \subseteq DOMAIN u /\ DOMAIN u.id = 1..5
  /\ u.type \in Types /\ u.chat.id # 0 /\ FitPayload(u.type, u.payload)
Batch(us) == DOMAIN us = 1..Len(us) /\ Len(us) \in Nat /\ \A j \in 1..Len(us) : Fit(us[j])

LEMMA KindsAre ==
  /\ DOMAIN U!EventKind = Types
  /\ \A type \in Types :
       /\ U!EventKind[type] \in {"article.created", "article.edited"} => type \in {"message", "edit"}
       /\ U!EventKind[type] \in {"article.retracted", "article.reaction.added", "article.reaction.removed"}
            => type \in {"delete", "reaction_add", "reaction_remove"}
BY DEF U!EventKind, Types

(* An update with what it must have makes a valid event.                     *)
LEMMA ValidEvents ==
  ASSUME NEW u, u.type \in Types, u.id # <<>>, u.chat.id # 0, FitPayload(u.type, u.payload)
  PROVE  U!Decodes(u)
<1> DEFINE ev == U!NewBaseEvent(u, 1)  kind == U!EventKind[u.type]  at == IF u.at = 0 THEN 1 ELSE u.at
<1>1. at # 0
  OBVIOUS
<1>2. u.type \in DOMAIN U!EventKind
  BY KindsAre
<1>3. /\ kind \in {"article.created", "article.edited"} =>
           u.payload.article # 0 /\ U!EntitiesValid(u.payload.text, u.payload.entities)
      /\ kind \in {"article.retracted", "article.reaction.added", "article.reaction.removed"} =>
           u.payload.article # 0
  BY KindsAre DEF FitPayload
<1>4. ev = [id |-> u.id, kind |-> kind, conversation |-> u.chat.id, at |-> at, payload |-> u.payload]
  BY DEF U!NewBaseEvent
<1> HIDE DEF ev, kind, at
<1>5. /\ ev.id = u.id /\ ev.kind = kind /\ ev.conversation = u.chat.id /\ ev.at = at
      /\ ev.payload = u.payload
  BY <1>4
<1>6. U!PayloadValid(ev)
  BY <1>3, <1>5 DEF U!PayloadValid
<1>7. U!EventValid(ev)
  BY <1>1, <1>5, <1>6 DEF U!EventValid
<1> QED  BY <1>2, <1>7 DEF U!Decodes, ev

LEMMA FitDecodes ==
  ASSUME NEW u, Fit(u), NEW k
  PROVE  U!Decodes(Renamed(u, k))
<1> DEFINE v == Renamed(u, k)
<1>1. HasId(u)
  BY DEF HasId, Fit
<1>2. v.type = u.type /\ v.chat = u.chat /\ v.payload = u.payload
  BY DEF Fit, Renamed
<1>3. DOMAIN v.id = 1..5
  BY <1>1, RenamedId
<1> HIDE DEF v
<1>4. v.id # <<>>
  BY <1>3
<1> QED  BY <1>2, <1>4, ValidEvents DEF Fit, v

LEMMA UpdateIsFit ==
  ASSUME NEW type \in Types, NEW chat, chat.id # 0, NEW actor, NEW subject, NEW at, NEW payload,
         FitPayload(type, payload)
  PROVE  Fit(U!Update(type, chat, actor, subject, at, payload))
<1> DEFINE id == <<type, chat.id, subject, at, 0>>  u == U!Update(type, chat, actor, subject, at, payload)
<1>1. DOMAIN id = 1..5
  OBVIOUS
<1> HIDE DEF id
<1>2. u = [id |-> id, type |-> type, chat |-> chat, actor |-> actor, at |-> at, payload |-> payload]
  BY DEF U!Update, id
<1> HIDE DEF u
<1>3. /\ {"id", "type", "chat", "at", "payload"} \subseteq DOMAIN u
      /\ u.id = id /\ u.type = type /\ u.chat = chat /\ u.payload = payload
  BY <1>2
<1> QED  BY <1>1, <1>3 DEF Fit, u

LEMMA One ==
  ASSUME NEW u, Fit(u)
  PROVE  Batch(<<u>>) /\ Len(<<u>>) = 1
<1> DEFINE us == <<u>>
<1>1. DOMAIN us = 1..1 /\ Len(us) = 1 /\ us[1] = u
  OBVIOUS
<1> HIDE DEF us
<1>2. Batch(us)
  BY <1>1 DEF Batch
<1> QED  BY <1>1, <1>2 DEF us

LEMMA Nothing == Batch(<<>>) /\ Len(<<>>) = 0
<1> DEFINE us == <<>>
<1>1. DOMAIN us = 1..0 /\ Len(us) = 0
  OBVIOUS
<1> HIDE DEF us
<1>2. Batch(us)
  BY <1>1 DEF Batch
<1> QED  BY <1>1, <1>2 DEF us

LEMMA Each ==
  ASSUME NEW s, List(s), NEW f, DOMAIN f = DOMAIN s, f = [i \in DOMAIN s |-> f[i]],
         \A i \in DOMAIN s : Fit(f[i])
  PROVE  Batch(f)
<1>1. DOMAIN s = 1..Len(s) /\ Len(s) \in Nat
  BY DEF List
<1>2. DOMAIN f = 1..Len(s) /\ f = [i \in 1..Len(s) |-> f[i]]
  BY <1>1
<1>3. Len(f) = Len(s)
  <2> DEFINE n == Len(s)
  <2> HIDE DEF n
  <2>1. n \in Nat /\ f = [i \in 1..n |-> f[i]]
    BY <1>1, <1>2 DEF n
  <2>2. Len(f) = n
    BY <1>1, <1>2, <2>1 DEF n
  <2> QED  BY <2>2 DEF n
<1> QED  BY <1>1, <1>2, <1>3 DEF Batch

(* Chats have identifiers.                                                   *)
LEMMA ChatsAre ==
  /\ \A n : U!ResolveActorByUserID(n) # 0
  /\ \A n, default, env : n # 0 => U!ResolveChatBy(n, default, env).id # 0
  /\ \A r, env : HasPeer(r) => U!ResolveChat(r.peer, env).id # 0
<1>1. \A n : U!ResolveActorByUserID(n) # 0
  BY DEF U!ResolveActorByUserID, U!Unknown
<1>2. \A n, default, env : U!ResolveChatBy(n, default, env).id = n
  BY DEF U!ResolveChatBy
<1>3. ASSUME NEW r, NEW env, HasPeer(r) PROVE U!ResolveChat(r.peer, env).id # 0
  <2>1. CASE r.peer.kind = "user"
    <3> DEFINE n == U!ResolveActorByUserID(r.peer.id)  c == U!ResolveChat(r.peer, env)
    <3>1. c = [id |-> n, type |-> "private"]
      BY <2>1 DEF U!ResolveChat
    <3>2. c.id = n
      BY <3>1
    <3> HIDE DEF c, n
    <3> QED  BY <1>1, <3>2 DEF c, n
  <2>2. CASE r.peer.kind = "chat"
    <3>1. U!ResolveChat(r.peer, env) = U!ResolveChatBy(r.peer.id, "group", env)
      BY <2>2 DEF U!ResolveChat
    <3>2. r.peer.id # 0
      BY <1>3, <2>2 DEF HasPeer
    <3> QED  BY <1>2, <3>1, <3>2
  <2>3. CASE r.peer.kind = "channel"
    <3>1. U!ResolveChat(r.peer, env) = U!ResolveChatBy(r.peer.id, "channel", env)
      BY <2>3 DEF U!ResolveChat
    <3>2. r.peer.id # 0
      BY <1>3, <2>3 DEF HasPeer
    <3> QED  BY <1>2, <3>1, <3>2
  <2>4. CASE r.peer.kind \notin {"user", "chat", "channel"}
    <3> DEFINE c == U!ResolveChat(r.peer, env)
    <3>1. c = [id |-> U!Unknown, type |-> "private"]
      BY <2>4 DEF U!ResolveChat
    <3>2. c.id = -1
      BY <3>1 DEF U!Unknown
    <3> HIDE DEF c
    <3> QED  BY <3>2 DEF c
  <2> QED  BY <2>1, <2>2, <2>3, <2>4
<1> QED  BY <1>1, <1>2, <1>3

LEMMA EntityIsValid ==
  ASSUME NEW text \in Seq({1, 2}), NEW e, e.type # U!None, U!WellFormed(text, e),
         NEW m, m = U!MapEntity(text, e)
  PROVE  /\ m.type # U!None /\ m.off >= 0 /\ m.len > 0 /\ m.off + m.len <= Len(text)
         /\ m.type \in U!NeedsAttr => m.attr # 0
<1> DEFINE n == Len(text)
<1>1. PICK a \in 0..n, b \in 0..n :
        /\ a < b /\ U!UnitsBefore(text, a) = e.off /\ U!UnitsBefore(text, b) = e.off + e.len
        /\ m = [type |-> e.type, off |-> a, len |-> b - a, attr |-> e.attr]
  BY EntityPlace
<1>2. m.type = e.type /\ m.off = a /\ m.len = b - a /\ m.attr = e.attr
  BY <1>1
<1>3. n \in Nat
  OBVIOUS
<1> HIDE DEF n
<1>4. a >= 0 /\ b - a > 0 /\ a + (b - a) <= n
  BY <1>1, <1>3
<1>5. e.type \in U!NeedsAttr => e.attr # 0
  BY DEF U!WellFormed
<1> QED  BY <1>2, <1>4, <1>5 DEF n

(* What is mapped of a text is valid.                                        *)
LEMMA EntitiesAreValid ==
  ASSUME NEW r, HasText(r)
  PROVE  U!EntitiesValid(r.text, [i \in DOMAIN r.entities |-> U!MapEntity(r.text, r.entities[i])])
<1> DEFINE ms == [i \in DOMAIN r.entities |-> U!MapEntity(r.text, r.entities[i])]
<1>1. r.text \in Seq({1, 2})
  BY DEF HasText
<1>2. ASSUME NEW i \in DOMAIN r.entities, NEW m, m = U!MapEntity(r.text, r.entities[i])
      PROVE  /\ m.type # U!None /\ m.off >= 0 /\ m.len > 0 /\ m.off + m.len <= Len(r.text)
             /\ m.type \in U!NeedsAttr => m.attr # 0
  <2>1. r.entities[i].type # U!None /\ U!WellFormed(r.text, r.entities[i])
    BY DEF HasText
  <2> QED  BY <1>1, <1>2, <2>1, EntityIsValid
<1>3. U!ToSet(ms) = {ms[i] : i \in DOMAIN r.entities}
  BY DEF U!ToSet
<1>4. \A i \in DOMAIN r.entities : ms[i] = U!MapEntity(r.text, r.entities[i])
  OBVIOUS
<1> HIDE DEF ms
<1>5. U!EntitiesValid(r.text, ms)
  BY <1>2, <1>3, <1>4 DEF U!EntitiesValid
<1> QED  BY <1>5 DEF ms

(* A member or a role, of a chat that there is, is fit.                      *)
LEMMA MembersAreFit ==
  ASSUME NEW chat, chat.id # 0, NEW r
  PROVE  /\ \A type \in {"join", "leave"} : \A actor, member, inviter :
              Fit(U!Member(type, chat, actor, member, inviter, r))
         /\ \A member, by, old, new : Fit(U!Role(chat, member, by, old, new, r))
<1>1. \A payload : /\ \A type \in {"join", "leave", "role", "migration"} : FitPayload(type, payload)
                  /\ {"join", "leave", "role", "migration"} \subseteq Types
  BY DEF FitPayload, Types
<1>2. ASSUME NEW type \in {"join", "leave"}, NEW actor, NEW member, NEW inviter
      PROVE  Fit(U!Member(type, chat, actor, member, inviter, r))
  <2> DEFINE payload == [member |-> member, inviter |-> inviter]  at == U!At(r)
  <2>1. U!Member(type, chat, actor, member, inviter, r) = U!Update(type, chat, actor, member, at, payload)
    BY DEF U!Member
  <2> HIDE DEF payload, at
  <2>2. FitPayload(type, payload) /\ type \in Types
    BY <1>1
  <2> QED  BY <2>1, <2>2, UpdateIsFit
<1>3. ASSUME NEW member, NEW by, NEW old, NEW new
      PROVE  Fit(U!Role(chat, member, by, old, new, r))
  <2> DEFINE payload == [member |-> member, old |-> old, new |-> new]  at == U!At(r)
  <2>1. U!Role(chat, member, by, old, new, r) = U!Update("role", chat, by, member, at, payload)
    BY DEF U!Role
  <2> HIDE DEF payload, at
  <2>2. FitPayload("role", payload) /\ "role" \in Types
    BY <1>1
  <2> QED  BY <2>1, <2>2, UpdateIsFit
<1> QED  BY <1>2, <1>3

LEMMA MessagesAreFit ==
  ASSUME NEW r, r.msg # 0, HasPeer(r), HasText(r)
  PROVE  Batch(U!MapMessage(r)) /\ Batch(U!MapEdit(r))
<1> DEFINE ms == [i \in DOMAIN r.entities |-> U!MapEntity(r.text, r.entities[i])]
           payload == [article |-> r.msg, text |-> r.text, entities |-> ms]
           chat == U!ResolveChat(r.peer, r.env)
           at == U!At(r)  sender == U!Sender(r.from, r.peer)
<1>1. U!EntitiesValid(r.text, ms)
  BY EntitiesAreValid
<1>2. /\ U!MapMessage(r) = <<U!Update("message", chat, sender, r.msg, at, payload)>>
      /\ U!MapEdit(r) = <<U!Update("edit", chat, sender, r.msg, at, payload)>>
  BY DEF U!MapMessage, U!MapEdit
<1> HIDE DEF ms
<1>3. payload.article = r.msg /\ payload.text = r.text /\ payload.entities = ms
  OBVIOUS
<1> HIDE DEF payload
<1>4. /\ FitPayload("message", payload) /\ FitPayload("edit", payload)
      /\ "message" \in Types /\ "edit" \in Types
  BY <1>1, <1>3 DEF FitPayload, Types
<1>5. chat.id # 0
  BY ChatsAre
<1> HIDE DEF chat, at, sender
<1> QED  BY <1>2, <1>4, <1>5, UpdateIsFit, One

(* What concerns an article.                                                 *)
LEMMA ArticlesAreFit ==
  ASSUME NEW chat, chat.id # 0, NEW article, article # 0,
         NEW type \in {"delete", "reaction_add", "reaction_remove"}, NEW actor, NEW at
  PROVE  Fit(U!Update(type, chat, actor, article, at, [article |-> article]))
<1> DEFINE payload == [article |-> article]
<1>1. payload.article # 0
  OBVIOUS
<1> HIDE DEF payload
<1>2. FitPayload(type, payload) /\ type \in Types
  BY <1>1 DEF FitPayload, Types
<1>3. Fit(U!Update(type, chat, actor, article, at, payload))
  BY <1>2, UpdateIsFit
<1> QED  BY <1>3 DEF payload

LEMMA DeletionsAreFit ==
  ASSUME NEW r, r.class \in {"delete", "deleteChannel"}, TelegramSends(r)
  PROVE  Batch(U!MapDelete(r))
<1> DEFINE chat == IF r.class = "deleteChannel" THEN U!ResolveChatBy(r.chat, "channel", r.env)
                   ELSE [id |-> U!Unknown, type |-> "private"]
<1>1. r.msg # 0 /\ (r.class = "deleteChannel" => r.chat # 0)
  BY DEF TelegramSends
<1>2. U!MapDelete(r) = <<U!Update("delete", chat, U!Unknown, r.msg, r.envDate, [article |-> r.msg])>>
  BY DEF U!MapDelete
<1>3. chat.id # 0
  <2>1. CASE r.class = "deleteChannel"
    BY <1>1, <2>1, ChatsAre
  <2>2. CASE r.class # "deleteChannel"
    <3>1. chat = [id |-> -1, type |-> "private"]
      BY <2>2 DEF U!Unknown
    <3>2. chat.id = -1
      BY <3>1
    <3> HIDE DEF chat
    <3> QED  BY <3>2
  <2> QED  BY <2>1, <2>2
<1> HIDE DEF chat
<1> QED  BY <1>1, <1>2, <1>3, ArticlesAreFit, One

LEMMA ReactionsAreFit ==
  ASSUME NEW r, r.msg # 0, HasPeer(r), r.action \in {"reaction_add", "reaction_remove"}
  PROVE  Batch(U!MapReaction(r))
<1> DEFINE chat == U!ResolveChat(r.peer, r.env)  from == U!ResolveActor(r.from)
           u == U!Update(r.action, chat, from, r.msg, r.envDate, [article |-> r.msg])
<1>1. chat.id # 0
  BY ChatsAre
<1>2. Fit(u)
  <2> HIDE DEF chat, from
  <2> QED  BY <1>1, ArticlesAreFit
<1>3. U!MapReaction(r) = <<u>>
  BY DEF U!MapReaction
<1> HIDE DEF u
<1> QED  BY <1>2, <1>3, One

LEMMA MigrationsAreFit ==
  ASSUME NEW chat, chat.id # 0, NEW actor, NEW subject, NEW at, NEW payload
  PROVE  Fit(U!Update("migration", chat, actor, subject, at, payload))
<1>1. FitPayload("migration", payload) /\ "migration" \in Types
  BY DEF FitPayload, Types
<1> QED  BY <1>1, UpdateIsFit

LEMMA ServicesAreFit ==
  ASSUME NEW r, HasPeer(r), List(r.users)
  PROVE  Batch(U!MapService(r))
<1> DEFINE chat == U!ResolveChat(r.peer, r.env)  actor == U!ResolveActor(r.from)
           M(i) == U!ResolveActorByUserID(r.users[i])
           f == U!MapService(r)
<1>1. chat.id # 0
  BY ChatsAre
<1>2. CASE r.act = "addUser"
  <2>1. f = [i \in DOMAIN r.users |-> U!Member("join", chat, actor, M(i), U!Inviter(actor), r)]
    BY <1>2 DEF U!MapService
  <2> HIDE DEF chat, actor, M, f
  <2>2. \A i \in DOMAIN r.users : Fit(f[i])
    BY <1>1, <2>1, MembersAreFit
  <2>3. DOMAIN f = DOMAIN r.users /\ f = [i \in DOMAIN r.users |-> f[i]]
    BY <2>1
  <2> QED  BY <2>2, <2>3, Each DEF f
<1>3. CASE r.act = "deleteUser"
  <2>1. f = <<U!Member("leave", chat, actor, M(1), 0, r)>>
    BY <1>3 DEF U!MapService
  <2> HIDE DEF chat, actor, M
  <2> QED  BY <1>1, <2>1, MembersAreFit, One
<1>4. CASE r.act = "joinedByLink"
  <2>1. f = <<U!Member("join", chat, actor, actor, U!Inviter(M(1)), r)>>
    BY <1>4 DEF U!MapService
  <2> HIDE DEF chat, actor, M
  <2> QED  BY <1>1, <2>1, MembersAreFit, One
<1>5. CASE r.act = "joinedByRequest"
  <2>1. f = <<U!Member("join", chat, actor, actor, 0, r)>>
    BY <1>5 DEF U!MapService
  <2> HIDE DEF chat, actor
  <2> QED  BY <1>1, <2>1, MembersAreFit, One
<1>6. CASE r.act = "migrateTo"
  <2>1. f = <<U!Update("migration", chat, actor, r.chat, U!At(r), [from |-> chat.id, to |-> r.chat])>>
    BY <1>6 DEF U!MapService
  <2> HIDE DEF chat, actor
  <2> QED  BY <1>1, <2>1, MigrationsAreFit, One
<1>7. CASE r.act = "migrateFrom"
  <2>1. f = <<U!Update("migration", chat, actor, chat.id, U!At(r), [from |-> r.chat, to |-> chat.id])>>
    BY <1>7 DEF U!MapService
  <2> HIDE DEF chat, actor
  <2> QED  BY <1>1, <2>1, MigrationsAreFit, One
<1>8. CASE r.act \notin {"addUser", "deleteUser", "joinedByLink", "joinedByRequest", "migrateTo", "migrateFrom"}
  <2>1. f = <<>>
    BY <1>8 DEF U!MapService
  <2> QED  BY <2>1, Nothing
<1> QED  BY <1>2, <1>3, <1>4, <1>5, <1>6, <1>7, <1>8

(* Participants: who comes or goes makes one update, a role that stays none. *)
LEMMA ParticipantsAreFit ==
  ASSUME NEW r, r.chat # 0
  PROVE  /\ Batch(U!MapParticipantAdd(r)) /\ Batch(U!MapParticipantDelete(r))
         /\ Batch(U!MapParticipantAdmin(r))
         /\ LET us == U!MapChatParticipant(r)
            IN /\ Batch(us)
               /\ U!Active(r.prev) # U!Active(r.new) => Len(us) = 1
               /\ r.prev = r.new => Len(us) = 0
         /\ LET us == U!MapChannelParticipant(r)
            IN /\ Batch(us)
               /\ U!Active(r.prev) # U!Active(r.new) => Len(us) = 1
               /\ r.prev = r.new => Len(us) = 0
<1> DEFINE group == U!ResolveChatBy(r.chat, "group", r.env)
           channel == U!ResolveChatBy(r.chat, "channel", r.env)
           by == U!ResolveActorByUserID(r.actor)  m == U!ResolveActorByUserID(r.user)
<1>1. group.id # 0 /\ channel.id # 0
  BY ChatsAre
<1>2. Batch(U!MapParticipantAdd(r))
  <2>1. U!MapParticipantAdd(r) = <<U!Member("join", group, by, m, U!Inviter(by), r)>>
    BY DEF U!MapParticipantAdd
  <2> HIDE DEF group, by, m
  <2> QED  BY <1>1, <2>1, MembersAreFit, One
<1>3. Batch(U!MapParticipantDelete(r))
  <2>1. U!MapParticipantDelete(r) = <<U!Member("leave", group, m, m, 0, r)>>
    BY DEF U!MapParticipantDelete
  <2> HIDE DEF group, m
  <2> QED  BY <1>1, <2>1, MembersAreFit, One
<1>4. Batch(U!MapParticipantAdmin(r))
  <2> DEFINE old == IF r.isAdmin THEN "member" ELSE "admin"
             new == IF r.isAdmin THEN "admin" ELSE "member"
  <2>1. U!MapParticipantAdmin(r) = <<U!Role(group, m, m, old, new, r)>>
    BY DEF U!MapParticipantAdmin
  <2> HIDE DEF group, m, old, new
  <2> QED  BY <1>1, <2>1, MembersAreFit, One
<1>5. ~U!Active(U!None)
  BY DEF U!Active
<1>6. /\ Batch(U!MapChatParticipant(r))
      /\ U!Active(r.prev) # U!Active(r.new) => Len(U!MapChatParticipant(r)) = 1
      /\ r.prev = r.new => Len(U!MapChatParticipant(r)) = 0
  <2> DEFINE us == U!MapChatParticipant(r)
             joins == r.prev = U!None /\ r.new # U!None
             leaves == r.prev # U!None /\ r.new = U!None
             join == U!Member("join", group, by, m, U!Inviter(by), r)
             leave == U!Member("leave", group, by, m, 0, r)
             role == U!Role(group, m, by, r.prev, r.new, r)
  <2>1. us = IF joins THEN <<join>> ELSE IF leaves THEN <<leave>>
             ELSE IF r.prev # r.new THEN <<role>> ELSE <<>>
    BY DEF U!MapChatParticipant
  <2>2. Fit(join) /\ Fit(leave) /\ Fit(role)
    <3> HIDE DEF group, by, m
    <3> QED  BY <1>1, MembersAreFit
  <2>3. (joins \/ leaves => r.prev # r.new) /\ (U!Active(r.prev) # U!Active(r.new) => r.prev # r.new)
    <3>1. r.prev = r.new => (U!Active(r.prev) <=> U!Active(r.new))
      OBVIOUS
    <3>2. joins \/ leaves => r.prev # r.new
      OBVIOUS
    <3> QED  BY <3>1, <3>2 DEF U!Active
  <2> HIDE DEF us, join, leave, role, joins, leaves
  <2>4. /\ Batch(<<join>>) /\ Len(<<join>>) = 1 /\ Batch(<<leave>>) /\ Len(<<leave>>) = 1
        /\ Batch(<<role>>) /\ Len(<<role>>) = 1
    BY <2>2, One
  <2>5. CASE r.prev # r.new
    <3>1. us \in {<<join>>, <<leave>>, <<role>>}
      BY <2>1, <2>5
    <3>2. Batch(us) /\ Len(us) = 1
      BY <2>4, <3>1
    <3> QED  BY <2>5, <3>2 DEF us
  <2>6. CASE r.prev = r.new
    <3>1. us = <<>>
      BY <2>1, <2>3, <2>6
    <3> QED  BY <2>3, <2>6, <3>1, Nothing DEF us
  <2> QED  BY <2>5, <2>6
<1>7. /\ Batch(U!MapChannelParticipant(r))
      /\ U!Active(r.prev) # U!Active(r.new) => Len(U!MapChannelParticipant(r)) = 1
      /\ r.prev = r.new => Len(U!MapChannelParticipant(r)) = 0
  <2> DEFINE us == U!MapChannelParticipant(r)
             joins == r.prev = U!None /\ U!Active(r.new)
             leaves == U!Active(r.prev) /\ ~U!Active(r.new)
             changes == r.prev # U!None /\ r.new # U!None /\ r.prev # r.new
             join == U!Member("join", channel, by, m, U!Inviter(by), r)
             leave == U!Member("leave", channel, by, m, 0, r)
             role == U!Role(channel, m, by, r.prev, r.new, r)
  <2>1. us = IF joins THEN <<join>> ELSE IF leaves THEN <<leave>>
             ELSE IF changes THEN <<role>> ELSE <<>>
    BY DEF U!MapChannelParticipant
  <2>2. Fit(join) /\ Fit(leave) /\ Fit(role)
    <3> HIDE DEF channel, by, m
    <3> QED  BY <1>1, MembersAreFit
  <2>3. /\ U!Active(r.prev) # U!Active(r.new) => joins \/ leaves \/ changes
        /\ joins \/ leaves \/ changes => r.prev # r.new
    <3>1. U!Active(r.prev) \in BOOLEAN /\ U!Active(r.new) \in BOOLEAN
      BY DEF U!Active
    <3>2. U!Active(r.prev) # U!Active(r.new) => (U!Active(r.prev) /\ ~U!Active(r.new)) \/ (~U!Active(r.prev) /\ U!Active(r.new))
      BY <3>1
    <3>3. ~U!Active(r.prev) /\ U!Active(r.new) => joins \/ changes
      BY <1>5
    <3>4. joins \/ leaves => r.prev # r.new
      BY <1>5
    <3> QED  BY <3>2, <3>3, <3>4
  <2> HIDE DEF us, join, leave, role, joins, leaves, changes
  <2>4. /\ Batch(<<join>>) /\ Len(<<join>>) = 1 /\ Batch(<<leave>>) /\ Len(<<leave>>) = 1
        /\ Batch(<<role>>) /\ Len(<<role>>) = 1
    BY <2>2, One
  <2>5. CASE joins \/ leaves \/ changes
    <3>1. us \in {<<join>>, <<leave>>, <<role>>}
      BY <2>1, <2>5
    <3>2. Batch(us) /\ Len(us) = 1
      BY <2>4, <3>1
    <3> QED  BY <2>3, <2>5, <3>2 DEF us
  <2>6. CASE ~(joins \/ leaves \/ changes)
    <3>1. us = <<>>
      BY <2>1, <2>6
    <3> QED  BY <2>3, <2>6, <3>1, Nothing DEF us
  <2> QED  BY <2>5, <2>6
<1> QED  BY <1>2, <1>3, <1>4, <1>6, <1>7

(* A batch of fit updates is sound once its ids are.                         *)
LEMMA BatchesAreSound ==
  ASSUME NEW us, Batch(us)
  PROVE  LET done == U!EnsureUnique(us)
         IN /\ U!Sound(done)
            /\ Len(us) = 1 => done # <<>>
            /\ Len(us) = 0 => done = <<>>
<1> DEFINE done == U!EnsureUnique(us)  n == Len(us)  ids == [i \in DOMAIN done |-> done[i].id]
<1>1. DOMAIN us = 1..n /\ n \in Nat /\ \A j \in 1..n : Fit(us[j])
  BY DEF Batch
<1>2. \A j \in 1..n : HasId(us[j])
  BY <1>1 DEF Fit, HasId
<1>3. /\ done \in Seq({done[j] : j \in DOMAIN done}) /\ Len(done) = n
      /\ DOMAIN done = 1..n
      /\ \A j \in 1..n : \E k \in Nat : done[j] = Renamed(us[j], k)
      /\ \A j, l \in 1..n : done[j].id = done[l].id => j = l
  BY <1>1, <1>2, UniqueIs
<1> HIDE DEF done
<1>4. \A i \in DOMAIN done : U!Decodes(done[i])
  <2> HIDE DEF n
  <2> QED  BY <1>1, <1>3, FitDecodes
<1>5. U!IsInjective(ids)
  <2> HIDE DEF n
  <2> QED  BY <1>3 DEF U!IsInjective
<1>6. n = 1 => done # <<>>
  <2> DEFINE none == <<>>
  <2>1. Len(none) = 0
    OBVIOUS
  <2> HIDE DEF none, n
  <2>2. n = 1 => done # none
    BY <1>3, <2>1
  <2> QED  BY <2>2 DEF none
<1>7. n = 0 => done = <<>>
  <2> DEFINE S == {done[j] : j \in DOMAIN done}
  <2>1. \A s \in Seq(S) : Len(s) = 0 => s = <<>>
    <3> HIDE DEF S
    <3> QED  OBVIOUS
  <2> HIDE DEF n
  <2> QED  BY <1>3, <2>1
<1> QED  BY <1>4, <1>5, <1>6, <1>7 DEF U!Sound, done

(* Which mapping an update takes.                                            *)
LEMMA BatchIs ==
  ASSUME NEW r
  PROVE  /\ r.class = "message" => U!MapBatch(r) = U!EnsureUnique(U!MapMessage(r))
         /\ r.class = "service" => U!MapBatch(r) = U!EnsureUnique(U!MapService(r))
         /\ r.class = "edit" => U!MapBatch(r) = U!EnsureUnique(U!MapEdit(r))
         /\ r.class \in {"delete", "deleteChannel"} => U!MapBatch(r) = U!EnsureUnique(U!MapDelete(r))
         /\ r.class = "reaction" => U!MapBatch(r) = U!EnsureUnique(U!MapReaction(r))
         /\ r.class = "participantAdd" => U!MapBatch(r) = U!EnsureUnique(U!MapParticipantAdd(r))
         /\ r.class = "participantDelete" => U!MapBatch(r) = U!EnsureUnique(U!MapParticipantDelete(r))
         /\ r.class = "participantAdmin" => U!MapBatch(r) = U!EnsureUnique(U!MapParticipantAdmin(r))
         /\ r.class = "chatParticipant" => U!MapBatch(r) = U!EnsureUnique(U!MapChatParticipant(r))
         /\ r.class = "channelParticipant" => U!MapBatch(r) = U!EnsureUnique(U!MapChannelParticipant(r))
         /\ r.class \notin {"message", "service", "edit", "delete", "deleteChannel", "reaction",
                           "participantAdd", "participantDelete", "participantAdmin",
                           "chatParticipant", "channelParticipant"}
              => U!MapBatch(r) = U!EnsureUnique(<<>>)
<1>1. r.class = "message" => U!MapBatch(r) = U!EnsureUnique(U!MapMessage(r))
  BY DEF U!MapBatch
<1>2. r.class = "service" => U!MapBatch(r) = U!EnsureUnique(U!MapService(r))
  BY DEF U!MapBatch
<1>3. r.class = "edit" => U!MapBatch(r) = U!EnsureUnique(U!MapEdit(r))
  BY DEF U!MapBatch
<1>4. r.class \in {"delete", "deleteChannel"} => U!MapBatch(r) = U!EnsureUnique(U!MapDelete(r))
  BY DEF U!MapBatch
<1>5. r.class = "reaction" => U!MapBatch(r) = U!EnsureUnique(U!MapReaction(r))
  BY DEF U!MapBatch
<1>6. r.class = "participantAdd" => U!MapBatch(r) = U!EnsureUnique(U!MapParticipantAdd(r))
  BY DEF U!MapBatch
<1>7. r.class = "participantDelete" => U!MapBatch(r) = U!EnsureUnique(U!MapParticipantDelete(r))
  BY DEF U!MapBatch
<1>8. r.class = "participantAdmin" => U!MapBatch(r) = U!EnsureUnique(U!MapParticipantAdmin(r))
  BY DEF U!MapBatch
<1>9. r.class = "chatParticipant" => U!MapBatch(r) = U!EnsureUnique(U!MapChatParticipant(r))
  BY DEF U!MapBatch
<1>10. r.class = "channelParticipant" => U!MapBatch(r) = U!EnsureUnique(U!MapChannelParticipant(r))
  BY DEF U!MapBatch
<1>11. r.class \notin {"message", "service", "edit", "delete", "deleteChannel", "reaction",
                      "participantAdd", "participantDelete", "participantAdmin",
                      "chatParticipant", "channelParticipant"}
         => U!MapBatch(r) = U!EnsureUnique(<<>>)
  BY DEF U!MapBatch
<1> QED  BY <1>1, <1>2, <1>3, <1>4, <1>5, <1>6, <1>7, <1>8, <1>9, <1>10, <1>11

(* What Telegram sends decodes, and who comes or goes is noticed.            *)
LEMMA TelegramDecodes ==
  ASSUME NEW r, TelegramSends(r)
  PROVE  U!Sound(U!MapBatch(r)) /\ U!Noticed(r)
<1> DEFINE Parts == {"participantAdd", "participantDelete", "participantAdmin", "chatParticipant",
                     "channelParticipant"}
<1>1. ASSUME r.class \notin {"chatParticipant", "channelParticipant"} PROVE U!Noticed(r)
  BY <1>1 DEF U!Noticed
<1>2. CASE r.class \in {"message", "edit"}
  <2>1. r.msg # 0 /\ HasPeer(r) /\ HasText(r)
    BY <1>2 DEF TelegramSends
  <2>2. Batch(U!MapMessage(r)) /\ Batch(U!MapEdit(r))
    BY <2>1, MessagesAreFit
  <2>3. U!MapBatch(r) \in {U!EnsureUnique(U!MapMessage(r)), U!EnsureUnique(U!MapEdit(r))}
    BY <1>2, BatchIs
  <2>4. U!Sound(U!MapBatch(r))
    BY <2>2, <2>3, BatchesAreSound
  <2>5. U!Noticed(r)
    BY <1>1, <1>2
  <2> QED  BY <2>4, <2>5
<1>3. CASE r.class = "service"
  <2>1. HasPeer(r) /\ List(r.users)
    BY <1>3 DEF TelegramSends
  <2>2. Batch(U!MapService(r)) /\ U!MapBatch(r) = U!EnsureUnique(U!MapService(r))
    BY <1>3, <2>1, ServicesAreFit, BatchIs
  <2>3. U!Noticed(r)
    BY <1>1, <1>3
  <2> QED  BY <2>2, <2>3, BatchesAreSound
<1>4. CASE r.class \in {"delete", "deleteChannel"}
  <2>1. Batch(U!MapDelete(r)) /\ U!MapBatch(r) = U!EnsureUnique(U!MapDelete(r))
    BY <1>4, DeletionsAreFit, BatchIs
  <2>2. U!Noticed(r)
    BY <1>1, <1>4
  <2> QED  BY <2>1, <2>2, BatchesAreSound
<1>5. CASE r.class = "reaction"
  <2>1. r.msg # 0 /\ HasPeer(r) /\ r.action \in {"reaction_add", "reaction_remove"}
    BY <1>5 DEF TelegramSends
  <2>2. Batch(U!MapReaction(r)) /\ U!MapBatch(r) = U!EnsureUnique(U!MapReaction(r))
    BY <1>5, <2>1, ReactionsAreFit, BatchIs
  <2>3. U!Noticed(r)
    BY <1>1, <1>5
  <2> QED  BY <2>2, <2>3, BatchesAreSound
<1>6. CASE r.class \in Parts
  <2>1. r.chat # 0
    BY <1>6 DEF TelegramSends
  <2>2. CASE r.class \in {"participantAdd", "participantDelete", "participantAdmin"}
    <3>1. \E us \in {U!MapParticipantAdd(r), U!MapParticipantDelete(r), U!MapParticipantAdmin(r)} :
            U!MapBatch(r) = U!EnsureUnique(us)
      BY <2>2, BatchIs
    <3>2. \A us \in {U!MapParticipantAdd(r), U!MapParticipantDelete(r), U!MapParticipantAdmin(r)} : Batch(us)
      BY <2>1, ParticipantsAreFit
    <3>3. U!Noticed(r)
      BY <1>1, <2>2
    <3> QED  BY <3>1, <3>2, <3>3, BatchesAreSound
  <2>3. CASE r.class \in {"chatParticipant", "channelParticipant"}
    <3>1. PICK us \in {U!MapChatParticipant(r), U!MapChannelParticipant(r)} :
            U!MapBatch(r) = U!EnsureUnique(us)
      BY <2>3, BatchIs
    <3>2. /\ Batch(us)
          /\ U!Active(r.prev) # U!Active(r.new) => Len(us) = 1
          /\ r.prev = r.new => Len(us) = 0
      BY <2>1, ParticipantsAreFit
    <3>3. /\ U!Sound(U!MapBatch(r))
          /\ Len(us) = 1 => U!MapBatch(r) # <<>>
          /\ Len(us) = 0 => U!MapBatch(r) = <<>>
      BY <3>1, <3>2, BatchesAreSound
    <3> QED  BY <3>2, <3>3 DEF U!Noticed
  <2> QED  BY <1>6, <2>2, <2>3
<1>7. CASE r.class \notin {"message", "edit", "service", "delete", "deleteChannel", "reaction"} \cup Parts
  <2>1. U!MapBatch(r) = U!EnsureUnique(<<>>)
    BY <1>7, BatchIs
  <2>2. U!Noticed(r)
    BY <1>1, <1>7
  <2> QED  BY <2>1, <2>2, Nothing, BatchesAreSound
<1> QED  BY <1>2, <1>3, <1>4, <1>5, <1>6, <1>7

(* What Discord sends decodes.                                               *)
LEMMA DiscordIsDecoded ==
  ASSUME NEW r, DiscordSends(r), NEW us, us = U!DiscordMap(r), NEW i \in DOMAIN us
  PROVE  U!DiscordDecodes(us[i])
<1>1. ASSUME NEW id, id # <<>>, NEW type \in Types \ {"migration"}, NEW chat, chat.id # 0, NEW actor,
             NEW at, NEW payload, FitPayload(type, payload),
             us = <<U!DiscordUpdate(id, type, chat, actor, at, payload)>>
      PROVE  U!DiscordDecodes(us[i])
  <2> DEFINE u == U!DiscordUpdate(id, type, chat, actor, at, payload)
  <2>1. u = [id |-> id, type |-> type, chat |-> chat, actor |-> actor, at |-> at, payload |-> payload]
    BY DEF U!DiscordUpdate
  <2> HIDE DEF u
  <2>2. u.id = id /\ u.type = type /\ u.chat = chat /\ u.payload = payload
    BY <2>1
  <2>3. U!Decodes(u)
    BY <1>1, <2>2, ValidEvents
  <2>4. us = <<u>>
    BY <1>1 DEF u
  <2>5. us[i] = u
    BY <2>4
  <2>6. u.type \notin {"migration"}
    BY <1>1, <2>2
  <2> QED  BY <2>3, <2>5, <2>6 DEF U!DiscordDecodes
<1>2. U!DiscordChat(r).id = r.chat /\ U!GuildChat(r).id = r.guild
  BY DEF U!DiscordChat, U!GuildChat
<1>3. \A a : <<a>> # <<>>
  OBVIOUS
<1>4. \A a, b, c : <<a, b, c>> # <<>>
  OBVIOUS
<1>5. \A a, b, c, d : <<a, b, c, d>> # <<>>
  OBVIOUS
<1>6. CASE r.class \in {"create", "update"}
  <2> DEFINE payload == [article |-> r.msg, text |-> r.text, entities |-> <<>>]
             type == IF r.class = "create" THEN "message" ELSE "edit"
             chat == U!DiscordChat(r)
  <2>1. us = <<U!DiscordUpdate(<<r.msg>>, type, chat, r.user, r.date, payload)>>
    BY <1>6 DEF U!DiscordMap
  <2>2. r.msg # 0 /\ chat.id # 0
    BY <1>2, <1>6 DEF DiscordSends
  <2>3. FitPayload(type, payload)
    <3>1. payload.article = r.msg /\ payload.entities = <<>>
      OBVIOUS
    <3>2. U!ToSet(<<>>) = {}
      BY DEF U!ToSet
    <3> HIDE DEF payload
    <3>3. U!EntitiesValid(payload.text, payload.entities)
      BY <3>1, <3>2 DEF U!EntitiesValid
    <3> QED  BY <2>2, <3>1, <3>3 DEF FitPayload
  <2>4. type \in Types \ {"migration"}
    BY DEF Types
  <2> HIDE DEF type, payload, chat
  <2> QED  BY <1>1, <1>3, <2>1, <2>2, <2>3, <2>4
<1>7. CASE r.class \in {"delete", "reaction_add", "reaction_remove"}
  <2> DEFINE payload == [article |-> r.msg]  chat == U!DiscordChat(r)
             id == IF r.class = "delete" THEN <<r.msg>> ELSE <<r.class, r.chat, r.msg, r.user>>
             actor == IF r.class = "delete" THEN 0 ELSE r.user
  <2>1. us = <<U!DiscordUpdate(id, r.class, chat, actor, r.date, payload)>>
    <3>1. CASE r.class = "delete"
      BY <3>1 DEF U!DiscordMap
    <3>2. CASE r.class \in {"reaction_add", "reaction_remove"}
      BY <3>2 DEF U!DiscordMap
    <3> QED  BY <1>7, <3>1, <3>2
  <2>2. r.msg # 0 /\ chat.id # 0
    BY <1>2, <1>7 DEF DiscordSends
  <2>3. id # <<>>
    BY <1>3, <1>5
  <2>4. FitPayload(r.class, payload)
    <3>1. payload.article = r.msg
      OBVIOUS
    <3> HIDE DEF payload
    <3> QED  BY <1>7, <2>2, <3>1 DEF FitPayload
  <2>5. r.class \in Types \ {"migration"}
    BY <1>7 DEF Types
  <2> HIDE DEF payload, chat, id, actor
  <2> QED  BY <1>1, <2>1, <2>2, <2>3, <2>4, <2>5
<1>8. CASE r.class \in {"join", "leave"}
  <2> DEFINE payload == [member |-> r.user, inviter |-> 0]  chat == U!GuildChat(r)
             id == <<r.class, r.guild, r.user>>
  <2>1. us = <<U!DiscordUpdate(id, r.class, chat, r.user, r.date, payload)>>
    BY <1>8 DEF U!DiscordMap
  <2>2. chat.id # 0
    BY <1>2, <1>8 DEF DiscordSends
  <2>3. id # <<>>
    BY <1>4
  <2>4. FitPayload(r.class, payload) /\ r.class \in Types \ {"migration"}
    BY <1>8 DEF FitPayload, Types
  <2> HIDE DEF payload, chat, id
  <2> QED  BY <1>1, <2>1, <2>2, <2>3, <2>4
<1>9. CASE r.class \notin {"create", "update", "delete", "reaction_add", "reaction_remove", "join", "leave"}
  <2>1. us = <<>>
    BY <1>9 DEF U!DiscordMap
  <2> QED  BY <2>1
<1> QED  BY <1>6, <1>7, <1>8, <1>9

(* Every update of a platform decodes, with ids and entities in order, and   *)
(* who comes or goes is noticed (UpdatesDecode), for every update of the     *)
(* form that the platform gives it.                                          *)
THEOREM UpdatesAreDecoded == DecisionSpec => []UpdatesDecode
<1>1. Looked => UpdatesDecode
  <2> SUFFICES ASSUME Looked PROVE UpdatesDecode
    OBVIOUS
  <2>1. ASSUME scene = "telegram"
        PROVE  /\ U!Sound(U!MapBatch(input)) /\ U!Noticed(input)
               /\ input.class \in {"message", "edit"} =>
                    \A n \in DOMAIN input.entities : U!EntityKeepsItsRunes(input.text, input.entities[n])
    <3>1. input \in TelegramUpdates
      BY <2>1 DEF Looked
    <3>2. TelegramSends(input)
      BY <3>1, InputsAssumption
    <3>3. ASSUME input.class \in {"message", "edit"}, NEW n \in DOMAIN input.entities
          PROVE  U!EntityKeepsItsRunes(input.text, input.entities[n])
      <4>1. HasText(input)
        BY <3>2, <3>3 DEF TelegramSends
      <4>2. input.text \in Seq({1, 2}) /\ U!WellFormed(input.text, input.entities[n])
        BY <3>3, <4>1 DEF HasText
      <4> QED  BY <4>2, RunesAreKept
    <3> QED  BY <3>2, <3>3, TelegramDecodes
  <2>2. ASSUME scene = "discord"
        PROVE  LET us == U!DiscordMap(input) IN \A i \in DOMAIN us : U!DiscordDecodes(us[i])
    <3>1. input \in DiscordUpdates
      BY <2>2 DEF Looked
    <3>2. DiscordSends(input)
      BY <3>1, InputsAssumption
    <3> QED  BY <3>2, DiscordIsDecoded
  <2> QED  BY <2>1, <2>2 DEF UpdatesDecode
<1> QED  BY <1>1, AlwaysLooked, PTL

-----------------------------------------------------------------------------
(* Binding.                                                                  *)

\* What becomes of a bound option and of the words read so far.
KeyOf(b) == IF b.name # C!Unnamed THEN <<"name", b.name>> ELSE <<"alias", b.alias>>
IsBound(spec, words, b) ==
  \E o \in C!ToSet(spec.options) :
    /\ b = C!Bound(o, b.value)
    /\ IF o.hasValue THEN \E t \in C!ToSet(words) : ~C!LooksLikeOption(t) /\ b.value = {t}
                     ELSE b.value = {}

\* The state with everything named, and the options that have a value.
Formed(st) ==
  st = [options |-> st.options, value |-> st.value, seen |-> st.seen, waiting |-> st.waiting,
        error |-> FALSE]
Valued(opts) == {n \in DOMAIN opts : opts[n].value # {}}
AllBound(spec, words, opts) == \A n \in DOMAIN opts : IsBound(spec, words, opts[n])
KeysOf(opts) == {KeyOf(opts[n]) : n \in DOMAIN opts}

\* After i words of q, unless they are refused: none is lost and none is read twice.
ReadSo(q, i, st) ==
  LET spec == q[1]  words == q[2]
  IN ~st.error =>
       /\ Formed(st)
       /\ List(st.options) /\ AllBound(spec, words, st.options)
       /\ st.value \in Seq({t \in C!ToSet(words) : ~C!LooksLikeOption(t)})
       /\ st.seen = KeysOf(st.options)
       /\ st.waiting = {} \/ \E o \in C!ToSet(spec.options) : o.hasValue /\ st.waiting = {o}
       /\ i = Len(st.value) + Len(st.options) + Cardinality(Valued(st.options))
                + (IF st.waiting = {} THEN 0 ELSE 1)

Reads == INSTANCE FoldLaws WITH Op <- C!ReadToken, Inv <- ReadSo
Reading(spec, words) == Reads!Fold(spec, C!Nothing, words)

Binds(text, spec) ==
  LET read == Reading(spec, Tail(text))
  IN /\ C!SpecValid(spec) /\ ~read.error /\ read.waiting = {}
     /\ \A o \in C!ToSet(spec.options) : o.required => C!RequiredKey(o) \in read.seen
Invoked(text, spec) ==
  LET read == Reading(spec, Tail(text))
  IN [name |-> C!Normal(spec.name), mention |-> Head(text).mention, options |-> read.options,
      value |-> read.value]

\* Binding, by the reading of the words.
LEMMA BindForm ==
  ASSUME NEW text, NEW spec
  PROVE  C!BindCommand(text, spec) = IF Binds(text, spec) THEN {Invoked(text, spec)} ELSE {}
<1> DEFINE read == C!FoldLeft(LAMBDA state, token : C!ReadToken(spec, state, token), C!Nothing, Tail(text))
<1>1. read = Reading(spec, Tail(text))
  BY DEF Reading, Reads!Fold, Reads!FoldLeft, Reads!MapThenFoldSet, Reads!Max, C!FoldLeft,
         C!MapThenFoldSet, C!Max
<1>2. C!BindCommand(text, spec) =
        IF /\ C!SpecValid(spec) /\ ~read.error /\ read.waiting = {}
           /\ \A o \in C!ToSet(spec.options) : o.required => C!RequiredKey(o) \in read.seen
        THEN {[name |-> C!Normal(spec.name), mention |-> Head(text).mention, options |-> read.options,
               value |-> read.value]}
        ELSE {}
  BY DEF C!BindCommand
<1> HIDE DEF read
<1> QED  BY <1>1, <1>2 DEF Binds, Invoked

-----------------------------------------------------------------------------
(* The allowlist.                                                            *)

(* A command that was made of a text is the registered one that the text    *)
(* names, or the complaint about it.                                         *)
LEMMA CommandIs ==
  ASSUME NEW specs, NEW event, NEW out, out = C!CommandOf(specs, event)
  PROVE  \/ out = <<>>
         \/ \E spec, told :
              /\ out = <<told>> /\ spec.prefix = Head(event.article.text).prefix
              /\ C!Normal(spec.name) = C!CandidateName(event.article.text)
              /\ \/ /\ told.to = "sink" /\ told.spec = spec
                    /\ told.source = event.source /\ told.conversation = event.conversation
                 \/ /\ told.to = "bus" /\ told.event.command.name = C!Normal(spec.name)
                    /\ told.event.kind = C!DerivedKind(Head(event.article.text).prefix)
                    /\ told.event.source = event.source
                    /\ told.event.conversation = event.conversation
<1> DEFINE text == event.article.text
           spec == C!The(C!Lookup(specs, Head(text).prefix, Head(text).name))
           bound == C!BindCommand(text, spec)
<1> SUFFICES ASSUME C!Lookup(specs, Head(text).prefix, Head(text).name) # {}
             PROVE  \E s, told :
              /\ out = <<told>> /\ s.prefix = Head(event.article.text).prefix
              /\ C!Normal(s.name) = C!CandidateName(event.article.text)
              /\ \/ /\ told.to = "sink" /\ told.spec = s
                    /\ told.source = event.source /\ told.conversation = event.conversation
                 \/ /\ told.to = "bus" /\ told.event.command.name = C!Normal(s.name)
                    /\ told.event.kind = C!DerivedKind(Head(event.article.text).prefix)
                    /\ told.event.source = event.source
                    /\ told.event.conversation = event.conversation
  BY DEF C!CommandOf
<1>1. C!Key(spec) = <<Head(text).prefix, C!Normal(Head(text).name)>>
  BY DEF C!The, C!Lookup
<1>2. spec.prefix = Head(text).prefix /\ C!Normal(spec.name) = C!CandidateName(text)
  BY <1>1 DEF C!Key, C!CandidateName
<1>3. out = IF C!SyntaxError(text) \/ bound = {} THEN <<C!ErrorReply(event, spec)>>
            ELSE <<C!Published(C!DerivedCommand(event, C!The(bound), Head(text).prefix))>>
  BY DEF C!CommandOf
<1>4. bound # {} => C!The(bound).name = C!Normal(spec.name)
  <2> SUFFICES ASSUME bound # {} PROVE C!The(bound).name = C!Normal(spec.name)
    OBVIOUS
  <2>1. bound = {Invoked(text, spec)}
    BY BindForm
  <2>2. Invoked(text, spec).name = C!Normal(spec.name)
    BY DEF Invoked
  <2> HIDE DEF spec, bound
  <2>3. C!The(bound) = Invoked(text, spec)
    BY <2>1 DEF C!The
  <2> QED  BY <2>2, <2>3
<1> HIDE DEF spec, bound
<1>5. CASE C!SyntaxError(text) \/ bound = {}
  <2> DEFINE told == C!ErrorReply(event, spec)
  <2>1. /\ told.to = "sink" /\ told.spec = spec
        /\ told.source = event.source /\ told.conversation = event.conversation
    BY DEF C!ErrorReply
  <2>2. out = <<told>>
    BY <1>3, <1>5
  <2> HIDE DEF told
  <2> QED  BY <1>2, <2>1, <2>2 DEF text
<1>6. CASE ~(C!SyntaxError(text) \/ bound = {})
  <2> DEFINE command == C!DerivedCommand(event, C!The(bound), Head(text).prefix)
             told == C!Published(command)
  <2>1. /\ command.kind = C!DerivedKind(Head(text).prefix) /\ command.command = C!The(bound)
        /\ command.source = event.source /\ command.conversation = event.conversation
    BY DEF C!DerivedCommand
  <2>2. told.to = "bus" /\ told.event = command
    BY DEF C!Published
  <2>3. out = <<told>>
    BY <1>3, <1>6
  <2> HIDE DEF told, command
  <2>4. told.event.command.name = C!Normal(spec.name)
    BY <1>4, <1>6, <2>1, <2>2
  <2> QED  BY <1>2, <2>1, <2>2, <2>3, <2>4 DEF text
<1> QED  BY <1>5, <1>6

(* What the dispatcher tells of an event.                                    *)
LEMMA Confines ==
  ASSUME NEW list, NEW specs, NEW event, NEW accepts
  PROVE  C!AllowlistConfines(list, specs, event, accepts)
<1> DEFINE out == C!Publish(list, specs, event, accepts)
           made == IF C!IsAllowed(list, event) THEN C!DeriveCommand(specs, event)
                   ELSE C!PublishBypassOnly(list, specs, event)
           given == IF made # <<>> /\ Head(made).to = "bus" /\ Head(made).event.kind \notin accepts
                    THEN <<>> ELSE made
           text == event.article.text
           first == C!Published(event)
           Told(d) == IF d.to = "bus" THEN d.event ELSE d
<1>1. out = IF ~C!IsAllowed(list, event) THEN given
            ELSE IF event.kind \notin accepts THEN <<>> ELSE <<first>> \o given
  BY DEF C!Publish
<1>2. first.to = "bus" /\ first.event = event
  BY DEF C!Published
<1>3. \/ given = <<>>
      \/ \E spec, told :
           /\ given = <<told>>
           /\ told.to = "bus" \/ (told.to = "sink" /\ told.spec = spec)
           /\ Told(told).source = event.source /\ Told(told).conversation = event.conversation
           /\ told # first
           /\ ~C!IsAllowed(list, event) =>
                IF told.to = "bus"
                THEN told.event.kind = "system_command" /\ told.event.command.name \in list.bypass
                ELSE told.spec.prefix = C!System /\ C!Normal(told.spec.name) \in list.bypass
  <2> SUFFICES ASSUME given # <<>>
               PROVE  \E spec, told :
           /\ given = <<told>>
           /\ told.to = "bus" \/ (told.to = "sink" /\ told.spec = spec)
           /\ Told(told).source = event.source /\ Told(told).conversation = event.conversation
           /\ told # first
           /\ ~C!IsAllowed(list, event) =>
                IF told.to = "bus"
                THEN told.event.kind = "system_command" /\ told.event.command.name \in list.bypass
                ELSE told.spec.prefix = C!System /\ C!Normal(told.spec.name) \in list.bypass
    OBVIOUS
  <2>1. given = made /\ made # <<>>
    OBVIOUS
  <2>2. made = C!CommandOf(specs, event)
    BY <2>1 DEF C!DeriveCommand, C!PublishBypassOnly
  <2>3. ~C!IsAllowed(list, event) => Head(text).prefix = C!System /\ C!CandidateName(text) \in list.bypass
    BY <2>1 DEF C!PublishBypassOnly
  <2>7. event.kind = "article.created"
    BY <2>1 DEF C!DeriveCommand, C!PublishBypassOnly, C!Commanding
  <2> HIDE DEF made, given, text, first
  <2>4. PICK spec, told :
              /\ made = <<told>> /\ spec.prefix = Head(text).prefix
              /\ C!Normal(spec.name) = C!CandidateName(text)
              /\ \/ /\ told.to = "sink" /\ told.spec = spec
                    /\ told.source = event.source /\ told.conversation = event.conversation
                 \/ /\ told.to = "bus" /\ told.event.command.name = C!Normal(spec.name)
                    /\ told.event.kind = C!DerivedKind(Head(text).prefix)
                    /\ told.event.source = event.source
                    /\ told.event.conversation = event.conversation
    BY <2>1, <2>2, CommandIs DEF text
  <2>5. C!DerivedKind(Head(text).prefix) \in {"command", "system_command"}
        /\ (Head(text).prefix = C!System => C!DerivedKind(Head(text).prefix) = "system_command")
    BY DEF C!DerivedKind
  <2>6. told # first
    BY <1>2, <2>4, <2>5, <2>7
  <2> QED  BY <2>1, <2>3, <2>4, <2>5, <2>6
<1> HIDE DEF given, first, made
<1>4. /\ ~C!IsAllowed(list, event) => \A n \in DOMAIN out :
          IF out[n].to = "bus"
          THEN out[n].event.kind = "system_command" /\ out[n].event.command.name \in list.bypass
          ELSE out[n].spec.prefix = C!System /\ C!Normal(out[n].spec.name) \in list.bypass
      /\ \A n \in DOMAIN out : Told(out[n]).source = event.source /\ Told(out[n]).conversation = event.conversation
      /\ \A m, n \in DOMAIN out : out[m] = first /\ out[n] = first => m = n
      /\ C!IsAllowed(list, event) /\ out # <<>> => Head(out) = first
  <2>1. CASE ~C!IsAllowed(list, event)
    BY <1>1, <1>3, <2>1
  <2>2. CASE C!IsAllowed(list, event) /\ event.kind \notin accepts
    BY <1>1, <2>2
  <2>3. CASE C!IsAllowed(list, event) /\ event.kind \in accepts
    <3>1. out = <<first>> \o given
      BY <1>1, <2>3
    <3>2. CASE given = <<>>
      BY <1>2, <2>3, <3>1, <3>2
    <3>3. ASSUME NEW told, given = <<told>>, told # first,
                 Told(told).source = event.source, Told(told).conversation = event.conversation
          PROVE  /\ \A n \in DOMAIN out : Told(out[n]).source = event.source
                                          /\ Told(out[n]).conversation = event.conversation
                 /\ \A m, n \in DOMAIN out : out[m] = first /\ out[n] = first => m = n
                 /\ Head(out) = first
      BY <1>2, <3>1, <3>3
    <3> QED  BY <1>3, <2>3, <3>2, <3>3
  <2> QED  BY <2>1, <2>2, <2>3
<1> HIDE DEF out
<1>5. \A d : LET told == IF d.to = "bus" THEN d.event ELSE d
             IN told.source = Told(d).source /\ told.conversation = Told(d).conversation
  OBVIOUS
<1> QED  BY <1>4 DEF C!AllowlistConfines, out, first

-----------------------------------------------------------------------------
(* Reading a text again.                                                     *)

\* A normalized spelling stays as it is, and only the empty one is normalized to it.
LEMMA NormalForms ==
  ASSUME NEW x
  PROVE  /\ C!Normal(C!Normal(x)) = C!Normal(x)
         /\ C!Normal(x) = C!Unnamed <=> x = C!Unnamed
<1>1. CASE x \in DOMAIN Capitals
  BY <1>1, SpellingsAssumption DEF C!Normal
<1>2. CASE x \notin DOMAIN Capitals
  <2>1. C!Normal(x) = x
    BY <1>2 DEF C!Normal
  <2> QED  BY <2>1
<1> QED  BY <1>1, <1>2

\* What an option is spelled with names that option alone.
LEMMA OptionNamed ==
  ASSUME NEW spec, C!SpecValid(spec), List(spec.options), NEW o \in C!ToSet(spec.options), NEW token,
         \/ token.kind = "long" /\ o.name # C!Unnamed /\ C!Normal(token.name) = C!Normal(o.name)
         \/ token.kind = "short" /\ o.alias # C!Unnamed /\ C!Normal(token.name) = C!Normal(o.alias)
  PROVE  C!OptionOf(spec, token) = {o}
<1> DEFINE s == spec.options
<1>1. s \in Seq({s[n] : n \in DOMAIN s})
  BY DEF List
<1>2. \A i \in DOMAIN s : \A j \in 1..(i - 1) :
        /\ s[i].name = C!Unnamed \/ C!Normal(s[i].name) # C!Normal(s[j].name)
        /\ s[i].alias = C!Unnamed \/ C!Normal(s[i].alias) # C!Normal(s[j].alias)
  BY DEF C!SpecValid
<1>3. PICK i \in DOMAIN s : o = s[i]
  BY DEF C!ToSet
<1>4. o \in C!OptionOf(spec, token)
  BY DEF C!OptionOf
<1>5. ASSUME NEW p \in C!OptionOf(spec, token) PROVE p = o
  <2>1. PICK j \in DOMAIN s : p = s[j]
    BY <1>5 DEF C!OptionOf, C!ToSet
  <2>2. \/ token.kind = "long" /\ p.name # C!Unnamed /\ C!Normal(p.name) = C!Normal(o.name)
                                /\ o.name # C!Unnamed
        \/ token.kind = "short" /\ p.alias # C!Unnamed /\ C!Normal(p.alias) = C!Normal(o.alias)
                                 /\ o.alias # C!Unnamed
    BY <1>5 DEF C!OptionOf
  <2> HIDE DEF s
  <2>3. i \in Nat /\ j \in Nat /\ DOMAIN s = 1..Len(s) /\ Len(s) \in Nat
    BY <1>1
  <2>4. CASE j < i
    <3>1. j \in 1..(i - 1)
      BY <1>3, <2>1, <2>3, <2>4
    <3> QED  BY <1>2, <1>3, <2>1, <2>2, <3>1
  <2>5. CASE i < j
    <3>1. i \in 1..(j - 1)
      BY <1>3, <2>1, <2>3, <2>5
    <3> QED  BY <1>2, <1>3, <2>1, <2>2, <3>1
  <2> QED  BY <1>3, <2>1, <2>3, <2>4, <2>5
<1> QED  BY <1>4, <1>5

\* A token more is a step more.
LEMMA ReadsOn ==
  ASSUME NEW spec, NEW S, NEW words \in Seq(S), NEW token \in S
  PROVE  Reading(spec, words \o <<token>>) = C!ReadToken(spec, Reading(spec, words), token)
<1> DEFINE n == Len(words)  g == words \o <<token>>
<1>1. n \in Nat /\ DOMAIN words = 1..n /\ DOMAIN g = 1..(n + 1) /\ g[n + 1] = token
      /\ \A i \in 1..n : g[i] = words[i]
  OBVIOUS
<1> HIDE DEF n, g
<1>2. Reads!Fold(spec, C!Nothing, g) = C!ReadToken(spec, Reads!Fold(spec, C!Nothing, words), g[n + 1])
  BY <1>1, Reads!FoldAppends
<1> QED  BY <1>1, <1>2 DEF Reading, g

\* Where the reading stands when it waits for no value.
Ready(st) ==
  /\ st = [options |-> st.options, value |-> st.value, seen |-> st.seen, waiting |-> {}, error |-> FALSE]
BindsNow(st, o, value) ==
  [options |-> Append(st.options, C!Bound(o, value)), value |-> st.value,
   seen |-> st.seen \cup {C!RequiredKey(o)}, waiting |-> {}, error |-> FALSE]
SaysNow(st, token) ==
  [options |-> st.options, value |-> Append(st.value, token), seen |-> st.seen,
   waiting |-> {}, error |-> FALSE]

\* The two updates of one field, as records.
LEMMA SaysIs ==
  ASSUME NEW st, NEW token,
         st = [options |-> st.options, value |-> st.value, seen |-> st.seen, waiting |-> {}, error |-> FALSE]
  PROVE  [st EXCEPT !.value = Append(@, token)] = SaysNow(st, token)
<1>1. PICK op, va, se, wa, er :
        st = [options |-> op, value |-> va, seen |-> se, waiting |-> wa, error |-> er]
        /\ wa = {} /\ er = FALSE
  OBVIOUS
<1>2. ASSUME NEW y
      PROVE  [[options |-> op, value |-> va, seen |-> se, waiting |-> wa, error |-> er] EXCEPT !.value = y]
               = [options |-> op, value |-> y, seen |-> se, waiting |-> wa, error |-> er]
  OBVIOUS
<1>3. st.options = op /\ st.value = va /\ st.seen = se
  BY <1>1
<1>4. [st EXCEPT !.value = Append(@, token)] = [st EXCEPT !.value = Append(va, token)]
  BY <1>3
<1> QED  BY <1>1, <1>2, <1>3, <1>4 DEF SaysNow

LEMMA WaitsIs ==
  ASSUME NEW st, NEW o,
         st = [options |-> st.options, value |-> st.value, seen |-> st.seen, waiting |-> st.waiting,
               error |-> FALSE]
  PROVE  [st EXCEPT !.waiting = o] =
           [options |-> st.options, value |-> st.value, seen |-> st.seen, waiting |-> o, error |-> FALSE]
<1>1. PICK op, va, se, wa, er :
        st = [options |-> op, value |-> va, seen |-> se, waiting |-> wa, error |-> er] /\ er = FALSE
  OBVIOUS
<1>2. [[options |-> op, value |-> va, seen |-> se, waiting |-> wa, error |-> er] EXCEPT !.waiting = o]
        = [options |-> op, value |-> va, seen |-> se, waiting |-> o, error |-> er]
  OBVIOUS
<1>3. st.options = op /\ st.value = va /\ st.seen = se
  BY <1>1
<1> QED  BY <1>1, <1>2, <1>3

\* An option without a value is bound at once.
LEMMA ReadsFlag ==
  ASSUME NEW spec, C!SpecValid(spec), List(spec.options), NEW o \in C!ToSet(spec.options),
         NEW S, NEW words \in Seq(S), NEW token \in S, C!OptionOf(spec, token) = {o},
         C!LooksLikeOption(token), Ready(Reading(spec, words)), ~o.hasValue
  PROVE  Reading(spec, words \o <<token>>) = BindsNow(Reading(spec, words), o, {})
<1> DEFINE st == Reading(spec, words)
           step == Reading(spec, words \o <<token>>)
<1>1. step = C!ReadToken(spec, st, token)
  BY ReadsOn
<1>2. ~st.error /\ st.waiting = {}
      /\ st = [options |-> st.options, value |-> st.value, seen |-> st.seen, waiting |-> {}, error |-> FALSE]
  BY DEF Ready
<1>3. C!The({o}) = o
  BY DEF C!The
<1> QED  BY <1>1, <1>2, <1>3 DEF C!ReadToken, BindsNow

\* An option that asks for a value is bound with the next word.
LEMMA ReadsOption ==
  ASSUME NEW spec, C!SpecValid(spec), List(spec.options), NEW o \in C!ToSet(spec.options),
         NEW S, NEW words \in Seq(S), NEW token \in S, C!OptionOf(spec, token) = {o},
         C!LooksLikeOption(token), Ready(Reading(spec, words)),
         o.hasValue, NEW value \in S, ~C!LooksLikeOption(value)
  PROVE  Reading(spec, words \o <<token, value>>) = BindsNow(Reading(spec, words), o, {value})
<1> DEFINE st == Reading(spec, words)
           step == Reading(spec, words \o <<token>>)
<1>1. step = C!ReadToken(spec, st, token)
  BY ReadsOn
<1>2. ~st.error /\ st.waiting = {}
      /\ st = [options |-> st.options, value |-> st.value, seen |-> st.seen, waiting |-> {}, error |-> FALSE]
  BY DEF Ready
<1>3. C!The({o}) = o
  BY DEF C!The
<1>4. step = [st EXCEPT !.waiting = {o}]
  BY <1>1, <1>2, <1>3 DEF C!ReadToken
<1>5. words \o <<token>> \in Seq(S) /\ words \o <<token, value>> = (words \o <<token>>) \o <<value>>
  OBVIOUS
<1>6. Reading(spec, (words \o <<token>>) \o <<value>>) = C!ReadToken(spec, step, value)
  BY <1>5, ReadsOn
<1> HIDE DEF st, step
<1>7. ~step.error /\ step.waiting = {o} /\ step.options = st.options /\ step.seen = st.seen
      /\ step.value = st.value
  <2>1. "waiting" \in DOMAIN st
    BY <1>2
  <2> QED  BY <1>2, <1>4, <2>1
<1>8. C!ReadToken(spec, step, value) = BindsNow(step, o, {value})
  <2>1. step.waiting # {} /\ C!The(step.waiting) = o
    BY <1>3, <1>7
  <2> QED  BY <1>7, <2>1 DEF C!ReadToken, BindsNow
<1>9. BindsNow(step, o, {value}) = BindsNow(st, o, {value})
  BY <1>7 DEF BindsNow
<1> QED  BY <1>5, <1>6, <1>8, <1>9 DEF st

\* A word that is no option joins the value.
LEMMA ReadsWord ==
  ASSUME NEW spec, NEW S, NEW words \in Seq(S), NEW token \in S, ~C!LooksLikeOption(token),
         NEW st, Reading(spec, words) = st, Ready(st)
  PROVE  Reading(spec, words \o <<token>>) = SaysNow(st, token)
<1> DEFINE step == Reading(spec, words \o <<token>>)
<1>1. step = C!ReadToken(spec, st, token)
  BY ReadsOn
<1>2. ~st.error /\ st.waiting = {}
      /\ st = [options |-> st.options, value |-> st.value, seen |-> st.seen, waiting |-> {}, error |-> FALSE]
  BY DEF Ready
<1>3. step = [st EXCEPT !.value = Append(@, token)]
  BY <1>1, <1>2 DEF C!ReadToken
<1> HIDE DEF step
<1> QED  BY <1>2, <1>3, SaysIs DEF step

\* The token that a bound option is written with again.
Spelled(b) == IF b.name = C!Unnamed THEN [kind |-> "short", name |-> b.alias]
                                  ELSE [kind |-> "long", name |-> b.name]

\* What was bound is bound again when it is read again.
LEMMA ReadsAgain ==
  ASSUME NEW spec, C!SpecValid(spec), SpecForm(spec), NEW all, NEW b, IsBound(spec, all, b),
         NEW S, NEW words \in Seq(S), C!ToSet(C!Rewritten(b)) \subseteq S, Ready(Reading(spec, words))
  PROVE  /\ words \o C!Rewritten(b) \in Seq(S)
         /\ Reading(spec, words \o C!Rewritten(b)) =
              [options |-> Append(Reading(spec, words).options, b), value |-> Reading(spec, words).value,
               seen |-> Reading(spec, words).seen \cup {KeyOf(b)}, waiting |-> {}, error |-> FALSE]
<1>1. PICK o \in C!ToSet(spec.options) :
        /\ b = C!Bound(o, b.value)
        /\ IF o.hasValue THEN \E t \in C!ToSet(all) : ~C!LooksLikeOption(t) /\ b.value = {t}
                         ELSE b.value = {}
  BY DEF IsBound
<1>2. /\ List(spec.options) /\ o.hasValue \in BOOLEAN /\ C!OptionValid(o)
  BY <1>1 DEF SpecForm, C!SpecValid, C!ToSet
<1>3. b.name = C!Normal(o.name) /\ b.alias = C!Normal(o.alias)
  BY <1>1 DEF C!Bound
<1> DEFINE token == Spelled(b)
<1>4. /\ C!LooksLikeOption(token)
      /\ \/ token.kind = "long" /\ o.name # C!Unnamed /\ C!Normal(token.name) = C!Normal(o.name)
         \/ token.kind = "short" /\ o.alias # C!Unnamed /\ C!Normal(token.name) = C!Normal(o.alias)
  <2>1. CASE b.name = C!Unnamed
    <3>1. token.kind = "short" /\ token.name = b.alias
      BY <2>1 DEF Spelled
    <3>2. o.name = C!Unnamed /\ o.alias # C!Unnamed
      BY <1>2, <1>3, <2>1, NormalForms DEF C!OptionValid
    <3> HIDE DEF token
    <3> QED  BY <1>3, <3>1, <3>2, NormalForms DEF C!LooksLikeOption
  <2>2. CASE b.name # C!Unnamed
    <3>1. token.kind = "long" /\ token.name = b.name
      BY <2>2 DEF Spelled
    <3>2. o.name # C!Unnamed
      BY <1>3, <2>2, NormalForms
    <3> HIDE DEF token
    <3> QED  BY <1>3, <3>1, <3>2, NormalForms DEF C!LooksLikeOption
  <2> QED  BY <2>1, <2>2
<1> HIDE DEF token
<1>5. C!OptionOf(spec, token) = {o}
  BY <1>2, <1>4, OptionNamed
<1>6. C!RequiredKey(o) = KeyOf(b)
  BY <1>3, NormalForms DEF C!RequiredKey, KeyOf
<1>7. C!Rewritten(b) = IF b.value = {} THEN <<token>> ELSE <<token, C!The(b.value)>>
  BY DEF C!Rewritten, token, Spelled
<1> DEFINE st == Reading(spec, words)
           after == [options |-> Append(st.options, b), value |-> st.value,
                     seen |-> st.seen \cup {KeyOf(b)}, waiting |-> {}, error |-> FALSE]
<1> HIDE DEF st, after
<1>8. CASE ~o.hasValue
  <2>1. b.value = {} /\ C!Rewritten(b) = <<token>>
    BY <1>1, <1>7, <1>8
  <2>2. token \in S
    BY <2>1 DEF C!ToSet
  <2>3. Reading(spec, words \o <<token>>) = BindsNow(Reading(spec, words), o, {})
    BY <1>2, <1>4, <1>5, <1>8, <2>2, ReadsFlag
  <2>4. C!Bound(o, {}) = b
    BY <1>1, <2>1
  <2>5. BindsNow(st, o, {}) = after
    BY <1>6, <2>4 DEF BindsNow, after
  <2>6. words \o <<token>> \in Seq(S)
    BY <2>2
  <2> QED  BY <2>1, <2>3, <2>5, <2>6 DEF st, after
<1>9. CASE o.hasValue
  <2>1. PICK t : ~C!LooksLikeOption(t) /\ b.value = {t}
    BY <1>1, <1>9
  <2>2. C!The(b.value) = t
    BY <2>1 DEF C!The
  <2>3. C!Rewritten(b) = <<token, t>>
    BY <1>7, <2>1, <2>2
  <2>4. token \in S /\ t \in S
    <3>1. <<token, t>>[1] = token /\ <<token, t>>[2] = t /\ DOMAIN <<token, t>> = {1, 2}
      OBVIOUS
    <3> QED  BY <2>3, <3>1 DEF C!ToSet
  <2>5. Reading(spec, words \o <<token, t>>) = BindsNow(Reading(spec, words), o, {t})
    BY <1>2, <1>4, <1>5, <1>9, <2>1, <2>4, ReadsOption
  <2>6. C!Bound(o, {t}) = b
    BY <1>1, <2>1
  <2>7. BindsNow(st, o, {t}) = after
    BY <1>6, <2>6 DEF BindsNow, after
  <2>8. words \o <<token, t>> \in Seq(S)
    BY <2>4
  <2> QED  BY <2>3, <2>5, <2>7, <2>8 DEF st, after
<1> QED  BY <1>2, <1>8, <1>9 DEF st, after

\* Nothing is read of no words.
LEMMA ReadsNothing ==
  ASSUME NEW spec
  PROVE  Reading(spec, <<>>) = C!Nothing
<1>1. DOMAIN <<>> = 1..0 /\ 0 \in Nat
  OBVIOUS
<1>2. \E f : Reads!IsRun(f, spec, C!Nothing, <<>>, 0)
  BY <1>1, Reads!FoldRuns
<1> QED  BY <1>2 DEF Reads!IsRun, Reading

\* What is read of the words that the first i options of q are written with again.
WriteOption(p, words, b) == words \o C!Rewritten(b)
ReadUpTo(opts, i) ==
  [options |-> SubSeq(opts, 1, i), value |-> <<>>, seen |-> {KeyOf(opts[n]) : n \in 1..i},
   waiting |-> {}, error |-> FALSE]
WrittenSo(q, i, words) ==
  LET spec == q[1]  opts == q[2]  S == q[3]
  IN words \in Seq(S) /\ Reading(spec, words) = ReadUpTo(opts, i)
Writes == INSTANCE FoldLaws WITH Op <- WriteOption, Inv <- WrittenSo

\* The options, written again, are read as they were bound.
LEMMA WritesOptions ==
  ASSUME NEW spec, C!SpecValid(spec), SpecForm(spec), NEW all, NEW S,
         NEW opts, NEW k \in Nat, DOMAIN opts = 1..k, List(opts),
         \A n \in DOMAIN opts : IsBound(spec, all, opts[n]) /\ C!ToSet(C!Rewritten(opts[n])) \subseteq S
  PROVE  WrittenSo(<<spec, opts, S>>, k, Writes!Fold(0, <<>>, opts))
<1> DEFINE q == <<spec, opts, S>>
<1>1. q[1] = spec /\ q[2] = opts /\ q[3] = S
  OBVIOUS
<1> HIDE DEF q
<1> DEFINE B == {opts[n] : n \in DOMAIN opts}
<1>2. opts \in Seq(B) /\ Len(opts) = k
  BY DEF List
<1> HIDE DEF B
<1>3. WrittenSo(q, 0, <<>>)
  <2>1. SubSeq(opts, 1, 0) = <<>>
    BY <1>2
  <2>2. {KeyOf(opts[n]) : n \in 1..0} = {}
    OBVIOUS
  <2>3. ReadUpTo(opts, 0) = C!Nothing
    BY <2>1, <2>2 DEF ReadUpTo, C!Nothing
  <2>4. <<>> \in Seq(S)
    OBVIOUS
  <2> QED  BY <1>1, <2>3, <2>4, ReadsNothing DEF WrittenSo
<1>4. ASSUME NEW i \in 1..k, NEW words, WrittenSo(q, i - 1, words)
      PROVE  WrittenSo(q, i, WriteOption(0, words, opts[i]))
  <2> DEFINE st == Reading(spec, words)  b == opts[i]  was == ReadUpTo(opts, i - 1)
  <2>1. words \in Seq(S) /\ st = was
    BY <1>1, <1>4 DEF WrittenSo
  <2>2. was.options = SubSeq(opts, 1, i - 1) /\ was.value = <<>>
        /\ was.seen = {KeyOf(opts[n]) : n \in 1..(i - 1)} /\ Ready(was)
    BY DEF ReadUpTo, Ready
  <2>3. IsBound(spec, all, b) /\ C!ToSet(C!Rewritten(b)) \subseteq S
    OBVIOUS
  <2> DEFINE now == words \o C!Rewritten(b)
  <2>4. /\ now \in Seq(S)
        /\ Reading(spec, now) =
              [options |-> Append(st.options, b), value |-> st.value,
               seen |-> st.seen \cup {KeyOf(b)}, waiting |-> {}, error |-> FALSE]
    <3> HIDE DEF b, was
    <3>1. Ready(Reading(spec, words))
      BY <2>1, <2>2
    <3> QED  BY <2>1, <2>3, <3>1, ReadsAgain
  <2>5. Append(SubSeq(opts, 1, i - 1), b) = SubSeq(opts, 1, i)
    BY <1>2
  <2>6. {KeyOf(opts[n]) : n \in 1..(i - 1)} \cup {KeyOf(b)} = {KeyOf(opts[n]) : n \in 1..i}
    <3>1. 1..i = 1..(i - 1) \cup {i}
      OBVIOUS
    <3> QED  BY <3>1
  <2> HIDE DEF st, b, was, now
  <2>7. Reading(spec, now) = ReadUpTo(opts, i)
    BY <2>1, <2>2, <2>4, <2>5, <2>6 DEF ReadUpTo
  <2>8. now = WriteOption(0, words, opts[i])
    BY DEF now, b, WriteOption
  <2> QED  BY <1>1, <2>4, <2>7, <2>8 DEF WrittenSo
<1>5. WrittenSo(q, k, Writes!Fold(0, <<>>, opts))
  BY <1>3, <1>4, Writes!FoldKeeps
<1> QED  BY <1>5 DEF q

\* Sequences that are put together.
LEMMA JoinsOne ==
  ASSUME NEW S, NEW a \in Seq(S), NEW b \in Seq(S), NEW t \in S
  PROVE  a \o b \in Seq(S) /\ a \o Append(b, t) = (a \o b) \o <<t>>
OBVIOUS

\* The value's words follow the options.
LEMMA WritesValue ==
  ASSUME NEW spec, NEW S, NEW words \in Seq(S), NEW st, Reading(spec, words) = st, Ready(st),
         st.value = <<>>, NEW value \in Seq({t \in S : ~C!LooksLikeOption(t)})
  PROVE  Reading(spec, words \o value) =
           [options |-> st.options, value |-> value, seen |-> st.seen, waiting |-> {}, error |-> FALSE]
<1> DEFINE V == {t \in S : ~C!LooksLikeOption(t)}
           k == Len(value)
           upto(i) == SubSeq(value, 1, i)
           now(i) == [options |-> st.options, value |-> upto(i), seen |-> st.seen, waiting |-> {}, error |-> FALSE]
           T == {i \in Nat : i <= k => Reading(spec, words \o upto(i)) = now(i)}
<1>1. k \in Nat /\ \A i \in 1..k : value[i] \in V
  OBVIOUS
<1>2. value \in Seq(S)
  OBVIOUS
<1>3. 0 \in T
  <2>1. words \o upto(0) = words /\ upto(0) = <<>>
    OBVIOUS
  <2>2. st = [options |-> st.options, value |-> <<>>, seen |-> st.seen, waiting |-> {}, error |-> FALSE]
    BY DEF Ready
  <2> HIDE DEF upto
  <2> QED  BY <2>1, <2>2
<1>4. ASSUME NEW i \in T PROVE i + 1 \in T
  <2> SUFFICES ASSUME i + 1 <= k PROVE Reading(spec, words \o upto(i + 1)) = now(i + 1)
    BY DEF T
  <2>1. i \in Nat /\ i <= k /\ i + 1 \in 1..k /\ Reading(spec, words \o upto(i)) = now(i)
    BY <1>1
  <2> DEFINE t == value[i + 1]  was == upto(i)  more == upto(i + 1)  before == now(i)
  <2>2. t \in S /\ ~C!LooksLikeOption(t)
    BY <1>1, <2>1
  <2>3. was \in Seq(S) /\ more = Append(was, t)
    BY <1>2, <2>1
  <2>4. /\ before.options = st.options /\ before.seen = st.seen /\ before.value = was /\ Ready(before)
        /\ now(i + 1) = [options |-> st.options, value |-> more, seen |-> st.seen,
                          waiting |-> {}, error |-> FALSE]
    BY DEF Ready
  <2>5. Reading(spec, words \o was) = before
    BY <2>1
  <2> SUFFICES Reading(spec, words \o more) = [options |-> st.options, value |-> more, seen |-> st.seen,
                                               waiting |-> {}, error |-> FALSE]
    BY <2>4
  <2> HIDE DEF t, was, more, before, T
  <2>6. words \o was \in Seq(S) /\ words \o more = (words \o was) \o <<t>>
    BY <2>2, <2>3, JoinsOne
  <2> DEFINE read == words \o was
  <2> HIDE DEF read
  <2>7. read \in Seq(S) /\ Reading(spec, read) = before
    BY <2>5, <2>6 DEF read
  <2>8. Reading(spec, read \o <<t>>) = SaysNow(before, t)
    BY <2>2, <2>4, <2>7, ReadsWord
  <2> QED  BY <2>3, <2>4, <2>6, <2>8 DEF read, SaysNow
<1>5. T = Nat
  <2> HIDE DEF T
  <2>1. T \in SUBSET Nat
    BY DEF T
  <2> QED  BY <1>3, <1>4, <2>1, Reads!Induction
<1>6. upto(k) = value
  OBVIOUS
<1> HIDE DEF upto
<1> QED  BY <1>1, <1>5, <1>6

-----------------------------------------------------------------------------
(* What has been read of a text.                                             *)

\* A bound option more.
Adds(spec, words, opts, b, more) ==
  /\ List(more) /\ Len(more) = Len(opts) + 1 /\ AllBound(spec, words, more)
  /\ KeysOf(more) = KeysOf(opts) \cup {KeyOf(b)}
  /\ Cardinality(Valued(opts)) \in Nat
  /\ Cardinality(Valued(more)) = Cardinality(Valued(opts)) + (IF b.value = {} THEN 0 ELSE 1)

LEMMA BoundMore ==
  ASSUME NEW spec, NEW words, NEW opts, List(opts), AllBound(spec, words, opts),
         NEW b, IsBound(spec, words, b)
  PROVE  Adds(spec, words, opts, b, Append(opts, b))
<1> DEFINE more == Append(opts, b)
<1> DEFINE k == Len(opts)
<1>1. /\ k \in Nat /\ DOMAIN opts = 1..k /\ DOMAIN more = 1..(k + 1) /\ more[k + 1] = b
      /\ Len(more) = k + 1 /\ \A n \in 1..k : more[n] = opts[n]
      /\ more \in Seq({opts[n] : n \in DOMAIN opts} \cup {b})
  <2>1. opts \in Seq({opts[n] : n \in DOMAIN opts})
    BY DEF List
  <2> DEFINE B == {opts[n] : n \in DOMAIN opts}
  <2> HIDE DEF B
  <2> QED  BY <2>1 DEF B
<1> HIDE DEF k, more
<1>2. List(more)
  <2>1. \A n \in DOMAIN more : more[n] \in {more[m] : m \in DOMAIN more}
    OBVIOUS
  <2> DEFINE M == {more[m] : m \in DOMAIN more}
  <2> HIDE DEF M
  <2>2. more \in Seq(M)
    BY <1>1, <2>1 DEF M
  <2> QED  BY <2>2 DEF List, M
<1>3. AllBound(spec, words, more)
  BY <1>1 DEF AllBound
<1>4. KeysOf(more) = KeysOf(opts) \cup {KeyOf(b)}
  <2>1. 1..(k + 1) = 1..k \cup {k + 1}
    BY <1>1
  <2> QED  BY <1>1, <2>1 DEF KeysOf
<1>5. IsFiniteSet(Valued(opts)) /\ k + 1 \notin Valued(opts)
  <2>1. IsFiniteSet(1..k)
    BY <1>1, FS_Interval
  <2>2. Valued(opts) \subseteq 1..k
    BY <1>1 DEF Valued
  <2> QED  BY <1>1, <2>1, <2>2, FS_Subset
<1>6. Cardinality(Valued(opts)) \in Nat
  BY <1>5, FS_CardinalityType
<1>7. Valued(more) = IF b.value = {} THEN Valued(opts) ELSE Valued(opts) \cup {k + 1}
  <2>1. 1..(k + 1) = 1..k \cup {k + 1}
    BY <1>1
  <2> QED  BY <1>1, <2>1 DEF Valued
<1>8. Cardinality(Valued(more)) = Cardinality(Valued(opts)) + (IF b.value = {} THEN 0 ELSE 1)
  <2>1. CASE b.value = {}
    BY <1>6, <1>7, <2>1
  <2>2. CASE b.value # {}
    BY <1>5, <1>7, <2>2, FS_AddElement
  <2> QED  BY <2>1, <2>2
<1> QED  BY <1>1, <1>2, <1>3, <1>4, <1>6, <1>8 DEF k, more, Adds

\* Finitely many options have a value.
LEMMA BoundCount ==
  ASSUME NEW opts, List(opts)
  PROVE  Cardinality(Valued(opts)) \in Nat
<1> DEFINE B == {opts[n] : n \in DOMAIN opts}
<1>1. opts \in Seq(B)
  BY DEF List
<1> HIDE DEF B
<1>2. IsFiniteSet(DOMAIN opts)
  BY <1>1, FS_Interval
<1>3. Valued(opts) \in SUBSET (DOMAIN opts)
  BY DEF Valued
<1>4. IsFiniteSet(Valued(opts))
  BY <1>2, <1>3, FS_Subset
<1> QED  BY <1>4, FS_CardinalityType

\* Each word keeps what is read so far.
LEMMA ReadKeeps ==
  ASSUME NEW spec, C!SpecValid(spec), SpecForm(spec), NEW words, NEW i \in Nat \ {0}, NEW token,
         token \in C!ToSet(words), NEW st, ReadSo(<<spec, words>>, i - 1, st)
  PROVE  ReadSo(<<spec, words>>, i, C!ReadToken(spec, st, token))
<1> DEFINE q == <<spec, words>>  next == C!ReadToken(spec, st, token)
           V == {t \in C!ToSet(words) : ~C!LooksLikeOption(t)}
<1> SUFFICES ReadSo(q, i, next)
  OBVIOUS
<1>1. q[1] = spec /\ q[2] = words
  OBVIOUS
<1> HIDE DEF q
<1>2. CASE st.error
  <2>1. next = st
    BY <1>2 DEF C!ReadToken
  <2> QED  BY <1>2, <2>1 DEF ReadSo
<1>3. CASE ~st.error
  <2>1. /\ Formed(st)
        /\ List(st.options) /\ AllBound(spec, words, st.options)
        /\ st.value \in Seq(V)
        /\ st.seen = KeysOf(st.options)
        /\ st.waiting = {} \/ \E o \in C!ToSet(spec.options) : o.hasValue /\ st.waiting = {o}
        /\ i - 1 = Len(st.value) + Len(st.options) + Cardinality(Valued(st.options))
                + (IF st.waiting = {} THEN 0 ELSE 1)
    BY <1>1, <1>3 DEF ReadSo
  <2>2. Len(st.value) \in Nat /\ Len(st.options) \in Nat
    <3>1. Len(st.value) \in Nat
      BY <2>1
    <3> DEFINE B == {st.options[n] : n \in DOMAIN st.options}
    <3>2. st.options \in Seq(B)
      BY <2>1 DEF List
    <3> HIDE DEF B
    <3> QED  BY <3>1, <3>2
  <2> HIDE DEF V
  \* an option that is bound now
  <2>3. ASSUME NEW o \in C!ToSet(spec.options), NEW value, next = BindsNow(st, o, value),
               IF o.hasValue THEN ~C!LooksLikeOption(token) /\ value = {token} /\ st.waiting = {o}
               ELSE value = {} /\ st.waiting = {}
        PROVE  ReadSo(q, i, next)
    <3> DEFINE b == C!Bound(o, value)  opts == Append(st.options, b)
    <3>1. b.value = value /\ b.name = C!Normal(o.name) /\ b.alias = C!Normal(o.alias)
      BY DEF C!Bound
    <3>2. IsBound(spec, words, b)
      <4>1. b = C!Bound(o, b.value)
        BY <3>1
      <4> QED  BY <2>3, <3>1, <4>1 DEF IsBound
    <3>3. C!RequiredKey(o) = KeyOf(b)
      BY <3>1, NormalForms DEF C!RequiredKey, KeyOf
    <3> HIDE DEF b
    <3>4. next = [options |-> opts, value |-> st.value, seen |-> st.seen \cup {KeyOf(b)},
                  waiting |-> {}, error |-> FALSE]
      BY <2>3, <3>3 DEF BindsNow, b
    <3> HIDE DEF opts, next
    <3>5. Adds(spec, words, st.options, b, opts)
      BY <2>1, <3>2, BoundMore DEF opts
    <3>6. i = Len(st.value) + Len(opts) + Cardinality(Valued(opts))
      <4> DEFINE v == Cardinality(Valued(st.options))  w == Cardinality(Valued(opts))
                 e == IF st.waiting = {} THEN 0 ELSE 1
                 l == Len(st.value)  m == Len(st.options)  n == Len(opts)
      <4>1. w = v + e
        BY <2>3, <3>1, <3>5 DEF Adds
      <4>2. i - 1 = l + m + v + e
        BY <2>1
      <4>3. n = m + 1 /\ l \in Nat /\ m \in Nat /\ v \in Nat /\ e \in Nat
        BY <2>2, <3>5 DEF Adds
      <4> HIDE DEF v, w, e, l, m, n
      <4>4. i = l + n + w
        BY <4>1, <4>2, <4>3
      <4> QED  BY <4>4 DEF w, l, n
    <3>7. next.options = opts /\ next.value = st.value /\ next.seen = st.seen \cup {KeyOf(b)}
          /\ next.waiting = {} /\ Formed(next)
      BY <3>4 DEF Formed
    <3>8. i = Len(next.value) + Len(next.options) + Cardinality(Valued(next.options))
                + (IF next.waiting = {} THEN 0 ELSE 1)
      BY <3>6, <3>7
    <3> QED  BY <1>1, <2>1, <3>5, <3>7, <3>8 DEF ReadSo, V, Adds
  <2>4. CASE st.waiting # {}
    <3>1. PICK o \in C!ToSet(spec.options) : o.hasValue /\ st.waiting = {o}
      BY <2>1, <2>4
    <3>2. C!The(st.waiting) = o
      BY <3>1 DEF C!The
    <3>3. CASE C!LooksLikeOption(token)
      <4>1. next = [st EXCEPT !.error = TRUE]
        BY <1>3, <2>4, <3>3 DEF C!ReadToken
      <4>2. "error" \in DOMAIN st
        BY <2>1 DEF Formed
      <4> HIDE DEF next
      <4>3. next.error
        BY <4>1, <4>2
      <4> QED  BY <4>3 DEF ReadSo
    <3>4. CASE ~C!LooksLikeOption(token)
      <4>1. next = BindsNow(st, o, {token})
        BY <1>3, <2>4, <3>2, <3>4 DEF C!ReadToken, BindsNow
      <4> QED  BY <2>3, <3>1, <3>4, <4>1
    <3> QED  BY <3>3, <3>4
  <2>5. CASE st.waiting = {} /\ ~C!LooksLikeOption(token)
    <3>1. next = SaysNow(st, token)
      <4>1. next = [st EXCEPT !.value = Append(@, token)]
        BY <1>3, <2>5 DEF C!ReadToken
      <4> HIDE DEF next
      <4>2. st = [options |-> st.options, value |-> st.value, seen |-> st.seen,
                  waiting |-> {}, error |-> FALSE]
        BY <2>1, <2>5 DEF Formed
      <4> QED  BY <4>1, <4>2, SaysIs
    <3> HIDE DEF next
    <3>2. /\ next.options = st.options /\ next.value = Append(st.value, token) /\ next.seen = st.seen
          /\ next.waiting = {} /\ Formed(next)
      BY <3>1 DEF SaysNow, Formed
    <3>3. next.value \in Seq(V) /\ Len(next.value) = Len(st.value) + 1
      <4>1. token \in V
        BY <2>5 DEF V
      <4> QED  BY <2>1, <3>2, <4>1
    <3>4. Cardinality(Valued(st.options)) \in Nat
      BY <2>1, BoundCount
    <3>5. i = Len(next.value) + Len(next.options) + Cardinality(Valued(next.options))
                + (IF next.waiting = {} THEN 0 ELSE 1)
      <4> DEFINE v == Cardinality(Valued(st.options))  l == Len(st.value)  m == Len(st.options)
      <4>1. i - 1 = l + m + v /\ l \in Nat /\ m \in Nat /\ v \in Nat
        <5>1. l \in Nat /\ m \in Nat /\ v \in Nat
          BY <2>2, <3>4
        <5>2. i - 1 = l + m + v + 0
          BY <2>1, <2>5
        <5> HIDE DEF l, m, v
        <5> QED  BY <5>1, <5>2
      <4>2. Len(next.value) = l + 1 /\ Len(next.options) = m /\ Cardinality(Valued(next.options)) = v
            /\ next.waiting = {}
        BY <3>2, <3>3
      <4> HIDE DEF v, l, m
      <4>3. i = l + 1 + m + v
        BY <4>1
      <4> QED  BY <4>1, <4>2, <4>3
    <3> QED  BY <1>1, <2>1, <3>2, <3>3, <3>5 DEF ReadSo, V
  <2>6. CASE st.waiting = {} /\ C!LooksLikeOption(token) /\ C!OptionOf(spec, token) = {}
    <3>1. next = [st EXCEPT !.error = TRUE]
      BY <1>3, <2>6 DEF C!ReadToken
    <3>2. "error" \in DOMAIN st
      BY <2>1 DEF Formed
    <3> HIDE DEF next
    <3>3. next.error
      BY <3>1, <3>2
    <3> QED  BY <3>3 DEF ReadSo
  <2>7. CASE st.waiting = {} /\ C!LooksLikeOption(token) /\ C!OptionOf(spec, token) # {}
    <3> DEFINE o == C!The(C!OptionOf(spec, token))
    <3>1. o \in C!OptionOf(spec, token)
      BY <2>7 DEF C!The
    <3> HIDE DEF o
    <3>2. o \in C!ToSet(spec.options)
      BY <3>1 DEF C!OptionOf
    <3>3. o.hasValue \in BOOLEAN
      BY <3>2 DEF SpecForm, C!ToSet
    <3>4. CASE o.hasValue
      <4>1. C!OptionOf(spec, token) = {o}
        <5>1. List(spec.options)
          BY DEF SpecForm
        <5>2. \/ token.kind = "long" /\ o.name # C!Unnamed /\ C!Normal(token.name) = C!Normal(o.name)
              \/ token.kind = "short" /\ o.alias # C!Unnamed /\ C!Normal(token.name) = C!Normal(o.alias)
          BY <2>7, <3>1 DEF C!OptionOf, C!LooksLikeOption
        <5> QED  BY <3>2, <5>1, <5>2, OptionNamed
      <4>2. next = [st EXCEPT !.waiting = {o}]
        BY <1>3, <2>7, <3>4, <4>1 DEF C!ReadToken, o
      <4> HIDE DEF next
      <4>3. DOMAIN st = {"options", "value", "seen", "waiting", "error"} /\ st.error = FALSE
        BY <2>1 DEF Formed
      <4>4. /\ next.options = st.options /\ next.value = st.value /\ next.seen = st.seen
            /\ next.waiting = {o} /\ Formed(next)
        <5>1. /\ next.options = st.options /\ next.value = st.value /\ next.seen = st.seen
              /\ next.waiting = {o} /\ next.error = FALSE
          BY <4>2, <4>3
        <5>2. next = [options |-> st.options, value |-> st.value, seen |-> st.seen, waiting |-> {o},
                      error |-> FALSE]
          BY <2>1, <2>7, <4>2, WaitsIs DEF Formed
        <5> QED  BY <5>2 DEF Formed
      <4>5. Cardinality(Valued(st.options)) \in Nat
        BY <2>1, BoundCount
      <4>6. i = Len(next.value) + Len(next.options) + Cardinality(Valued(next.options))
                + (IF next.waiting = {} THEN 0 ELSE 1)
        <5> DEFINE v == Cardinality(Valued(st.options))  l == Len(st.value)  m == Len(st.options)
        <5>1. i - 1 = l + m + v /\ l \in Nat /\ m \in Nat /\ v \in Nat
          <6>1. l \in Nat /\ m \in Nat /\ v \in Nat
            BY <2>2, <4>5
          <6>2. i - 1 = l + m + v + 0
            BY <2>1, <2>7
          <6> HIDE DEF l, m, v
          <6> QED  BY <6>1, <6>2
        <5>2. Len(next.value) = l /\ Len(next.options) = m /\ Cardinality(Valued(next.options)) = v
              /\ next.waiting # {}
          BY <4>4
        <5> HIDE DEF v, l, m
        <5>3. i = l + m + v + 1
          BY <5>1
        <5> QED  BY <5>1, <5>2, <5>3
      <4> QED  BY <1>1, <2>1, <3>2, <3>4, <4>4, <4>6 DEF ReadSo, V
    <3>5. CASE ~o.hasValue
      <4>1. next = BindsNow(st, o, {})
        BY <1>3, <2>7, <3>5 DEF C!ReadToken, BindsNow, o
      <4> QED  BY <2>3, <2>7, <3>2, <3>5, <4>1
    <3> QED  BY <3>3, <3>4, <3>5
  <2> QED  BY <2>4, <2>5, <2>6, <2>7
<1> QED  BY <1>2, <1>3

\* What has been read of all words.
LEMMA ReadIsSo ==
  ASSUME NEW spec, C!SpecValid(spec), SpecForm(spec), NEW words, NEW k \in Nat, DOMAIN words = 1..k
  PROVE  ReadSo(<<spec, words>>, k, Reading(spec, words))
<1> DEFINE q == <<spec, words>>
<1>1. q[1] = spec /\ q[2] = words
  OBVIOUS
<1> SUFFICES ReadSo(q, k, Reads!Fold(spec, C!Nothing, words))
  BY DEF Reading
<1>2. ReadSo(q, 0, C!Nothing)
  <2> DEFINE no == C!Nothing
  <2>1. no.options = <<>> /\ no.value = <<>> /\ no.seen = {} /\ no.waiting = {} /\ Formed(no)
    BY DEF C!Nothing, Formed
  <2> HIDE DEF no
  <2>2. List(<<>>) /\ AllBound(spec, words, <<>>) /\ KeysOf(<<>>) = {} /\ Valued(<<>>) = {}
        /\ Len(<<>>) = 0
    BY DEF List, AllBound, KeysOf, Valued
  <2>3. Cardinality({}) = 0
    BY FS_EmptySet
  <2>4. <<>> \in Seq({t \in C!ToSet(words) : ~C!LooksLikeOption(t)})
    OBVIOUS
  <2>5. 0 = Len(no.value) + Len(no.options) + Cardinality(Valued(no.options))
              + (IF no.waiting = {} THEN 0 ELSE 1)
    <3> DEFINE v == Cardinality(Valued(no.options))  l == Len(no.value)  m == Len(no.options)
    <3>1. v = 0 /\ l = 0 /\ m = 0
      BY <2>1, <2>2, <2>3
    <3> HIDE DEF v, l, m
    <3>2. 0 = l + m + v + 0
      BY <3>1
    <3> QED  BY <2>1, <3>2 DEF v, l, m
  <2> QED  BY <1>1, <2>1, <2>2, <2>4, <2>5 DEF ReadSo, no
<1> HIDE DEF q
<1>3. ASSUME NEW i \in 1..k, NEW st, ReadSo(q, i - 1, st)
      PROVE  ReadSo(q, i, C!ReadToken(spec, st, words[i]))
  <2>1. i \in Nat \ {0} /\ words[i] \in C!ToSet(words)
    BY DEF C!ToSet
  <2> QED  BY <1>3, <2>1, ReadKeeps DEF q
<1> QED  BY <1>2, <1>3, Reads!FoldKeeps

\* A text is its header and the words after it.
LEMMA Headed ==
  ASSUME NEW S, NEW rest \in Seq(S), NEW h
  PROVE  Head(<<h>> \o rest) = h /\ Tail(<<h>> \o rest) = rest
<1> DEFINE l == Len(rest)
<1>1. rest \in Seq(S \cup {h}) /\ <<h>> \in Seq(S \cup {h}) /\ l \in Nat
  OBVIOUS
<1>2. <<h>> \o rest \in Seq(S \cup {h}) /\ Len(<<h>> \o rest) = l + 1 /\ (<<h>> \o rest)[1] = h
      /\ \A n \in 1..l : (<<h>> \o rest)[n + 1] = rest[n]
  BY <1>1
<1> QED  BY <1>1, <1>2

(* What was understood of a text is understood again of what is written for *)
(* it.                                                                       *)
LEMMA Stable ==
  ASSUME NEW spec, C!SpecValid(spec), SpecForm(spec), NEW text, List(text), text # <<>>
  PROVE  C!BindingIsStable(text, spec)
<1> SUFFICES ASSUME NEW inv \in C!BindCommand(text, spec)
             PROVE  /\ C!BindCommand(C!Written(spec.prefix, inv), spec) = {inv}
                    /\ Len(text) = 1 + Len(inv.value) + Len(inv.options)
                         + Cardinality({n \in DOMAIN inv.options : inv.options[n].value # {}})
  <2>1. \A X : C!Cardinality(X) = Cardinality(X)
    BY DEF C!Cardinality, Cardinality
  <2> QED  BY <2>1 DEF C!BindingIsStable
<1> DEFINE words == Tail(text)  k == Len(text) - 1
           st == Reading(spec, words)
<1>1. k \in Nat /\ DOMAIN words = 1..k /\ Len(text) = 1 + k
  BY DEF List
<1>0. inv = Invoked(text, spec) /\ Binds(text, spec)
  BY BindForm
<1>2. /\ ~st.error /\ st.waiting = {}
      /\ \A o \in C!ToSet(spec.options) : o.required => C!RequiredKey(o) \in st.seen
      /\ inv = [name |-> C!Normal(spec.name), mention |-> Head(text).mention, options |-> st.options,
                value |-> st.value]
  BY <1>0 DEF Binds, Invoked
<1> DEFINE V == {t \in C!ToSet(words) : ~C!LooksLikeOption(t)}
<1>3. /\ Formed(st) /\ List(st.options) /\ AllBound(spec, words, st.options)
      /\ st.value \in Seq(V) /\ st.seen = KeysOf(st.options)
      /\ k = Len(st.value) + Len(st.options) + Cardinality(Valued(st.options))
              + (IF st.waiting = {} THEN 0 ELSE 1)
  <2> DEFINE q == <<spec, words>>
  <2>1. q[1] = spec /\ q[2] = words
    OBVIOUS
  <2>2. ReadSo(q, k, st)
    <3> HIDE DEF words, k
    <3> QED  BY <1>1, ReadIsSo
  <2> HIDE DEF q, st, words, k
  <2> QED  BY <1>2, <2>1, <2>2 DEF ReadSo
<1> DEFINE opts == st.options  value == st.value  head == Head(text)
           S == C!ToSet(words) \cup UNION {C!ToSet(C!Rewritten(opts[n])) : n \in DOMAIN opts}
           W == Writes!Fold(0, <<>>, opts)
<1>4. inv.options = opts /\ inv.value = value /\ inv.name = C!Normal(spec.name) /\ inv.mention = head.mention
  BY <1>2
<1>5. W \in Seq(S) /\ Reading(spec, W) = ReadUpTo(opts, Len(opts))
  <2> DEFINE l == Len(opts)
  <2>1. l \in Nat /\ DOMAIN opts = 1..l
    BY <1>3 DEF List
  <2>2. \A n \in DOMAIN opts : IsBound(spec, words, opts[n]) /\ C!ToSet(C!Rewritten(opts[n])) \subseteq S
    BY <1>3 DEF AllBound
  <2>3. List(opts)
    BY <1>3
  <2> HIDE DEF opts, l, S, words
  <2> DEFINE q == <<spec, opts, S>>
  <2>4. q[1] = spec /\ q[2] = opts /\ q[3] = S
    OBVIOUS
  <2>5. WrittenSo(q, l, W)
    BY <2>1, <2>2, <2>3, WritesOptions
  <2> HIDE DEF q
  <2> QED  BY <2>4, <2>5 DEF WrittenSo, l
<1>6. ReadUpTo(opts, Len(opts)) =
        [options |-> opts, value |-> <<>>, seen |-> st.seen, waiting |-> {}, error |-> FALSE]
  <2>1. SubSeq(opts, 1, Len(opts)) = opts
    BY <1>3 DEF List
  <2>2. DOMAIN opts = 1..Len(opts)
    BY <1>3 DEF List
  <2> HIDE DEF opts
  <2> QED  BY <1>3, <2>1, <2>2 DEF ReadUpTo, KeysOf, opts
<1>7. Reading(spec, W \o value) = st
  <2> DEFINE was == ReadUpTo(opts, Len(opts))
  <2>1. value \in Seq({t \in S : ~C!LooksLikeOption(t)})
    BY <1>3
  <2>2. was.options = opts /\ was.value = <<>> /\ was.seen = st.seen /\ Ready(was)
    <3> HIDE DEF was, opts, st
    <3>1. was = [options |-> opts, value |-> <<>>, seen |-> st.seen, waiting |-> {}, error |-> FALSE]
      BY <1>6 DEF was
    <3> QED  BY <3>1 DEF Ready
  <2> HIDE DEF was, opts, value, S, W
  <2>3. Reading(spec, W \o value) =
          [options |-> was.options, value |-> value, seen |-> was.seen, waiting |-> {}, error |-> FALSE]
    BY <1>5, <2>1, <2>2, WritesValue DEF was
  <2>4. st = [options |-> opts, value |-> value, seen |-> st.seen, waiting |-> {}, error |-> FALSE]
    BY <1>2, <1>3 DEF Formed, opts, value
  <2> QED  BY <2>2, <2>3, <2>4
<1> DEFINE again == C!Written(spec.prefix, inv)
           header == [prefix |-> spec.prefix, name |-> inv.name, mention |-> inv.mention]
<1>8. again = <<header>> \o (W \o value)
  <2>1. C!FoldLeft(LAMBDA ws, o : ws \o C!Rewritten(o), <<>>, inv.options) = Writes!Fold(0, <<>>, inv.options)
    BY DEF Writes!Fold, Writes!FoldLeft, Writes!MapThenFoldSet, Writes!Max, C!FoldLeft,
           C!MapThenFoldSet, C!Max, WriteOption
  <2> QED  BY <1>4, <2>1 DEF C!Written, C!HeaderOf
<1>9. Head(again) = header /\ Tail(again) = W \o value
  <2> DEFINE rest == W \o value
  <2>1. rest \in Seq(S)
    <3>1. value \in Seq(S)
      BY <1>3
    <3> HIDE DEF W, value, S
    <3> QED  BY <1>5, <3>1
  <2> HIDE DEF rest, header, S, again
  <2>2. Head(<<header>> \o rest) = header /\ Tail(<<header>> \o rest) = rest
    BY <2>1, Headed
  <2> QED  BY <1>8, <2>2 DEF rest
<1>10. C!BindCommand(again, spec) = {inv}
  <2>1. Reading(spec, Tail(again)) = st /\ Head(again).mention = inv.mention
    <3>1. header.mention = inv.mention
      OBVIOUS
    <3> HIDE DEF again, st, header
    <3> QED  BY <1>7, <1>9, <3>1
  <2> HIDE DEF again, st
  <2>2. Binds(again, spec)
    BY <1>2, <2>1 DEF Binds
  <2>3. Invoked(again, spec) = inv
    <3>1. inv.mention = Head(text).mention
      BY <1>2
    <3> QED  BY <1>2, <2>1, <3>1 DEF Invoked
  <2> QED  BY <2>2, <2>3, BindForm
<1>11. Len(text) = 1 + Len(inv.value) + Len(inv.options)
         + Cardinality({n \in DOMAIN inv.options : inv.options[n].value # {}})
  <2> DEFINE v == Cardinality(Valued(opts))  l == Len(opts)  m == Len(value)
  <2>1. l \in Nat /\ m \in Nat /\ v \in Nat
    <3>1. l \in Nat
      BY <1>3 DEF List
    <3>2. m \in Nat
      BY <1>3
    <3> QED  BY <1>3, <3>1, <3>2, BoundCount
  <2>2. k = m + l + v + 0
    BY <1>2, <1>3
  <2>3. Cardinality({n \in DOMAIN inv.options : inv.options[n].value # {}}) = v
    BY <1>4 DEF Valued
  <2>4. Len(inv.value) = m /\ Len(inv.options) = l
    BY <1>4
  <2> HIDE DEF v, l, m, k
  <2>5. Len(text) = 1 + m + l + v
    BY <1>1, <2>1, <2>2
  <2> QED  BY <2>3, <2>4, <2>5
<1> QED  BY <1>10, <1>11

-----------------------------------------------------------------------------
(* The usage.                                                                *)

\* The words of the usages of a command.
ValueWord == [kind |-> "word", name |-> "value"]
LongWord(o) == [kind |-> "long", name |-> o.name]
ShortWord(o) == [kind |-> "short", name |-> o.alias]
UsageWords(spec) ==
  {ValueWord} \cup {LongWord(o) : o \in C!ToSet(spec.options)} \cup {ShortWord(o) : o \in C!ToSet(spec.options)}

\* A text that follows the usage of the first i options of q.
Required(spec, i, seen) ==
  \A j \in 1..i : spec.options[j].required => C!RequiredKey(spec.options[j]) \in seen
Follows(spec, header, i, text) ==
  \E words \in Seq(UsageWords(spec)) :
    /\ text = <<header>> \o words
    /\ Ready(Reading(spec, words)) /\ Required(spec, i, Reading(spec, words).seen)
Follow(p, texts, o) == {t \o w : t \in texts, w \in C!Spellings(o)}
UsedSo(q, i, texts) == \A text \in texts : Follows(q[1], q[2], i, text)
Uses == INSTANCE FoldLaws WITH Op <- Follow, Inv <- UsedSo

\* A header stays in front of the words.
LEMMA JoinsAll ==
  ASSUME NEW S, NEW h, NEW a \in Seq(S), NEW b \in Seq(S)
  PROVE  (<<h>> \o a) \o b = <<h>> \o (a \o b) /\ a \o b \in Seq(S)
<1> DEFINE T == S \cup {h}
<1>1. <<h>> \in Seq(T) /\ a \in Seq(T) /\ b \in Seq(T)
  OBVIOUS
<1>2. (<<h>> \o a) \o b = <<h>> \o (a \o b)
  <2> HIDE DEF T
  <2> DEFINE l == Len(a)  m == Len(b)  left == (<<h>> \o a) \o b  right == <<h>> \o (a \o b)
  <2>1. /\ l \in Nat /\ m \in Nat /\ left \in Seq(T) /\ right \in Seq(T)
        /\ Len(left) = 1 + l + m /\ Len(right) = 1 + l + m
    BY <1>1
  <2>2. \A n \in 1..(1 + l + m) : left[n] = right[n]
    BY <1>1
  <2> HIDE DEF left, right, l, m
  <2>3. left = right
    BY <2>1, <2>2
  <2> QED  BY <2>3 DEF left, right
<1> QED  BY <1>2

\* Two words make a sequence of two.
LEMMA TwoWords ==
  ASSUME NEW S, NEW x \in S, NEW y \in S
  PROVE  <<x>> \o <<y>> = <<x, y>>
<1> DEFINE l == <<x>> \o <<y>>  r == <<x, y>>
<1>1. l \in Seq(S) /\ r \in Seq(S) /\ Len(l) = 2 /\ Len(r) = 2
  OBVIOUS
<1>2. \A n \in 1..2 : l[n] = r[n]
  OBVIOUS
<1> HIDE DEF l, r
<1>3. l = r
  BY <1>1, <1>2
<1> QED  BY <1>3 DEF l, r

\* One option more is read, whichever way it is spelled.
LEMMA FollowsOn ==
  ASSUME NEW spec, C!SpecValid(spec), SpecForm(spec), NEW o \in C!ToSet(spec.options),
         NEW words \in Seq(UsageWords(spec)), Ready(Reading(spec, words)), NEW w \in C!Spellings(o)
  PROVE  /\ w \in Seq(UsageWords(spec)) /\ Ready(Reading(spec, words \o w))
         /\ Reading(spec, words).seen \subseteq Reading(spec, words \o w).seen
         /\ o.required => C!RequiredKey(o) \in Reading(spec, words \o w).seen
<1> DEFINE S == UsageWords(spec)  st == Reading(spec, words)
           value == IF o.hasValue THEN <<ValueWord>> ELSE <<>>
<1>0. ValueWord \in S /\ ~C!LooksLikeOption(ValueWord) /\ LongWord(o) \in S /\ ShortWord(o) \in S
      /\ LongWord(o).kind = "long" /\ LongWord(o).name = o.name
      /\ ShortWord(o).kind = "short" /\ ShortWord(o).name = o.alias
  BY DEF UsageWords, ValueWord, LongWord, ShortWord, C!LooksLikeOption
<1>1. \/ w = <<>> /\ ~o.required
      \/ o.name # C!Unnamed /\ w = <<LongWord(o)>> \o value
      \/ o.alias # C!Unnamed /\ w = <<ShortWord(o)>> \o value
  BY DEF C!Spellings, LongWord, ShortWord, ValueWord
<1>2. CASE w = <<>> /\ ~o.required
  <2>1. words \o w = words /\ w \in Seq(S)
    BY <1>2
  <2> QED  BY <1>2, <2>1
<1>3. ASSUME NEW token \in S, w = <<token>> \o value,
             \/ token.kind = "long" /\ o.name # C!Unnamed /\ C!Normal(token.name) = C!Normal(o.name)
             \/ token.kind = "short" /\ o.alias # C!Unnamed /\ C!Normal(token.name) = C!Normal(o.alias)
      PROVE  /\ w \in Seq(S) /\ Ready(Reading(spec, words \o w))
             /\ st.seen \subseteq Reading(spec, words \o w).seen
             /\ C!RequiredKey(o) \in Reading(spec, words \o w).seen
  <2>1. List(spec.options) /\ o.hasValue \in BOOLEAN
    BY DEF SpecForm, C!ToSet
  <2>2. C!OptionOf(spec, token) = {o}
    BY <1>3, <2>1, OptionNamed
  <2>3. C!LooksLikeOption(token)
    BY <1>3 DEF C!LooksLikeOption
  <2>4. \E v : Reading(spec, words \o w) = BindsNow(st, o, v)
    <3>1. CASE o.hasValue
      <4>1. w = <<token, ValueWord>>
        <5>1. value = <<ValueWord>>
          BY <3>1
        <5>2. <<token>> \o <<ValueWord>> = <<token, ValueWord>>
          BY <1>0, TwoWords
        <5> HIDE DEF value
        <5> QED  BY <1>3, <5>1, <5>2, Zenon
      <4> HIDE DEF S
      <4>2. Reading(spec, words \o <<token, ValueWord>>) = BindsNow(Reading(spec, words), o, {ValueWord})
        BY <1>0, <2>1, <2>2, <2>3, <3>1, ReadsOption DEF S
      <4> QED  BY <4>1, <4>2
    <3>2. CASE ~o.hasValue
      <4>1. w = <<token>>
        BY <1>3, <3>2
      <4> HIDE DEF S
      <4>2. Reading(spec, words \o <<token>>) = BindsNow(Reading(spec, words), o, {})
        BY <2>1, <2>2, <2>3, <3>2, ReadsFlag DEF S
      <4> QED  BY <4>1, <4>2
    <3> QED  BY <2>1, <3>1, <3>2
  <2>5. w \in Seq(S)
    BY <1>0, <1>3
  <2> QED  BY <2>4, <2>5 DEF BindsNow, Ready
<1>4. CASE o.name # C!Unnamed /\ w = <<LongWord(o)>> \o value
  BY <1>0, <1>3, <1>4
<1>5. CASE o.alias # C!Unnamed /\ w = <<ShortWord(o)>> \o value
  BY <1>0, <1>3, <1>5
<1> QED  BY <1>1, <1>2, <1>4, <1>5

(* Whoever follows the usage of a command that the registry took gives a     *)
(* command that binds.                                                       *)
LEMMA UsageIsUnderstood ==
  ASSUME NEW spec, C!SpecValid(spec), SpecForm(spec)
  PROVE  C!UsageBinds(spec)
<1> DEFINE header == [prefix |-> spec.prefix, name |-> spec.name, mention |-> C!Unnamed]
           S == UsageWords(spec)  opts == spec.options  k == Len(opts)
           q == <<spec, header>>
<1>1. k \in Nat /\ DOMAIN opts = 1..k
  BY DEF SpecForm, List
<1>2. q[1] = spec /\ q[2] = header /\ header.name = spec.name
  OBVIOUS
<1>3. C!Usages(spec) = Uses!Fold(0, {<<header>>}, opts)
  BY DEF C!Usages, C!HeaderOf, Uses!Fold, Uses!FoldLeft, Uses!MapThenFoldSet, Uses!Max, C!FoldLeft,
         C!MapThenFoldSet, C!Max, Follow
<1> HIDE DEF q, header
<1>4. UsedSo(q, 0, {<<header>>})
  <2>1. <<header>> = <<header>> \o <<>> /\ <<>> \in Seq(S)
    OBVIOUS
  <2>2. Ready(C!Nothing)
    BY DEF C!Nothing, Ready
  <2>4. Required(spec, 0, C!Nothing.seen)
    BY DEF Required
  <2>5. Reading(spec, <<>>) = C!Nothing
    BY ReadsNothing
  <2> DEFINE words == <<>>  text == <<header>>
  <2> HIDE DEF words, text, S
  <2>6. words \in Seq(S) /\ text = <<header>> \o words /\ Reading(spec, words) = C!Nothing
    BY <2>1, <2>5 DEF words, text
  <2>7. Follows(spec, header, 0, text)
    BY <2>2, <2>4, <2>6 DEF Follows, S
  <2>3. Follows(spec, header, 0, <<header>>)
    BY <2>7 DEF text
  <2> QED  BY <1>2, <2>3 DEF UsedSo
<1>5. ASSUME NEW i \in 1..k, NEW texts, UsedSo(q, i - 1, texts)
      PROVE  UsedSo(q, i, Follow(0, texts, opts[i]))
  <2> SUFFICES ASSUME NEW text \in Follow(0, texts, opts[i]) PROVE Follows(spec, header, i, text)
    BY <1>2 DEF UsedSo
  <2>7. PICK t \in texts, w \in C!Spellings(opts[i]) : text = t \o w
    BY DEF Follow
  <2> DEFINE o == opts[i]
  <2>1. o \in C!ToSet(opts)
    BY <1>1 DEF C!ToSet
  <2>2. PICK words \in Seq(S) :
          /\ t = <<header>> \o words
          /\ Ready(Reading(spec, words)) /\ Required(spec, i - 1, Reading(spec, words).seen)
    BY <1>2, <1>5 DEF UsedSo, Follows
  <2>3. /\ w \in Seq(S) /\ Ready(Reading(spec, words \o w))
        /\ Reading(spec, words).seen \subseteq Reading(spec, words \o w).seen
        /\ o.required => C!RequiredKey(o) \in Reading(spec, words \o w).seen
    BY <2>1, <2>2, FollowsOn
  <2>4. t \o w = <<header>> \o (words \o w) /\ words \o w \in Seq(S)
    <3> HIDE DEF S
    <3> QED  BY <2>2, <2>3, JoinsAll
  <2>5. Required(spec, i, Reading(spec, words \o w).seen)
    <3> SUFFICES ASSUME NEW j \in 1..i, opts[j].required
                 PROVE  C!RequiredKey(opts[j]) \in Reading(spec, words \o w).seen
      BY DEF Required
    <3>1. CASE j = i
      BY <2>3, <3>1
    <3>2. CASE j # i
      <4>1. j \in 1..(i - 1)
        BY <3>2
      <4>2. C!RequiredKey(opts[j]) \in Reading(spec, words).seen
        BY <2>2, <4>1 DEF Required
      <4> QED  BY <2>3, <4>2
    <3> QED  BY <3>1, <3>2
  <2> DEFINE all == words \o w
  <2> HIDE DEF all
  <2>6. all \in Seq(S) /\ text = <<header>> \o all /\ Ready(Reading(spec, all))
        /\ Required(spec, i, Reading(spec, all).seen)
    BY <2>3, <2>4, <2>5, <2>7 DEF all
  <2> QED  BY <2>6 DEF Follows
<1>6. UsedSo(q, k, C!Usages(spec))
  <2> HIDE DEF k
  <2>1. UsedSo(q, k, Uses!Fold(0, {<<header>>}, opts))
    BY <1>1, <1>4, <1>5, Uses!FoldKeeps
  <2> QED  BY <1>3, <2>1
<1> SUFFICES ASSUME NEW text \in C!Usages(spec) PROVE ~C!SyntaxError(text) /\ C!BindCommand(text, spec) # {}
  BY DEF C!UsageBinds
<1>7. PICK words \in Seq(S) :
        /\ text = <<header>> \o words
        /\ Ready(Reading(spec, words)) /\ Required(spec, k, Reading(spec, words).seen)
  BY <1>2, <1>6 DEF UsedSo, Follows
<1>8. Head(text) = header /\ Tail(text) = words
  <2> HIDE DEF S
  <2> QED  BY <1>7, Headed
<1>9. ~C!SyntaxError(text)
  <2>1. header.name # C!Unnamed
    BY <1>2 DEF C!SpecValid
  <2>2. \A n \in 2..Len(text) : text[n] \in S
    <3> HIDE DEF S
    <3>1. <<header>> \in Seq(S \cup {header}) /\ words \in Seq(S \cup {header}) /\ Len(words) \in Nat
      OBVIOUS
    <3>2. Len(text) = 1 + Len(words) /\ \A n \in 2..Len(text) : text[n] = words[n - 1] /\ n - 1 \in 1..Len(words)
      BY <1>7, <3>1
    <3> QED  BY <3>2
  <2>3. \A token \in S : token.kind # "assign"
    BY DEF UsageWords, ValueWord, LongWord, ShortWord
  <2> QED  BY <1>8, <2>1, <2>2, <2>3 DEF C!SyntaxError
<1>10. Binds(text, spec)
  <2>1. \A o \in C!ToSet(opts) : o.required => C!RequiredKey(o) \in Reading(spec, words).seen
    BY <1>1, <1>7 DEF Required, C!ToSet
  <2>2. ~Reading(spec, words).error /\ Reading(spec, words).waiting = {}
    BY <1>7 DEF Ready
  <2> QED  BY <1>8, <2>1, <2>2 DEF Binds
<1> QED  BY <1>9, <1>10, BindForm

(* A command is understood: the theorem about every registered command and   *)
(* every text that may be written.                                           *)
THEOREM CommandsAreUnderstood == DecisionSpec => []CommandsHold
<1>1. Looked => CommandsHold
  <2>1. \A n \in DOMAIN CommandSpecs : C!SpecValid(CommandSpecs[n]) /\ SpecForm(CommandSpecs[n])
    BY CommandsAssumption DEF C!Declares, C!ToSet
  <2>2. ASSUME Looked, scene = "invocation", NEW n \in DOMAIN CommandSpecs
        PROVE  C!BindingIsStable(input, CommandSpecs[n])
    <3>1. input \in Invocations
      BY <2>2 DEF Looked
    <3>2. List(input) /\ input # <<>>
      BY <3>1, InputsAssumption
    <3> QED  BY <2>1, <3>2, Stable
  <2>3. ASSUME NEW n \in DOMAIN CommandSpecs PROVE C!UsageBinds(CommandSpecs[n])
    BY <2>1, UsageIsUnderstood
  <2>4. C!AllowlistConfines(C!Allowlist(input.conversations, input.bypass), CommandSpecs, SaidEvent,
                            input.accepts)
    BY Confines
  <2> QED  BY <2>2, <2>3, <2>4 DEF CommandsHold
<1> QED  BY <1>1, AlwaysLooked, PTL
=============================================================================
